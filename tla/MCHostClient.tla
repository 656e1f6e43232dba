---------------------------- MODULE MCHostClient ----------------------------
(***************************************************************************)
(* Small instances of HostClient for TLC.                                  *)
(***************************************************************************)
EXTENDS HostClient, TLC

CONSTANTS t1, t2

OneThread == {t1}
TwoThreads == {t1, t2}

\* No action tells one thread from another.
Symmetry == Permutations(TwoThreads)

=============================================================================
