----------------------------- MODULE MCOwnership -----------------------------
(* Instances of Ownership for TLC. *)
EXTENDS Ownership

CONSTANTS k1, k2
MCKeys == {k1, k2}
=============================================================================
