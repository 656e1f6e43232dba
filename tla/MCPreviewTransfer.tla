------------------------- MODULE MCPreviewTransfer -------------------------
(***************************************************************************)
(* Small instances of PreviewTransfer for TLC.                             *)
(***************************************************************************)
EXTENDS PreviewTransfer

CONSTANTS t1, t2, still1, still2

TwoThreads == {t1, t2}
TwoStills == {still1, still2}

=============================================================================
