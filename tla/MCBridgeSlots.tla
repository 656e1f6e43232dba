--------------------------- MODULE MCBridgeSlots ---------------------------
(***************************************************************************)
(* Small instances of BridgeSlots for TLC.                                 *)
(***************************************************************************)
EXTENDS BridgeSlots

CONSTANTS k1, k2

TwoKeys == {k1, k2}

=============================================================================
