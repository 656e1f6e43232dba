------------------------- MODULE MCSessionCapture -------------------------
(***************************************************************************)
(* Small instances of SessionCapture for TLC.                              *)
(***************************************************************************)
EXTENDS SessionCapture

\* FocusSource.PROPERTY and FocusSource.STATUS_WARNING (events.py).
BothChannels == {"af_property", "af_status"}
\* A camera that notifies of no focus: only direct reads find it.
NoChannel == {}

=============================================================================
