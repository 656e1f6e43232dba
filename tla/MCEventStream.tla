--------------------------- MODULE MCEventStream ---------------------------
(* Instances of EventStream for TLC. *)
EXTENDS EventStream

\* A kind the table of types lacks; the other callbacks bring three it has.
MCReported == {"future"}

=============================================================================
