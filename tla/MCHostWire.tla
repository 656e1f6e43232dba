------------------------------ MODULE MCHostWire ------------------------------
(* Two properties of a camera, one of them a string. *)
EXTENDS HostWire

Record(there, value, text, kind, values) ==
  [there |-> there, value |-> value, text |-> text, kind |-> kind, values |-> values]

MCRecords ==
  (1 :> {Record(FALSE, 0, 0, "none", <<>>), Record(TRUE, 1, 0, "raw", <<>>), Record(TRUE, 2, 0, "range", <<0, 6, 2>>),
         Record(TRUE, 2, 0, "enum", <<0, 2>>)})
  @@ (2 :> {Record(FALSE, 0, 0, "none", <<>>), Record(TRUE, 0, 1, "none", <<>>),
            Record(TRUE, 0, 2, "none", <<>>)})

\* Two slots of two bits hold -8..7.
MCSettings == {-9, -8, -1, 6, 8}
=============================================================================
