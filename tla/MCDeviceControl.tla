--------------------------- MODULE MCDeviceControl ---------------------------
(* Instances of DeviceControl for TLC. *)
EXTENDS DeviceControl

Who(ops, patient, waits) == [ops |-> ops, patient |-> patient, waits |-> waits]

MCClients ==
  {Who({"start", "stop", "exit"}, p, w) : p, w \in BOOLEAN}
    \cup {Who({"frame", "measure"}, FALSE, TRUE), Who({"start", "stop", "frame"}, TRUE, TRUE)}
=============================================================================
