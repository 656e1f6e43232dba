----------------------------- MODULE MCSimulator -----------------------------
(* Instances of Simulator for TLC. *)
EXTENDS Simulator

MCSetup(p, m, d, c, kit, patient) ==
    [profile |-> p, mode |-> m, destination |-> d, scenario |-> c, commands |-> kit,
     patient |-> patient]

Shooting == {"release", "s1_release", "reconnect", "sleep"}
Focusing == {"half_press", "release", "s1_release", "switch"}
Filming  == {"record", "reconnect", "sleep"}
Setting  == {"property", "destination", "postview", "release"}

MCSetups ==
    {MCSetup(FX3A, "remote_transfer", "host_and_card", Nominal, Shooting, FALSE),
     MCSetup(FX3A, "remote", "host_and_card", Scenario([leads |-> "property"]), Shooting, TRUE),
     MCSetup(FX3A, "remote", "card", Nominal, Filming, FALSE),
     MCSetup(InvertedModes, "remote", None, Scenario([idStep |-> 2, stalePreview |-> TRUE]), Shooting, TRUE),
     MCSetup(InvertedModes, "remote_transfer", "host",
             Scenario([reconnectAfter |-> 1000, quietLoss |-> FALSE]), Filming, TRUE),
     MCSetup(FutureUnknown, "remote", None,
             Scenario([unknownEvents |-> TRUE, af |-> "tracking"]), Setting, TRUE),
     MCSetup(MinimalStill, "remote", None, Nominal, Shooting \union {"record"}, FALSE)}
     \union {MCSetup(FX3A, "remote", "card", c, Focusing, TRUE) : c \in Scenarios}
=============================================================================
