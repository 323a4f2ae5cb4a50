-------------------------- MODULE MCMqttReporting --------------------------
(* A small instance of MqttReporting: one vehicle, a command that also     *)
(* names one that is not there, a command that cannot be understood, and   *)
(* either many connections or the Library's calls.                         *)
EXTENDS MqttReporting, TLC

Content(drones, command, ok) == [drones |-> drones, command |-> command, wellFormed |-> ok]
SomeCommands == "land" :> Content({"v1", "v9"}, "Land", TRUE)
             @@ "broken" :> Content({"v1"}, "text", FALSE)

Budget(starts, stops, silences, reports, commands, library) ==
    [starts |-> starts, stops |-> stops, silences |-> silences, reports |-> reports,
     commands |-> commands, library |-> library]
SomeBudgets == {Budget(3, 1, 1, 1, 0, 0), Budget(2, 0, 0, 0, 2, 0), Budget(1, 0, 0, 0, 1, 3),
                Budget(1, 0, 0, 0, 0, 4), Budget(2, 0, 0, 0, 0, 3)}
=============================================================================
