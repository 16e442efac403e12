----------------------------- MODULE MCMqttFsm -----------------------------
(***************************************************************************)
(* Instances of MqttFsm for TLC.                                           *)
(***************************************************************************)
EXTENDS MqttFsm

MCSignals == {"sFlow"}
MCTwoSignals == {"sFlow", "sLevel"}
MCNoSignals == {}
MCValues == {0, 1}
MCOneValue == {0}
MCBootOne == [s \in MCSignals |-> 0]
MCBootTwo == [s \in MCTwoSignals |-> IF s = "sLevel" THEN 1 ELSE 0]
MCBootNone == [s \in MCNoSignals |-> 0]
MCYellow == {"green", "red"}  \* the Zoul's LEDS_YELLOW
=============================================================================
