---------------------------- MODULE MCWaterLevel ----------------------------
(***************************************************************************)
(* Instances of WaterLevel for TLC, with the thresholds of smar2c.h and a  *)
(* counter that wraps soon.                                                *)
(***************************************************************************)
EXTENDS WaterLevel

MCYellowOfZoul == {"green", "red"}
=============================================================================
