---------------------------- MODULE MCSlipOutput ----------------------------
(***************************************************************************)
(* Instances of SlipOutput for TLC: a short and a long packet, with bytes  *)
(* that have to be escaped.                                                *)
(***************************************************************************)
EXTENDS SlipOutput

MCPackets == {<<"a">>, <<SLIP_END, "b">>, <<"c", SLIP_ESC, "d">>}
=============================================================================
