--------------------------- MODULE MCBorderRouter ---------------------------
(***************************************************************************)
(* Instances of BorderRouter for TLC: both routers, with the size of their *)
(* buffers.                                                                *)
(***************************************************************************)
EXTENDS BorderRouter

NativeRouter == [bufSize |-> 128, sensors |-> TRUE]
EmbeddedRouter == [bufSize |-> 256, sensors |-> FALSE]

MCBuilds == {NativeRouter, EmbeddedRouter}
=============================================================================
