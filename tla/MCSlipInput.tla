---------------------------- MODULE MCSlipInput -----------------------------
(***************************************************************************)
(* Instances of SlipInput for TLC: a packet with both bytes to escape and  *)
(* between them one that looks like the end of an escape, a report on a    *)
(* packet whose session id is a line feed, a debug line, and sensor data   *)
(* with fewer rows, as many and more rows than there is room for, and with *)
(* elements that do not fit their row: the first, which goes on in the     *)
(* second, and the second, which goes on behind the array.  A lost byte    *)
(* makes elements that fit of these, and "!" alone of the shortest.        *)
(***************************************************************************)
EXTENDS SlipInput

Message(kind, data) == [kind |-> kind, data |-> data]

MCMessages ==
  {Message("packet", <<SLIP_END, SLIP_ESC_END, SLIP_ESC>>),
   Message("command", <<"!", "R", LF, "b">>),
   Message("debug", <<DEBUG_LINE_MARKER, "t", LF>>),
   Message("command", <<"!", "D", ";", ";", "s">>),
   Message("command", <<"!", "D", "s", "s", ";">>),
   Message("command", <<"!", "D", ";", "s", "s">>),
   Message("command", <<"!", "D">>)}

MCBinary == {"b"}
=============================================================================
