----------------------------- MODULE SlipBytes ------------------------------
(***************************************************************************)
(* SLIP framing, as the two ends of the serial line between the native     *)
(* border router and its slip-radio write it: slip-dev.c on the host,      *)
(* slip-net.c on the mote.                                                 *)
(***************************************************************************)
EXTENDS Sequences, SequencesExt

SLIP_END == "END"
SLIP_ESC == "ESC"
SLIP_ESC_END == "ESC_END"
SLIP_ESC_ESC == "ESC_ESC"

Escape(byte) ==
  IF byte = SLIP_END THEN <<SLIP_ESC, SLIP_ESC_END>>
  ELSE IF byte = SLIP_ESC THEN <<SLIP_ESC, SLIP_ESC_ESC>>
  ELSE <<byte>>

Escaped(packet) == FlattenSeq([i \in DOMAIN packet |-> Escape(packet[i])])

\* The byte behind SLIP_ESC, as the host takes it.
Unescape(byte) ==
  IF byte = SLIP_ESC_END THEN SLIP_END
  ELSE IF byte = SLIP_ESC_ESC THEN SLIP_ESC
  ELSE byte
=============================================================================
