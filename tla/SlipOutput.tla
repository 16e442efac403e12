----------------------------- MODULE SlipOutput -----------------------------
(***************************************************************************)
(* The output side of the native border router's serial device             *)
(* (border-router/native/host/slip-dev.c): packets are escaped into one    *)
(* flat buffer, and the select loop writes them to the slip-radio, one at  *)
(* a time, in as many partial writes as it takes.                          *)
(*                                                                         *)
(* The program is one thread.  Sequences count from 1 where the code       *)
(* counts from 0, and slip_end is Len(slip_buf).  The counters slip_sent   *)
(* and slip_packet_count, which decide nothing, are left out.              *)
(***************************************************************************)
EXTENDS Naturals, SlipBytes

CONSTANTS
  Packets,      \* what write_to_slip may be called with
  BufSize,      \* sizeof(slip_buf)
  SendDelay     \* whether send_delay is not zero

(***************************************************************************)
(* write_to_serial turns a packet into a frame.                            *)
(***************************************************************************)
Frame(packet) == Escaped(packet) \o <<SLIP_END>>

Bytes == {SLIP_END} \cup UNION {Range(Frame(p)) : p \in Packets}

ASSUME SlipAssumption ==
  /\ BufSize \in Nat \ {0}
  /\ SendDelay \in BOOLEAN
  /\ \A p \in Packets : p # << >> /\ p \in Seq(Range(p))

VARIABLES
  slip_buf,           \* the bytes in the buffer
  slip_begin,         \* how many of them have been written
  slip_packet_end,    \* where the frame that goes out ends, 0 when there is none
  send_delay_timer,   \* the timer runs
  exited,             \* the program has ended with an error
  quiet               \* SEND_DELAY has passed since a frame was complete (history)

vars == <<slip_buf, slip_begin, slip_packet_end, send_delay_timer, exited, quiet>>

TypeOK ==
  /\ slip_buf \in Seq(Bytes) /\ Len(slip_buf) <= BufSize
  /\ slip_begin \in Nat /\ slip_packet_end \in Nat
  /\ slip_begin <= slip_packet_end /\ slip_packet_end <= Len(slip_buf)
  /\ send_delay_timer \in BOOLEAN /\ exited \in BOOLEAN /\ quiet \in BOOLEAN

\* slip_init sends one SLIP_END.
Init ==
  /\ slip_buf = <<SLIP_END>>
  /\ slip_begin = 0
  /\ slip_packet_end = 1
  /\ send_delay_timer = FALSE
  /\ exited = FALSE
  /\ quiet = TRUE

slip_empty == slip_packet_end = 0

(***************************************************************************)
(* write_to_slip: slip_send for every byte of the frame.  A buffer that    *)
(* overflows ends the program.                                             *)
(***************************************************************************)
Fits(frame) == Len(slip_buf) + Len(frame) <= BufSize

WriteToSlip(p) ==
  /\ ~exited
  /\ Fits(Frame(p))
  /\ slip_buf' = slip_buf \o Frame(p)
  /\ slip_packet_end' = IF slip_packet_end = 0 THEN Len(slip_buf') ELSE slip_packet_end
  /\ UNCHANGED <<slip_begin, send_delay_timer, exited, quiet>>

Overflow(p) ==
  /\ ~exited
  /\ ~Fits(Frame(p))
  /\ exited' = TRUE
  /\ UNCHANGED <<slip_buf, slip_begin, slip_packet_end, send_delay_timer, quiet>>

(***************************************************************************)
(* slip_flushbuf, which the select loop calls when set_fd has asked for a  *)
(* writable descriptor: there is a frame and the timer does not run.       *)
(***************************************************************************)
Writable == ~exited /\ ~slip_empty /\ ~send_delay_timer

\* Part of the frame is written; -1 with EAGAIN writes nothing.
FlushSome ==
  /\ Writable
  /\ \E n \in 1 .. slip_packet_end - slip_begin - 1 : slip_begin' = slip_begin + n
  /\ UNCHANGED <<slip_buf, slip_packet_end, send_delay_timer, exited, quiet>>

FlushFails ==
  /\ Writable
  /\ exited' = TRUE
  /\ UNCHANGED <<slip_buf, slip_begin, slip_packet_end, send_delay_timer, quiet>>

\* Mutant: the move starts one byte too far.
RestSkipsOne == SubSeq(slip_buf, slip_packet_end + 2, Len(slip_buf))

\* The bytes behind the frame are moved to the front.  The code calls memcpy
\* also when they overlap; the C libraries the host runs on move them then
\* as memmove does.
Rest == SubSeq(slip_buf, slip_packet_end + 1, Len(slip_buf))

\* Mutant: the scan looks for the last SLIP_END.
LastFrame(buf) ==
  IF \E i \in 2 .. Len(buf) : buf[i] = SLIP_END
  THEN CHOOSE i \in 2 .. Len(buf) :
         buf[i] = SLIP_END /\ \A j \in i + 1 .. Len(buf) : buf[j] # SLIP_END
  ELSE 0

\* Mutant: there is no scan.
NoFrame(buf) == 0

\* The scan for the end of the next frame begins at its second byte.
NextFrame(buf) ==
  IF \E i \in 2 .. Len(buf) : buf[i] = SLIP_END
  THEN CHOOSE i \in 2 .. Len(buf) :
         buf[i] = SLIP_END /\ \A j \in 2 .. i - 1 : buf[j] # SLIP_END
  ELSE 0

\* Mutant: slip_begin keeps its value.
FlushLastNoReset ==
  /\ Writable
  /\ slip_buf' = Rest
  /\ slip_begin' = slip_begin
  /\ slip_packet_end' = NextFrame(slip_buf')
  /\ send_delay_timer' = (SendDelay /\ slip_buf' # << >>)
  /\ quiet' = FALSE
  /\ UNCHANGED exited

\* The last bytes of the frame are written.
FlushLast ==
  /\ Writable
  /\ slip_buf' = Rest
  /\ slip_begin' = 0
  /\ slip_packet_end' = NextFrame(slip_buf')
  /\ send_delay_timer' = (SendDelay /\ slip_buf' # << >>)
  /\ quiet' = FALSE
  /\ UNCHANGED exited

\* SEND_DELAY passes, for the timer if it runs.
DelayElapses ==
  /\ ~exited /\ ~quiet
  /\ quiet' = TRUE
  /\ send_delay_timer' = FALSE
  /\ UNCHANGED <<slip_buf, slip_begin, slip_packet_end, exited>>

Flush == FlushSome \/ FlushLast

Next ==
  \/ \E p \in Packets : WriteToSlip(p) \/ Overflow(p)
  \/ Flush \/ FlushFails
  \/ DelayElapses

Spec == Init /\ [][Next]_vars

\* The select loop flushes while it can, and time goes on.
FairSpec == Spec /\ WF_vars(Flush) /\ WF_vars(DelayElapses)

(***************************************************************************)
(* Properties.                                                             *)
(***************************************************************************)

Unsent == SubSeq(slip_buf, slip_begin + 1, Len(slip_buf))

\* slip_packet_end is the end of the frame that goes out, never inside it
\* and never a frame further: it is kept by three pieces of code, one of
\* which rescans the buffer from its second byte.
FrameBoundary ==
  IF slip_buf = << >> THEN slip_packet_end = 0
  ELSE /\ slip_begin < slip_packet_end
       /\ \A i \in 1 .. slip_packet_end : slip_buf[i] = SLIP_END <=> i = slip_packet_end

\* The buffer with its indices is a queue of bytes: what has been put in
\* goes out, whole and in order, however the writes are cut.
Queue == INSTANCE SlipQueue WITH
  End <- SLIP_END, Frames <- {Frame(p) : p \in Packets}, Hello <- <<SLIP_END>>,
  unsent <- Unsent, up <- ~exited

ImplementsQueue == Queue!Spec

\* The bytes that wait go out: however writes, delays and new packets
\* alternate, a buffer that is not empty completes another frame.
Drains == (slip_buf # << >> /\ quiet) ~> (exited \/ ~quiet)

\* "a delay between slip packets to avoid losing data" (slip-dev.c:346):
\* no byte of a frame goes out before SEND_DELAY has passed since the frame
\* before.  The timer is set only when the next frame is already waiting.
DelayBetweenFrames ==
  [][slip_begin = 0 /\ Len(Unsent') < Len(Unsent) => quiet]_vars
=============================================================================
