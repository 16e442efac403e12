----------------------------- MODULE SlipInput ------------------------------
(***************************************************************************)
(* The way from the slip-radio into the native border router: the radio    *)
(* frames packets, commands and debug lines (native/node/slip-net.c,       *)
(* slip-radio.c), the serial line may lose a byte, and serial_input        *)
(* (native/host/slip-dev.c) cuts the bytes into frames again, byte by byte *)
(* and over many calls, and hands each to whom it is for.                  *)
(*                                                                         *)
(* The host is built for Linux.  The counter slip_received and what is     *)
(* printed are left out; a debug line of the radio is printed whole.       *)
(***************************************************************************)
EXTENDS Naturals, SlipBytes

CONSTANTS
  Messages,     \* what the radio sends: records [kind, data]
  Binary,       \* the bytes that are no text, besides those of SLIP
  InbufSize,    \* sizeof(inbuf)
  MaxSensors,   \* MAX_SENSORS
  RowSize,      \* the length of a row of sensors[][]
  Verbosities,  \* what -v may have set slip_config_verbose to
  LineCap       \* bound: bytes on the serial line

LF == "LF"
SEMICOLON == ";"
NUL == "NUL"
DEBUG_LINE_MARKER == "CR"
Kinds == {"command", "request", "debug", "text", "packet"}

(***************************************************************************)
(* The radio's side: slip_send_packet escapes what it sends, putchar does  *)
(* not; both begin and end with SLIP_END.                                  *)
(***************************************************************************)
Wire(m) ==
  <<SLIP_END>> \o (IF m.kind = "debug" THEN m.data ELSE Escaped(m.data)) \o <<SLIP_END>>

Bytes == {SLIP_END, SLIP_ESC} \cup UNION {Range(Wire(m)) : m \in Messages}

ASSUME SlipInputAssumption ==
  /\ InbufSize \in Nat \ {0} /\ MaxSensors \in Nat \ {0} /\ RowSize \in Nat \ {0}
  /\ Verbosities \subseteq Nat
  /\ \A m \in Messages : /\ m \in [kind : Kinds, data : Seq(Bytes)]
                         /\ 0 < Len(m.data) /\ Len(m.data) < InbufSize

NoMessage == [kind |-> "none", data |-> << >>]

VARIABLES
  line,      \* the bytes on their way, each with the message it completes
  phase,     \* "idle": select waits; "more": serial_input is at read_more
  inbuf,     \* the frame received so far
  second,    \* inbuf[1] is 'D', also when the frame received so far is shorter
  sensors,   \* the rows the web page lists, as they lie in memory, one behind the other
  count,     \* sensor_count
  wild,      \* something was written outside sensors: from here on nothing is known
  verbose,   \* slip_config_verbose
  last,      \* the message completed by the byte read in this step (history)
  handled    \* the frame handed on in this step (history)

vars == <<line, phase, inbuf, second, sensors, count, wild, verbose, last, handled>>

\* The cells of sensors[][].
Cells == 1 .. MaxSensors * RowSize

TypeOK ==
  /\ line \in Seq([byte : Bytes, closes : Messages \cup {NoMessage}])
  /\ phase \in {"idle", "more"}
  /\ inbuf \in Seq(Bytes)
  /\ second \in BOOLEAN
  /\ sensors \in [Cells -> Bytes \cup {NUL}]
  /\ count \in 0 .. MaxSensors
  /\ wild \in BOOLEAN
  /\ verbose \in Verbosities

Init ==
  /\ line = << >> /\ phase = "idle" /\ inbuf = << >> /\ second = FALSE
  /\ sensors = [c \in Cells |-> NUL] /\ count = 0 /\ wild = FALSE
  /\ verbose \in Verbosities
  /\ last = NoMessage /\ handled = NoMessage

(***************************************************************************)
(* The radio and the line, which may lose a byte of each message.          *)
(***************************************************************************)
\* The last byte completes m.
Marked(bytes, m) ==
  [i \in 1 .. Len(bytes) |->
     [byte |-> bytes[i], closes |-> IF i = Len(bytes) THEN m ELSE NoMessage]]

Arrives(bytes) ==
  /\ Len(line) + Len(bytes) <= LineCap
  /\ line' = line \o bytes
  /\ last' = NoMessage /\ handled' = NoMessage
  /\ UNCHANGED <<phase, inbuf, second, sensors, count, wild, verbose>>

Send(m) == Arrives(Marked(Wire(m), m))

\* One byte of the message does not arrive.
SendLosing(m) == \E i \in DOMAIN Wire(m) : Arrives(Marked(RemoveAt(Wire(m), i), NoMessage))

(***************************************************************************)
(* border_router_set_sensors cuts at every ';' and stops at the last row.  *)
(* No length is looked at: what does not fit its row goes on in the next.  *)
(***************************************************************************)
Cut(acc, c) ==
  IF Len(acc.rows) = MaxSensors THEN acc
  ELSE IF c = SEMICOLON THEN [rows |-> Append(acc.rows, acc.item), item |-> << >>]
  ELSE [rows |-> acc.rows, item |-> Append(acc.item, c)]

\* The rows, and what follows the last ';', when all items are read.
Cuts(items) ==
  LET cut[i \in 0 .. Len(items)] ==
        IF i = 0 THEN [rows |-> << >>, item |-> << >>] ELSE Cut(cut[i - 1], items[i])
  IN cut[Len(items)]

\* Mutant: the row after the last ';' is stored without looking for room.
ElementsOneMore(items) == Append(Cuts(items).rows, Cuts(items).item)

\* Mutant: what follows the last ';' is no row.
ElementsNoLast(items) == Cuts(items).rows

\* What is stored, row by row.
Elements(items) ==
  LET cut == Cuts(items) IN
  IF Len(cut.rows) = MaxSensors THEN cut.rows ELSE Append(cut.rows, cut.item)

\* Row k begins behind this cell.
RowAt(k) == (k - 1) * RowSize

\* Element k of rows, with the NUL behind it, covers cell c; of two that do
\* the later one is written later.
Covers(rows, k, c) == c \in RowAt(k) + 1 .. RowAt(k) + Len(rows[k]) + 1

Written(rows, c) ==
  LET k == CHOOSE k \in DOMAIN rows :
             Covers(rows, k, c) /\ \A j \in DOMAIN rows : Covers(rows, j, c) => j <= k
      i == c - RowAt(k)
  IN  IF i <= Len(rows[k]) THEN rows[k][i] ELSE NUL

Overflows(rows) == \E k \in DOMAIN rows : RowAt(k) + Len(rows[k]) + 1 > MaxSensors * RowSize

SetSensors(items) ==
  LET rows == Elements(items) IN
  /\ sensors' = [c \in Cells |->
                   IF \E k \in DOMAIN rows : Covers(rows, k, c) THEN Written(rows, c) ELSE sensors[c]]
  /\ count' = Len(rows)
  /\ wild' = Overflows(rows)

(***************************************************************************)
(* The host's side.                                                        *)
(***************************************************************************)

\* is_sensible_string: the first byte is not looked at.
Sensible(s) ==
  \A i \in 2 .. Len(s) :
    s[i] \notin Binary \cup {SLIP_END, SLIP_ESC, SLIP_ESC_END, SLIP_ESC_ESC}

Kind(frame) ==
  CASE frame[1] = "!" -> "command"
    [] frame[1] = "?" -> "request"
    [] frame[1] = DEBUG_LINE_MARKER -> "debug"
    [] OTHER -> IF Sensible(frame) THEN "text" ELSE "packet"

\* A message of the radio looks like what it is, and its printf writes no
\* byte of SLIP.
ASSUME MessagesAssumption ==
  \A m \in Messages : /\ m.kind = Kind(m.data)
                      /\ m.kind = "debug" => {SLIP_END, SLIP_ESC} \cap Range(m.data) = {}

\* border_router_cmd_handler reads the second byte whatever the length.
IsSensorData(buf) == buf # << >> /\ buf[1] = "!" /\ second

\* The rest of "!" alone has the length -1: a NUL is written in front of the
\* array and memcpy copies as much as there is.
HandleSensorData(buf) ==
  IF Len(buf) = 1 THEN wild' = TRUE /\ UNCHANGED <<sensors, count>>
                  ELSE SetSensors(SubSeq(buf, 3, Len(buf)))

\* SLIP_END hands the frame on.  Of the commands, !D changes state that no
\* other module has; !M and !R are in HostRadio.
EndOfFrame(buf) ==
  /\ inbuf' = << >>
  /\ handled' = IF buf = << >> THEN NoMessage ELSE [kind |-> Kind(buf), data |-> buf]
  /\ IF IsSensorData(buf) THEN HandleSensorData(buf) ELSE UNCHANGED <<sensors, count, wild>>
  /\ UNCHANGED second

\* With -v2, -v3 and -v5 lines of text are printed as they are received.
EchoesLines == verbose >= 2 /\ verbose # 4

Store(buf, byte) ==
  LET full == Append(buf, byte) IN
  /\ inbuf' = IF EchoesLines /\ byte = LF /\ Sensible(full) THEN << >> ELSE full
  /\ second' = IF Len(full) = 2 THEN byte = "D" ELSE second
  /\ handled' = NoMessage
  /\ UNCHANGED <<sensors, count, wild>>

\* One turn of the loop, with the frame received so far in buf.
Plain(buf) ==
  /\ line # << >> /\ line[1].byte # SLIP_ESC
  /\ IF line[1].byte = SLIP_END THEN EndOfFrame(buf) ELSE Store(buf, line[1].byte)
  /\ last' = line[1].closes
  /\ line' = Tail(line) /\ phase' = "more"

EscapedByte(buf) ==
  /\ Len(line) >= 2 /\ line[1].byte = SLIP_ESC
  /\ Store(buf, Unescape(line[2].byte))
  /\ last' = line[2].closes
  /\ line' = SubSeq(line, 3, Len(line)) /\ phase' = "more"

\* Mutant: SLIP_ESC is not put back.
GiveBackForgets(buf) ==
  /\ line # << >> /\ line[1].byte = SLIP_ESC
  /\ inbuf' = buf /\ phase' = "idle"
  /\ last' = NoMessage /\ handled' = NoMessage
  /\ line' = Tail(line)
  /\ UNCHANGED <<second, sensors, count, wild>>

\* The byte after SLIP_ESC has not arrived: SLIP_ESC is put back.
GiveBack(buf) ==
  /\ line # << >> /\ line[1].byte = SLIP_ESC
  /\ inbuf' = buf /\ phase' = "idle"
  /\ last' = NoMessage /\ handled' = NoMessage
  /\ UNCHANGED <<line, second, sensors, count, wild>>

Turn(buf) == (Plain(buf) \/ EscapedByte(buf) \/ GiveBack(buf)) /\ UNCHANGED verbose

\* Mutant: only a buffer that has already overflowed is dropped.
RoomTooLate == IF Len(inbuf) > InbufSize THEN << >> ELSE inbuf

\* The test at read_more: what does not fit is dropped.
Room == IF Len(inbuf) >= InbufSize THEN << >> ELSE inbuf

\* select finds the line readable.  The first byte is read without the test.
Call == phase = "idle" /\ Turn(inbuf)

ReadMore == phase = "more" /\ Turn(Room)

\* Nothing more has arrived yet.
EndOfInput ==
  /\ phase = "more"
  /\ phase' = "idle" /\ inbuf' = Room
  /\ last' = NoMessage /\ handled' = NoMessage
  /\ UNCHANGED <<line, second, sensors, count, wild, verbose>>

Radio == \E m \in Messages : Send(m) \/ SendLosing(m)
Host == Call \/ ReadMore \/ EndOfInput

Next == ~wild /\ (Radio \/ Host)

Spec == Init /\ [][Next]_vars

(***************************************************************************)
(* Properties.                                                             *)
(***************************************************************************)

\* No byte is stored behind the end of inbuf, although the first byte of each
\* call skips the test at read_more: every way out of serial_input leaves room.
InbufInBounds ==
  Len(inbuf) <= InbufSize /\ (phase = "idle" => Len(inbuf) < InbufSize)

\* With lines echoed, what begins like a line of text is printed and gone.
Swallowed(data) ==
  EchoesLines /\ \E n \in 1 .. Len(data) : data[n] = LF /\ Sensible(SubSeq(data, 1, n))

\* A message of which no byte is lost is handed on as what it is, exactly
\* when its last byte is read, wherever the calls of serial_input are cut
\* and whatever the messages around it have lost: a lost SLIP_END merges
\* two frames, a lost byte after SLIP_ESC makes a SLIP_END data, an overlong
\* frame is dropped in its middle, and the next message comes through.
IntactFrameHandled ==
  last \in Messages /\ ~Swallowed(last.data) => handled = last

\* The rows, with ';' between them, are again the data they came from, or its
\* beginning when that has more rows than there is room for.
Joined(rows) ==
  Tail(FlattenSeq([i \in DOMAIN rows |-> <<SEMICOLON>> \o rows[i]]))

StoredRows(data, rows) ==
  /\ rows # << >> /\ Len(rows) <= MaxSensors
  /\ \A i \in DOMAIN rows : SEMICOLON \notin Range(rows[i])
  /\ \/ Joined(rows) = data
     \/ Len(rows) = MaxSensors /\ IsPrefix(Joined(rows) \o <<SEMICOLON>>, data)

RowHolds(cells, k, element) ==
  /\ \A i \in DOMAIN element : cells[RowAt(k) + i] = element[i]
  /\ cells[RowAt(k) + Len(element) + 1] = NUL

\* Sensor data of the radio is cut into its elements, none lost and no more
\* than there are rows, and every element that fits its row is in it, also
\* behind one that does not.  Nothing is written outside the array unless an
\* element does not fit or the frame is "!" alone, and no other frame changes
\* the rows.
Rows(frame) == Elements(SubSeq(frame, 3, Len(frame)))

SensorsStored ==
  [][LET frame == handled'.data IN
     IF Len(frame) >= 2 /\ frame[1] = "!" /\ frame[2] = "D"
     THEN /\ StoredRows(SubSeq(frame, 3, Len(frame)), Rows(frame))
          /\ count' = Len(Rows(frame))
          /\ \A k \in DOMAIN Rows(frame) :
               Len(Rows(frame)[k]) < RowSize => RowHolds(sensors', k, Rows(frame)[k])
          /\ wild' => \E k \in DOMAIN Rows(frame) : Len(Rows(frame)[k]) >= RowSize
     ELSE /\ UNCHANGED <<sensors, count>>
          /\ wild' => frame = <<"!">>]_vars
=============================================================================
