----------------------------- MODULE HostRadio -----------------------------
(***************************************************************************)
(* The native border router and its slip-radio, as far as they talk to     *)
(* each other over the serial line: the host's RDC driver                  *)
(* (border-router/native/host/border-router-rdc.c), its commands           *)
(* (border-router-cmds.c) and its boot (border-router.c); the radio's      *)
(* command handler (border-router/native/node/slip-radio.c).               *)
(*                                                                         *)
(* Each side is one thread and handles one frame at a time.  A frame is a  *)
(* record: its bytes are not modelled here.  The line keeps the order of   *)
(* the frames and may lose any of them.  SLIP has no checksum: a frame     *)
(* that has lost a byte may also be handed on with another byte where its  *)
(* session id should be.  The radio may reboot.                            *)
(***************************************************************************)
EXTENDS Naturals, Sequences, FiniteSets

CONSTANTS
  MAX_CALLBACKS,   \* the slots of the host's ring of callbacks
  PacketIds,       \* sizeof(packet_ids), the slots of the radio's ring
  Window,          \* how many packets the MAC above hands over without a report
  DeferCap,        \* how many packets the radio's RDC driver can put off
  MaxSends,        \* bound: the packets a behaviour sends
  LinkCap,         \* bound: the frames on their way in each direction
  MaxLost          \* bound: with so many packets lost or damaged the faults end

ASSUME RadioAssumption ==
  /\ MAX_CALLBACKS \in Nat \ {0} /\ PacketIds \in Nat \ {0}
  /\ Window \in Nat /\ Window <= MAX_CALLBACKS /\ Window <= PacketIds
  /\ DeferCap \in Nat
  /\ MaxSends \in Nat /\ LinkCap \in Nat
  /\ MaxLost \in Nat

VARIABLES
  sent,           \* how many packets have been sent: the number of the next one
  outstanding,    \* the packets whose callback the MAC still waits for
  callback_pos,   \* the slot of the next packet
  callbacks,      \* the packet whose callback each slot holds
  toRadio,        \* frames on their way to the radio, oldest first
  toHost,         \* frames on their way to the host
  packet_ids,     \* the radio's copies of session ids
  packet_pos,     \* its next slot
  deferred,       \* the packets its RDC driver has put off
  mac_set,        \* the host has the radio's MAC address
  prefix_set,     \* the host has set its prefix
  rooted,         \* the host has its global address and is the RPL root
  lost,           \* the packets lost or damaged on the way there or back (history)
  strayed         \* the packets completed by a report that was not theirs (history)

hostVars == <<sent, outstanding, callback_pos, callbacks>>
radioVars == <<packet_ids, packet_pos, deferred>>
bootVars == <<mac_set, prefix_set, rooted>>
vars == <<hostVars, toRadio, toHost, radioVars, bootVars, lost, strayed>>

Sids == 0 .. MAX_CALLBACKS - 1

\* What may arrive in the place of a session id: MAX_CALLBACKS is any byte
\* that is none.
Bytes == 0 .. MAX_CALLBACKS

\* No packet: what a slot holds that has not been used.
NoPacket == MaxSends
Sendable == 0 .. MaxSends - 1

\* pkt is history: whose packet, or report, this is.  So is over: the later
\* packets that the radio had sent while this one was put off.
ToRadio == [type : {"!S"}, sid : Bytes, pkt : Sendable] \cup [type : {"?M"}]
ToHost == [type : {"!R"}, sid : Bytes, pkt : Sendable, over : SUBSET Sendable]
          \cup [type : {"!M"}]
Deferred == [slot : 0 .. PacketIds - 1, pkt : Sendable, over : SUBSET Sendable]

TypeOK ==
  /\ sent \in 0 .. MaxSends
  /\ outstanding \subseteq Sendable
  /\ callback_pos \in Sids
  /\ callbacks \in [Sids -> Sendable \cup {NoPacket}]
  /\ toRadio \in Seq(ToRadio) /\ toHost \in Seq(ToHost)
  /\ packet_ids \in [0 .. PacketIds - 1 -> Bytes]
  /\ packet_pos \in 0 .. PacketIds - 1
  /\ deferred \subseteq Deferred
  /\ mac_set \in BOOLEAN /\ prefix_set \in BOOLEAN /\ rooted \in BOOLEAN
  /\ lost \subseteq Sendable /\ strayed \subseteq Sendable

Init ==
  /\ sent = 0 /\ outstanding = {}
  /\ callback_pos = 0
  /\ callbacks = [sid \in Sids |-> NoPacket]
  /\ toRadio = << >> /\ toHost = << >>
  /\ packet_ids = [i \in 0 .. PacketIds - 1 |-> 0]
  /\ packet_pos = 0 /\ deferred = {}
  /\ mac_set = FALSE /\ prefix_set = FALSE /\ rooted = FALSE
  /\ lost = {} /\ strayed = {}

(***************************************************************************)
(* The host.                                                               *)
(***************************************************************************)
\* Mutants: the ring does not wrap, or wraps one slot early.
NextPosNoWrap(pos) == pos + 1
NextPosEarly(pos) == IF pos + 2 >= MAX_CALLBACKS THEN 0 ELSE pos + 1

NextPos(pos) == IF pos + 1 >= MAX_CALLBACKS THEN 0 ELSE pos + 1

\* send_packet with setup_callback.  A packet whose headers do not fit is
\* refused there and then and changes nothing here.
SendPacket ==
  /\ sent < MaxSends
  /\ Cardinality(outstanding) < Window
  /\ Len(toRadio) < LinkCap
  /\ callbacks' = [callbacks EXCEPT ![callback_pos] = sent]
  /\ callback_pos' = NextPos(callback_pos)
  /\ toRadio' = Append(toRadio, [type |-> "!S", sid |-> callback_pos, pkt |-> sent])
  /\ outstanding' = outstanding \cup {sent}
  /\ sent' = sent + 1
  /\ UNCHANGED <<toHost, radioVars, bootVars, lost, strayed>>

\* The boot process asks once a second, until it has an answer.
RequestMac ==
  /\ ~mac_set /\ ~prefix_set
  /\ Len(toRadio) < LinkCap
  /\ toRadio' = Append(toRadio, [type |-> "?M"])
  /\ UNCHANGED <<hostVars, toHost, radioVars, bootVars, lost, strayed>>

\* Then it sets the prefix: set_prefix_64 adds the address and the root.
SetPrefix ==
  /\ mac_set /\ ~prefix_set
  /\ prefix_set' = TRUE
  /\ rooted' = TRUE
  /\ UNCHANGED <<hostVars, toRadio, toHost, radioVars, mac_set, lost, strayed>>

Receives(channel, type) == channel # << >> /\ Head(channel).type = type

\* The report of packet pkt completes the packets of done: another one than
\* its own has strayed.
Completes(done, pkt) ==
  /\ outstanding' = outstanding \ done
  /\ strayed' = strayed \cup ((outstanding \cap done) \ {pkt})

\* Mutant: packet_sent refuses the last session id.
HandleReportTooHigh ==
  /\ Receives(toHost, "!R")
  /\ toHost' = Tail(toHost)
  /\ LET sid == Head(toHost).sid
     IN  Completes(IF sid < MAX_CALLBACKS - 1 THEN {callbacks[sid]} ELSE {}, Head(toHost).pkt)
  /\ UNCHANGED <<sent, callback_pos, callbacks, toRadio, radioVars, bootVars, lost>>

\* packet_sent calls whatever callback the slot holds now.
HandleReport ==
  /\ Receives(toHost, "!R")
  /\ toHost' = Tail(toHost)
  /\ LET sid == Head(toHost).sid
     IN  Completes(IF sid < MAX_CALLBACKS THEN {callbacks[sid]} ELSE {}, Head(toHost).pkt)
  /\ UNCHANGED <<sent, callback_pos, callbacks, toRadio, radioVars, bootVars, lost>>

\* Mutant: the answer is taken only from stdin, like !G.
HandleMacFromStdin ==
  /\ Receives(toHost, "!M")
  /\ toHost' = Tail(toHost)
  /\ UNCHANGED <<hostVars, toRadio, radioVars, bootVars, lost, strayed>>

\* border_router_set_mac starts the addresses and RPL afresh.
HandleMac ==
  /\ Receives(toHost, "!M")
  /\ toHost' = Tail(toHost)
  /\ mac_set' = TRUE
  /\ rooted' = FALSE
  /\ UNCHANGED <<hostVars, toRadio, radioVars, prefix_set, lost, strayed>>

(***************************************************************************)
(* The radio.  nullmac hands a packet to the RDC driver, contikimac.  It   *)
(* sends at once and calls packet_sent before NETSTACK_LLSEC.send returns, *)
(* or puts the packet off until the receiver will be awake and calls       *)
(* packet_sent then.  It has been given the address of a slot of           *)
(* packet_ids, and packet_sent reads the session id that is there by then. *)
(***************************************************************************)
ReadsPacket ==
  /\ Receives(toRadio, "!S")
  /\ toRadio' = Tail(toRadio)
  /\ packet_ids' = [packet_ids EXCEPT ![packet_pos] = Head(toRadio).sid]

NextSlot == IF packet_pos + 1 >= PacketIds THEN 0 ELSE packet_pos + 1

\* Packet pkt goes out before those that wait.
PassedBy(d, pkt) == [d EXCEPT !.over = @ \cup ({pkt} \cap (d.pkt + 1 .. MaxSends))]
Overtaken(waiting, pkt) == {PassedBy(d, pkt) : d \in waiting}

RadioSends ==
  /\ ReadsPacket
  /\ Len(toHost) < LinkCap
  /\ toHost' = Append(toHost, [type |-> "!R", sid |-> packet_ids'[packet_pos],
                               pkt |-> Head(toRadio).pkt, over |-> {}])
  /\ packet_pos' = NextSlot
  /\ deferred' = Overtaken(deferred, Head(toRadio).pkt)
  /\ UNCHANGED <<hostVars, bootVars, lost, strayed>>

RadioDefers ==
  /\ ReadsPacket
  /\ Cardinality(deferred) < DeferCap
  /\ deferred' = deferred \cup {[slot |-> packet_pos, pkt |-> Head(toRadio).pkt, over |-> {}]}
  /\ packet_pos' = NextSlot
  /\ UNCHANGED <<hostVars, toHost, bootVars, lost, strayed>>

\* In whatever order the receivers wake up.
SendsDeferred(d) ==
  /\ Len(toHost) < LinkCap
  /\ toHost' = Append(toHost, [type |-> "!R", sid |-> packet_ids[d.slot],
                               pkt |-> d.pkt, over |-> d.over])
  /\ deferred' = Overtaken(deferred \ {d}, d.pkt)
  /\ UNCHANGED <<hostVars, toRadio, packet_ids, packet_pos, bootVars, lost, strayed>>

\* The attributes of the packet are damaged: no report.
RadioRejects ==
  /\ Cardinality(lost) < MaxLost
  /\ ReadsPacket
  /\ lost' = lost \cup {Head(toRadio).pkt}
  /\ UNCHANGED <<hostVars, toHost, packet_pos, deferred, bootVars, strayed>>

RadioAnswers ==
  /\ Receives(toRadio, "?M") /\ Len(toHost) < LinkCap
  /\ toRadio' = Tail(toRadio)
  /\ toHost' = Append(toHost, [type |-> "!M"])
  /\ UNCHANGED <<hostVars, radioVars, bootVars, lost, strayed>>

(***************************************************************************)
(* Faults.                                                                 *)
(***************************************************************************)
PacketsIn(channel, type) ==
  {channel[i].pkt : i \in {j \in DOMAIN channel : channel[j].type = type}}

\* A frame to the radio disappears: what is left of it is no command.
LoseToRadio ==
  /\ Cardinality(lost) < MaxLost
  /\ toRadio # << >>
  /\ lost' = lost \cup PacketsIn(<<Head(toRadio)>>, "!S")
  /\ toRadio' = Tail(toRadio)
  /\ UNCHANGED <<hostVars, toHost, radioVars, bootVars, strayed>>

\* A frame to the host disappears, or is taken for a line of text.
LoseToHost ==
  /\ Cardinality(lost) < MaxLost
  /\ toHost # << >>
  /\ lost' = lost \cup PacketsIn(<<Head(toHost)>>, "!R")
  /\ toHost' = Tail(toHost)
  /\ UNCHANGED <<hostVars, toRadio, radioVars, bootVars, strayed>>

\* A frame has lost a byte and another stands where the session id was.
DamageToRadio ==
  /\ Cardinality(lost) < MaxLost
  /\ Receives(toRadio, "!S")
  /\ \E byte \in Bytes : toRadio' = [toRadio EXCEPT ![1].sid = byte]
  /\ lost' = lost \cup {Head(toRadio).pkt}
  /\ UNCHANGED <<hostVars, toHost, radioVars, bootVars, strayed>>

DamageToHost ==
  /\ Cardinality(lost) < MaxLost
  /\ Receives(toHost, "!R")
  /\ \E byte \in Bytes : toHost' = [toHost EXCEPT ![1].sid = byte]
  /\ lost' = lost \cup {Head(toHost).pkt}
  /\ UNCHANGED <<hostVars, toRadio, radioVars, bootVars, strayed>>

\* What the radio has not read or not sent is gone, its state is as at boot.
RadioReboots ==
  /\ Cardinality(lost) < MaxLost
  /\ lost' = lost \cup PacketsIn(toRadio, "!S") \cup {d.pkt : d \in deferred}
  /\ toRadio' = << >>
  /\ packet_ids' = [i \in 0 .. PacketIds - 1 |-> 0]
  /\ packet_pos' = 0 /\ deferred' = {}
  /\ UNCHANGED <<hostVars, toHost, bootVars, strayed>>

Host == SendPacket \/ RequestMac \/ SetPrefix \/ HandleReport \/ HandleMac
Radio == RadioSends \/ RadioDefers \/ RadioRejects \/ RadioAnswers
           \/ \E d \in deferred : SendsDeferred(d)
Faults == LoseToRadio \/ LoseToHost \/ DamageToRadio \/ DamageToHost \/ RadioReboots

Next == Host \/ Radio \/ Faults

Spec == Init /\ [][Next]_vars

\* Both sides keep reading the line, the radio sends what it has put off, the
\* boot process keeps asking, and of frames sent again and again some get
\* through.
Fairness ==
  /\ WF_vars(RadioSends) /\ WF_vars(HandleReport)
  /\ \A p \in Sendable : WF_vars(\E d \in deferred : d.pkt = p /\ SendsDeferred(d))
  /\ WF_vars(RequestMac) /\ WF_vars(SetPrefix)
  /\ SF_vars(RadioAnswers) /\ SF_vars(HandleMac)

FairSpec == Spec /\ Fairness

(***************************************************************************)
(* Properties.                                                             *)
(***************************************************************************)

\* The slots of either ring that are left when the MAC above waits for as
\* many packets as it may.
Spare == (IF MAX_CALLBACKS <= PacketIds THEN MAX_CALLBACKS ELSE PacketIds) - Window

\* The packets after pkt that may be done before it.
Ahead(pkt, over) == over \cup {q \in strayed : q > pkt}

Swamped(pkt, over) == Cardinality(Ahead(pkt, over)) > Spare

\* A session id is a slot of a ring on the host, and of another on the radio,
\* and slots are used again whether or not their report has come.  Still the
\* slot of every packet holds the callback of that very packet, from the
\* host to the radio, while the radio puts it off, and back: unless its own
\* frame was damaged, or more later packets than there are spare slots were
\* done before it, whatever frames were lost or damaged and however often
\* the radio has rebooted.
Matches(pkt, sid, over) ==
  pkt \notin lost \cup strayed /\ ~Swamped(pkt, over) =>
    sid \in Sids /\ callbacks[sid] = pkt /\ pkt \in outstanding

ReportsMatch ==
  /\ \A i \in DOMAIN toRadio :
       toRadio[i].type = "!S" => Matches(toRadio[i].pkt, toRadio[i].sid, {})
  /\ \A d \in deferred : Matches(d.pkt, packet_ids[d.slot], d.over)
  /\ \A i \in DOMAIN toHost :
       toHost[i].type = "!R" => Matches(toHost[i].pkt, toHost[i].sid, toHost[i].over)

\* Packet p on its way: which packets it has been passed by.
Passed(p) ==
  {{} : i \in {j \in DOMAIN toRadio : toRadio[j].type = "!S" /\ toRadio[j].pkt = p}}
  \cup {d.over : d \in {e \in deferred : e.pkt = p}}
  \cup {toHost[i].over : i \in {j \in DOMAIN toHost : toHost[j].type = "!R" /\ toHost[j].pkt = p}}

\* A packet on its way is reported to the MAC, also when the radio puts it off
\* and others pass it: unless it, or its report, is lost or damaged, or too
\* many pass.
Reported ==
  \A p \in Sendable :
    Passed(p) # {} ~> \/ p \notin outstanding
                      \/ p \in lost
                      \/ \E over \in Passed(p) : Swamped(p, over)

\* The router boots although requests and answers get lost.
Boots == <>prefix_set

(***************************************************************************)
(* What the documentation promises and the code does not do.               *)
(***************************************************************************)

\* "The native border router also acts as a RPL Root"
\* (native/host/README.md:3): once it has become the root it stays so.  An
\* answer to a second request for the MAC address resets it.
StaysRoot == prefix_set => rooted
=============================================================================
