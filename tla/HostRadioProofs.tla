-------------------------- MODULE HostRadioProofs --------------------------
(***************************************************************************)
(* Theorems about HostRadio and their proofs, for every value of the       *)
(* constants that RadioAssumption allows.                                  *)
(*                                                                         *)
(* ReportsMatch is not inductive.  It holds because the line keeps the     *)
(* order of its frames, so that a report comes after the report of every   *)
(* earlier packet that got one, but for those the radio put off: while a   *)
(* packet is on its way all later ones are outstanding, or have passed it, *)
(* or were completed by a report that was not theirs.  The first are at    *)
(* most Window; unless the others are more than the spare slots, its slot  *)
(* has been used again on neither side.                                    *)
(***************************************************************************)
EXTENDS HostRadio, FiniteSetTheorems, TLAPS

\* In a ring of so many slots, the one used n times ago, when pos is next.
Slot(pos, n, size) == IF n <= pos THEN pos - n ELSE pos - n + size

\* The last packets are where the host's ring says.
RingInv ==
  \A n \in 1 .. MAX_CALLBACKS :
    n <= sent => callbacks[Slot(callback_pos, n, MAX_CALLBACKS)] = sent - n

\* The packets on their way, with the session id each would be reported under.
OnRadioLine ==
  {[pkt |-> toRadio[i].pkt, sid |-> toRadio[i].sid, over |-> {}] :
     i \in {j \in DOMAIN toRadio : toRadio[j].type = "!S"}}
PutOff == {[pkt |-> d.pkt, sid |-> packet_ids[d.slot], over |-> d.over] : d \in deferred}
OnHostLine ==
  {[pkt |-> toHost[i].pkt, sid |-> toHost[i].sid, over |-> toHost[i].over] :
     i \in {j \in DOMAIN toHost : toHost[j].type = "!R"}}
Flights == OnRadioLine \cup PutOff \cup OnHostLine

Kept(pkt, over) == pkt \notin lost \cup strayed /\ ~Swamped(pkt, over)

\* All packets since are outstanding, have passed it or have strayed.
Followed(f) ==
  /\ f.pkt < sent
  /\ f.over \subseteq f.pkt + 1 .. sent - 1
  /\ f.pkt .. sent - 1 \subseteq outstanding \cup f.over \cup strayed

RightSid(f) == f.sid = Slot(callback_pos, sent - f.pkt, MAX_CALLBACKS)

FlightInv == \A f \in Flights : Followed(f) /\ (Kept(f.pkt, f.over) => RightSid(f))

\* The radio has read so many packets since it put d off.
Turns(d, n) ==
  /\ d.slot = Slot(packet_pos, n, PacketIds)
  /\ n <= sent - d.pkt
  /\ \A i \in DOMAIN toRadio : toRadio[i].type = "!S" => n <= toRadio[i].pkt - d.pkt

SlotInv == \A d \in deferred : Kept(d.pkt, d.over) => \E n \in 1 .. PacketIds : Turns(d, n)

\* The line keeps the order of the packets, but for those that were put off.
RadioOrder ==
  \A i, j \in DOMAIN toRadio :
    i < j /\ toRadio[i].type = "!S" /\ toRadio[j].type = "!S" => toRadio[i].pkt < toRadio[j].pkt

Behind ==
  \A j \in DOMAIN toRadio : toRadio[j].type = "!S" =>
    /\ \A d \in deferred : d.pkt < toRadio[j].pkt
    /\ \A i \in DOMAIN toHost : toHost[i].type = "!R" => toHost[i].pkt < toRadio[j].pkt

\* The packet of a report that is ahead is an earlier one, or it has passed.
Passes(q, pkt, over) == q < pkt \/ q \in over

HostOrder ==
  /\ \A i, j \in DOMAIN toHost :
       i < j /\ toHost[i].type = "!R" /\ toHost[j].type = "!R"
         => Passes(toHost[i].pkt, toHost[j].pkt, toHost[j].over)
  /\ \A i \in DOMAIN toHost, d \in deferred :
       toHost[i].type = "!R" => Passes(toHost[i].pkt, d.pkt, d.over)
  /\ \A d, e \in deferred : d.pkt = e.pkt => d = e

OrderInv == RadioOrder /\ Behind /\ HostOrder

WindowInv ==
  /\ outstanding \subseteq 0 .. sent - 1
  /\ Cardinality(outstanding) <= Window

Inv == TypeOK /\ WindowInv /\ RingInv /\ FlightInv /\ SlotInv /\ OrderInv

-----------------------------------------------------------------------------
(* Type correctness. *)

LEMMA InitType == Init => TypeOK
<1>1. << >> \in Seq(ToRadio) /\ << >> \in Seq(ToHost)
  OBVIOUS
<1>2. 0 \in Sids /\ 0 \in Bytes /\ 0 \in 0 .. MaxSends /\ 0 \in 0 .. PacketIds - 1
  BY RadioAssumption DEF Sids, Bytes
<1>. QED
  BY <1>1, <1>2 DEF Init, TypeOK

\* What the heads of the lines are.
LEMMA HeadToRadio ==
  ASSUME TypeOK, Receives(toRadio, "!S")
  PROVE  /\ Head(toRadio).sid \in Bytes
         /\ Head(toRadio).pkt \in Sendable
         /\ Head(toRadio) = toRadio[1] /\ 1 \in DOMAIN toRadio
         /\ Tail(toRadio) \in Seq(ToRadio)
<1>1. toRadio # << >> /\ toRadio \in Seq(ToRadio)
  BY DEF Receives, TypeOK
<1>2. Head(toRadio) = toRadio[1] /\ 1 \in DOMAIN toRadio
  BY <1>1
<1>3. Head(toRadio) \in ToRadio
  BY <1>1, <1>2
<1>. QED
  BY <1>1, <1>2, <1>3 DEF Receives, ToRadio

LEMMA HeadToHost ==
  ASSUME TypeOK, Receives(toHost, "!R")
  PROVE  /\ Head(toHost).sid \in Bytes
         /\ Head(toHost).pkt \in Sendable
         /\ Head(toHost).over \subseteq Sendable
         /\ Head(toHost) = toHost[1] /\ 1 \in DOMAIN toHost
<1>1. toHost # << >> /\ toHost \in Seq(ToHost)
  BY DEF Receives, TypeOK
<1>2. Head(toHost) = toHost[1] /\ 1 \in DOMAIN toHost
  BY <1>1
<1>3. Head(toHost) \in ToHost
  BY <1>1, <1>2
<1>. QED
  BY <1>2, <1>3 DEF Receives, ToHost

\* Every step of the host keeps the types.
LEMMA HostType ==
  ASSUME TypeOK, Host
  PROVE  TypeOK'
<1>1. CASE SendPacket
  <2>1. sent \in Sendable /\ sent' \in 0 .. MaxSends
    BY <1>1, RadioAssumption DEF SendPacket, TypeOK, Sendable
  <2>2. callback_pos \in Bytes /\ callback_pos' \in Sids
    BY <1>1, RadioAssumption DEF SendPacket, TypeOK, Sids, Bytes, NextPos
  <2>3. callbacks' \in [Sids -> Sendable \cup {NoPacket}]
    BY <1>1, <2>1 DEF SendPacket, TypeOK
  <2>4. toRadio' \in Seq(ToRadio)
    BY <1>1, <2>1, <2>2 DEF SendPacket, TypeOK, ToRadio
  <2>. QED
    BY <1>1, <2>1, <2>2, <2>3, <2>4 DEF SendPacket, TypeOK, radioVars, bootVars
<1>2. CASE RequestMac
  <2>1. toRadio' \in Seq(ToRadio)
    BY <1>2 DEF RequestMac, TypeOK, ToRadio
  <2>. QED
    BY <1>2, <2>1 DEF RequestMac, TypeOK, hostVars, radioVars, bootVars
<1>3. CASE SetPrefix
  BY <1>3 DEF SetPrefix, TypeOK, hostVars, radioVars
<1>4. CASE HandleReport
  <2>1. toHost' \in Seq(ToHost)
    BY <1>4 DEF HandleReport, Receives, TypeOK
  <2>2. outstanding' \subseteq Sendable /\ strayed' \subseteq Sendable
    BY <1>4 DEF HandleReport, Completes, TypeOK
  <2>. QED
    BY <1>4, <2>1, <2>2 DEF HandleReport, TypeOK, radioVars, bootVars
<1>5. CASE HandleMac
  <2>1. toHost' \in Seq(ToHost)
    BY <1>5 DEF HandleMac, Receives, TypeOK
  <2>. QED
    BY <1>5, <2>1 DEF HandleMac, TypeOK, hostVars, radioVars
<1>. QED
  BY <1>1, <1>2, <1>3, <1>4, <1>5 DEF Host

\* The entry of a packet that has been put off, before and after another passes.
LEMMA OvertakenEntries ==
  ASSUME NEW W \in SUBSET Deferred, NEW p \in Sendable
  PROVE  /\ Overtaken(W, p) \subseteq Deferred
         /\ \A d \in Overtaken(W, p) : \E e \in W :
              /\ d = PassedBy(e, p)
              /\ d.slot = e.slot /\ d.pkt = e.pkt
              /\ d.over = e.over \cup ({p} \cap (e.pkt + 1 .. MaxSends))
<1>1. ASSUME NEW e \in W
      PROVE  /\ PassedBy(e, p) \in Deferred
             /\ PassedBy(e, p).slot = e.slot /\ PassedBy(e, p).pkt = e.pkt
             /\ PassedBy(e, p).over = e.over \cup ({p} \cap (e.pkt + 1 .. MaxSends))
  BY DEF Deferred, PassedBy
<1>. QED
  BY <1>1 DEF Overtaken

LEMMA ReadsPacketType ==
  ASSUME TypeOK, ReadsPacket
  PROVE  /\ Head(toRadio).sid \in Bytes /\ Head(toRadio).pkt \in Sendable
         /\ toRadio' \in Seq(ToRadio)
         /\ packet_ids' \in [0 .. PacketIds - 1 -> Bytes]
         /\ packet_ids'[packet_pos] = Head(toRadio).sid
<1>1. /\ Head(toRadio).sid \in Bytes /\ Head(toRadio).pkt \in Sendable
      /\ Tail(toRadio) \in Seq(ToRadio)
  BY HeadToRadio DEF ReadsPacket
<1>. QED
  BY <1>1 DEF ReadsPacket, TypeOK

\* Every step of the radio keeps the types.
LEMMA RadioType ==
  ASSUME TypeOK, Radio
  PROVE  TypeOK'
<1>1. NextSlot \in 0 .. PacketIds - 1
  BY RadioAssumption DEF NextSlot, TypeOK
<1>2. CASE RadioSends
  <2>1. /\ Head(toRadio).sid \in Bytes /\ Head(toRadio).pkt \in Sendable
        /\ toRadio' \in Seq(ToRadio)
        /\ packet_ids' \in [0 .. PacketIds - 1 -> Bytes]
        /\ packet_ids'[packet_pos] = Head(toRadio).sid
    BY <1>2, ReadsPacketType DEF RadioSends
  <2>2. deferred' \subseteq Deferred
    BY <1>2, <2>1, OvertakenEntries DEF RadioSends, TypeOK
  <2>3. toHost' \in Seq(ToHost)
    BY <1>2, <2>1 DEF RadioSends, TypeOK, ToHost
  <2>. QED
    BY <1>1, <1>2, <2>1, <2>2, <2>3 DEF RadioSends, TypeOK, hostVars, bootVars
<1>3. CASE RadioDefers
  <2>1. /\ Head(toRadio).pkt \in Sendable
        /\ toRadio' \in Seq(ToRadio)
        /\ packet_ids' \in [0 .. PacketIds - 1 -> Bytes]
    BY <1>3, ReadsPacketType DEF RadioDefers
  <2>2. deferred' \subseteq Deferred
    BY <1>3, <2>1 DEF RadioDefers, TypeOK, Deferred
  <2>. QED
    BY <1>1, <1>3, <2>1, <2>2 DEF RadioDefers, TypeOK, hostVars, bootVars
<1>4. CASE RadioRejects
  <2>1. /\ Head(toRadio).pkt \in Sendable
        /\ toRadio' \in Seq(ToRadio)
        /\ packet_ids' \in [0 .. PacketIds - 1 -> Bytes]
    BY <1>4, ReadsPacketType DEF RadioRejects
  <2>. QED
    BY <1>4, <2>1 DEF RadioRejects, TypeOK, hostVars, bootVars
<1>5. CASE RadioAnswers
  <2>1. toRadio' \in Seq(ToRadio)
    BY <1>5 DEF RadioAnswers, Receives, TypeOK
  <2>2. toHost' \in Seq(ToHost)
    BY <1>5 DEF RadioAnswers, TypeOK, ToHost
  <2>. QED
    BY <1>5, <2>1, <2>2 DEF RadioAnswers, TypeOK, hostVars, radioVars, bootVars
<1>6. ASSUME NEW d \in deferred, SendsDeferred(d)
      PROVE  TypeOK'
  <2>1. d.pkt \in Sendable /\ d.over \subseteq Sendable /\ packet_ids[d.slot] \in Bytes
    BY DEF TypeOK, Deferred
  <2>2. toHost' \in Seq(ToHost)
    BY <1>6, <2>1 DEF SendsDeferred, TypeOK, ToHost
  <2>3. deferred' \subseteq Deferred
    <3>1. deferred \ {d} \in SUBSET Deferred
      BY DEF TypeOK
    <3>. QED
      BY <1>6, <2>1, <3>1, OvertakenEntries DEF SendsDeferred
  <2>. QED
    BY <1>6, <2>2, <2>3 DEF SendsDeferred, TypeOK, hostVars, bootVars
<1>. QED
  BY <1>2, <1>3, <1>4, <1>5, <1>6 DEF Radio

\* Every fault keeps the types.
LEMMA FaultType ==
  ASSUME TypeOK, Faults
  PROVE  TypeOK'
<1>1. CASE LoseToRadio
  <2>1. PacketsIn(<<Head(toRadio)>>, "!S") \subseteq Sendable
    BY <1>1 DEF LoseToRadio, PacketsIn, TypeOK, ToRadio
  <2>. QED
    BY <1>1, <2>1 DEF LoseToRadio, TypeOK, hostVars, radioVars, bootVars
<1>2. CASE LoseToHost
  <2>1. PacketsIn(<<Head(toHost)>>, "!R") \subseteq Sendable
    BY <1>2 DEF LoseToHost, PacketsIn, TypeOK, ToHost
  <2>. QED
    BY <1>2, <2>1 DEF LoseToHost, TypeOK, hostVars, radioVars, bootVars
<1>3. CASE DamageToRadio
  <2>1. Head(toRadio).pkt \in Sendable /\ Head(toRadio) = toRadio[1] /\ 1 \in DOMAIN toRadio
    BY <1>3, HeadToRadio DEF DamageToRadio
  <2>2. PICK byte \in Bytes : toRadio' = [toRadio EXCEPT ![1].sid = byte]
    BY <1>3 DEF DamageToRadio
  <2>3. [toRadio[1] EXCEPT !.sid = byte] \in ToRadio
    <3>1. toRadio[1] \in ToRadio /\ toRadio[1].type = "!S"
      BY <1>3, <2>1 DEF DamageToRadio, Receives, TypeOK
    <3>2. toRadio[1] \in [type : {"!S"}, sid : Bytes, pkt : Sendable]
      BY <3>1 DEF ToRadio
    <3>. QED
      BY <3>2 DEF ToRadio
  <2>4. toRadio' \in Seq(ToRadio)
    <3>. DEFINE frame == [toRadio[1] EXCEPT !.sid = byte]
    <3>1. toRadio' = [toRadio EXCEPT ![1] = frame]
      BY <2>2
    <3>. HIDE DEF frame
    <3>. QED
      BY <2>1, <2>3, <3>1 DEF TypeOK, frame
  <2>. QED
    BY <1>3, <2>1, <2>4 DEF DamageToRadio, TypeOK, hostVars, radioVars, bootVars
<1>4. CASE DamageToHost
  <2>1. Head(toHost).pkt \in Sendable /\ Head(toHost) = toHost[1] /\ 1 \in DOMAIN toHost
    BY <1>4, HeadToHost DEF DamageToHost
  <2>2. PICK byte \in Bytes : toHost' = [toHost EXCEPT ![1].sid = byte]
    BY <1>4 DEF DamageToHost
  <2>3. [toHost[1] EXCEPT !.sid = byte] \in ToHost
    <3>1. toHost[1] \in ToHost /\ toHost[1].type = "!R"
      BY <1>4, <2>1 DEF DamageToHost, Receives, TypeOK
    <3>2. toHost[1] \in [type : {"!R"}, sid : Bytes, pkt : Sendable, over : SUBSET Sendable]
      BY <3>1 DEF ToHost
    <3>. QED
      BY <3>2 DEF ToHost
  <2>4. toHost' \in Seq(ToHost)
    <3>. DEFINE frame == [toHost[1] EXCEPT !.sid = byte]
    <3>1. toHost' = [toHost EXCEPT ![1] = frame]
      BY <2>2
    <3>. HIDE DEF frame
    <3>. QED
      BY <2>1, <2>3, <3>1 DEF TypeOK, frame
  <2>. QED
    BY <1>4, <2>1, <2>4 DEF DamageToHost, TypeOK, hostVars, radioVars, bootVars
<1>5. CASE RadioReboots
  <2>1. PacketsIn(toRadio, "!S") \subseteq Sendable
    BY DEF PacketsIn, TypeOK, ToRadio
  <2>2. {d.pkt : d \in deferred} \subseteq Sendable
    BY DEF TypeOK, Deferred
  <2>. QED
    BY <1>5, <2>1, <2>2, RadioAssumption DEF RadioReboots, TypeOK, Bytes, hostVars, bootVars
<1>. QED
  BY <1>1, <1>2, <1>3, <1>4, <1>5 DEF Faults

LEMMA NextType == TypeOK /\ [Next]_vars => TypeOK'
<1>1. CASE Next
  BY <1>1, HostType, RadioType, FaultType DEF Next
<1>2. CASE UNCHANGED vars
  BY <1>2 DEF TypeOK, vars, hostVars, radioVars, bootVars
<1>. QED
  BY <1>1, <1>2

\* The variables of host and radio keep their types for rings of any size.
THEOREM TypeCorrect == Spec => []TypeOK
BY InitType, NextType, PTL DEF Spec

-----------------------------------------------------------------------------
(* The rings of slots. *)

\* After a slot has been used every other is one older.
LEMMA SlotShift ==
  ASSUME NEW size \in Nat \ {0}, NEW pos \in 0 .. size - 1, NEW next,
         next = IF pos + 1 >= size THEN 0 ELSE pos + 1
  PROVE  /\ Slot(next, 1, size) = pos
         /\ \A n \in 1 .. size - 1 :
              /\ Slot(next, n + 1, size) = Slot(pos, n, size)
              /\ Slot(pos, n, size) \in 0 .. size - 1
              /\ Slot(pos, n, size) # pos
BY DEF Slot

LEMMA CallbackShift ==
  ASSUME TypeOK, callback_pos' = NextPos(callback_pos)
  PROVE  /\ Slot(callback_pos', 1, MAX_CALLBACKS) = callback_pos
         /\ \A n \in 1 .. MAX_CALLBACKS - 1 :
              /\ Slot(callback_pos', n + 1, MAX_CALLBACKS) = Slot(callback_pos, n, MAX_CALLBACKS)
              /\ Slot(callback_pos, n, MAX_CALLBACKS) \in Sids
              /\ Slot(callback_pos, n, MAX_CALLBACKS) # callback_pos
<1>1. callback_pos \in 0 .. MAX_CALLBACKS - 1 /\ MAX_CALLBACKS \in Nat \ {0}
  BY RadioAssumption DEF TypeOK, Sids
<1>2. callback_pos' = IF callback_pos + 1 >= MAX_CALLBACKS THEN 0 ELSE callback_pos + 1
  BY DEF NextPos
<1>. QED
  BY <1>1, <1>2, SlotShift DEF Sids

LEMMA PacketShift ==
  ASSUME TypeOK, packet_pos' = NextSlot
  PROVE  /\ Slot(packet_pos', 1, PacketIds) = packet_pos
         /\ \A n \in 1 .. PacketIds - 1 :
              Slot(packet_pos', n + 1, PacketIds) = Slot(packet_pos, n, PacketIds)
<1>1. packet_pos \in 0 .. PacketIds - 1 /\ PacketIds \in Nat \ {0}
  BY RadioAssumption DEF TypeOK
<1>2. packet_pos' = IF packet_pos + 1 >= PacketIds THEN 0 ELSE packet_pos + 1
  BY DEF NextSlot
<1>. QED
  BY <1>1, <1>2, SlotShift

\* The packets are finitely many.
LEMMA PacketsFinite ==
  ASSUME TypeOK
  PROVE  /\ IsFiniteSet(Sendable)
         /\ \A S : S \subseteq Sendable => IsFiniteSet(S) /\ Cardinality(S) \in Nat
<1>1. IsFiniteSet(Sendable)
  BY FS_Interval, RadioAssumption DEF Sendable
<1>2. ASSUME NEW S, S \subseteq Sendable
      PROVE  IsFiniteSet(S) /\ Cardinality(S) \in Nat
  BY <1>1, <1>2, FS_Subset, FS_CardinalityType
<1>. QED
  BY <1>1, <1>2

LEMMA SpareNat ==
  /\ Spare \in Nat
  /\ Window + Spare <= MAX_CALLBACKS
  /\ Window + Spare <= PacketIds
BY RadioAssumption DEF Spare

\* What is on its way, taken apart.
LEMMA FlightType ==
  ASSUME TypeOK, NEW f \in Flights
  PROVE  f.pkt \in Sendable /\ f.over \subseteq Sendable
<1>1. CASE f \in OnRadioLine
  <2>1. PICK i \in DOMAIN toRadio :
          toRadio[i].type = "!S" /\ f.pkt = toRadio[i].pkt /\ f.over = {}
    BY <1>1 DEF OnRadioLine
  <2>2. toRadio[i] \in ToRadio
    BY DEF TypeOK
  <2>. QED
    BY <2>1, <2>2 DEF ToRadio
<1>2. CASE f \in PutOff
  <2>1. PICK d \in deferred : f.pkt = d.pkt /\ f.over = d.over
    BY <1>2 DEF PutOff
  <2>. QED
    BY <2>1 DEF TypeOK, Deferred
<1>3. CASE f \in OnHostLine
  <2>1. PICK i \in DOMAIN toHost :
          toHost[i].type = "!R" /\ f.pkt = toHost[i].pkt /\ f.over = toHost[i].over
    BY <1>3 DEF OnHostLine
  <2>2. toHost[i] \in ToHost
    BY DEF TypeOK
  <2>. QED
    BY <2>1, <2>2 DEF ToHost
<1>. QED
  BY <1>1, <1>2, <1>3 DEF Flights

\* A packet on its way that is kept is no older than there are packets
\* outstanding and slots to spare.
LEMMA KeptAge ==
  ASSUME TypeOK, WindowInv, NEW f, f.pkt \in Sendable, f.over \subseteq Sendable,
         Followed(f), Kept(f.pkt, f.over)
  PROVE  /\ f.pkt \in outstanding
         /\ sent - f.pkt \in Nat \ {0}
         /\ sent - f.pkt <= Cardinality(outstanding) + Spare
         /\ sent - f.pkt <= MAX_CALLBACKS /\ sent - f.pkt <= PacketIds
<1>. DEFINE p == f.pkt
            A == Ahead(p, f.over)
            last == sent - 1
<1>1. p \in Int /\ sent \in Int /\ p <= last /\ last \in Int
  BY DEF TypeOK, Sendable, Followed
<1>2. A \subseteq Sendable
  BY DEF Ahead, TypeOK
<1>3. p .. last \subseteq outstanding \cup A
  <2>. SUFFICES ASSUME NEW q \in p .. last, q \notin outstanding, q \notin f.over
                PROVE  q \in A
    BY DEF Ahead
  <2>1. q \in strayed
    BY DEF Followed
  <2>2. q # p
    BY <2>1 DEF Kept
  <2>3. q > p
    BY <1>1, <2>2
  <2>. QED
    BY <2>1, <2>3 DEF Ahead
<1>4. p \in outstanding
  <2>1. p \in p .. last
    BY <1>1
  <2>2. p \notin f.over
    BY <1>1 DEF Followed
  <2>3. p \notin strayed
    BY DEF Kept
  <2>. QED
    BY <2>1, <2>2, <2>3 DEF Followed
<1>5. /\ IsFiniteSet(outstanding) /\ Cardinality(outstanding) \in Nat
      /\ IsFiniteSet(A) /\ Cardinality(A) \in Nat
  BY <1>2, PacketsFinite DEF TypeOK
<1>6. Cardinality(p .. last) = last - p + 1
  <2>1. ~(p > last)
    BY <1>1
  <2>. HIDE DEF last, p
  <2>. QED
    BY <1>1, <2>1, FS_Interval
<1>7. Cardinality(p .. last) <= Cardinality(outstanding) + Cardinality(A)
  <2>1. Cardinality(p .. last) <= Cardinality(outstanding \cup A)
    BY <1>3, <1>5, FS_Union, FS_Subset
  <2>2. IsFiniteSet(outstanding \cap A) /\ Cardinality(outstanding \cap A) \in Nat
    BY <1>5, FS_Intersection, FS_CardinalityType
  <2>3. Cardinality(outstanding \cup A)
          = Cardinality(outstanding) + Cardinality(A) - Cardinality(outstanding \cap A)
    BY <1>5, FS_Union
  <2>4. Cardinality(p .. last) \in Nat
    BY <1>1, <1>6
  <2>. HIDE DEF last, p, A
  <2>. QED
    BY <1>5, <2>1, <2>2, <2>3, <2>4
<1>8. Cardinality(A) <= Spare
  BY <1>5, SpareNat DEF Kept, Swamped
<1>9. sent - p = Cardinality(p .. last)
  <2>1. sent = last + 1
    BY <1>1
  <2>. HIDE DEF last, p
  <2>. QED
    BY <1>1, <1>6, <2>1
<1>10. sent - p \in Nat \ {0}
  BY <1>1
<1>. HIDE DEF last, A
<1>. QED
  BY <1>4, <1>5, <1>7, <1>8, <1>9, <1>10, SpareNat, RadioAssumption DEF WindowInv

\* So its slot still holds its callback.
LEMMA FlightMatches ==
  ASSUME TypeOK, WindowInv, RingInv, FlightInv, NEW f \in Flights, Kept(f.pkt, f.over)
  PROVE  f.sid \in Sids /\ callbacks[f.sid] = f.pkt /\ f.pkt \in outstanding
<1>. DEFINE age == sent - f.pkt
<1>1. f.pkt \in Sendable /\ f.over \subseteq Sendable
  BY FlightType
<1>2. Followed(f) /\ f.sid = Slot(callback_pos, age, MAX_CALLBACKS)
  BY DEF FlightInv, RightSid
<1>3. f.pkt \in outstanding /\ age \in 1 .. MAX_CALLBACKS /\ age <= sent /\ sent - age = f.pkt
  <2>1. /\ f.pkt \in outstanding
        /\ age \in Nat \ {0} /\ age <= MAX_CALLBACKS
    BY <1>1, <1>2, KeptAge
  <2>. QED
    BY <1>1, <2>1, RadioAssumption DEF TypeOK, Sendable
<1>4. callbacks[Slot(callback_pos, age, MAX_CALLBACKS)] = sent - age
  BY <1>3 DEF RingInv
<1>5. Slot(callback_pos, age, MAX_CALLBACKS) \in Sids
  BY <1>3, RadioAssumption DEF Slot, Sids, TypeOK
<1>. QED
  BY <1>2, <1>3, <1>4, <1>5

\* What is lost, strayed or passed stays so.
LEMMA KeptBefore ==
  ASSUME TypeOK, TypeOK', lost \subseteq lost', strayed \subseteq strayed',
         NEW p \in Sendable, NEW over, NEW more \in SUBSET Sendable, over \subseteq more,
         Kept(p, more)'
  PROVE  Kept(p, over)
<1>1. Ahead(p, over) \subseteq Ahead(p, more)' /\ Ahead(p, more)' \subseteq Sendable
  BY DEF Ahead, TypeOK
<1>2. /\ IsFiniteSet(Ahead(p, more)') /\ Cardinality(Ahead(p, more)') \in Nat
      /\ Cardinality(Ahead(p, over)) \in Nat
  BY <1>1, PacketsFinite
<1>3. Cardinality(Ahead(p, over)) <= Cardinality(Ahead(p, more)')
  BY <1>1, <1>2, FS_Subset
<1>4. Cardinality(Ahead(p, more)') <= Spare
  BY <1>2, SpareNat DEF Kept, Swamped
<1>5. Cardinality(Ahead(p, over)) <= Spare
  BY <1>2, <1>3, <1>4, SpareNat
<1>6. ~Swamped(p, over)
  BY <1>2, <1>5, SpareNat DEF Swamped
<1>. QED
  BY <1>6 DEF Kept

-----------------------------------------------------------------------------
(* The steps. *)

LEMMA InitInv == Init => Inv
<1>. SUFFICES ASSUME Init
              PROVE  Inv
  OBVIOUS
<1>1. TypeOK
  BY InitType
<1>2. WindowInv
  BY FS_EmptySet, RadioAssumption DEF Init, WindowInv
<1>3. RingInv
  BY RadioAssumption DEF Init, RingInv
<1>4. FlightInv
  BY DEF Init, FlightInv, Flights, OnRadioLine, PutOff, OnHostLine
<1>5. SlotInv /\ OrderInv
  BY DEF Init, SlotInv, OrderInv, RadioOrder, Behind, HostOrder
<1>. QED
  BY <1>1, <1>2, <1>3, <1>4, <1>5 DEF Inv

\* Before a step f was on its way as g; others may have passed it.
Carries(g, f) ==
  /\ f.pkt = g.pkt
  /\ g.over \subseteq f.over /\ f.over \subseteq g.pkt + 1 .. sent - 1
  /\ f.sid = g.sid \/ f.pkt \in lost' \/ ~Kept(g.pkt, g.over)
  /\ \A q \in g.pkt .. sent - 1 : q \in outstanding => q \in outstanding' \cup f.over \cup strayed'

LEMMA Carried ==
  ASSUME TypeOK, TypeOK', FlightInv, UNCHANGED <<sent, callback_pos>>,
         lost \subseteq lost', strayed \subseteq strayed',
         \A f \in Flights' : \E g \in Flights : Carries(g, f)
  PROVE  FlightInv'
<1>. SUFFICES ASSUME NEW f \in Flights'
              PROVE  Followed(f)' /\ (Kept(f.pkt, f.over)' => RightSid(f)')
  BY DEF FlightInv
<1>1. PICK g \in Flights : Carries(g, f)
  OBVIOUS
<1>2. g.pkt \in Sendable /\ g.over \subseteq Sendable /\ Followed(g)
  BY FlightType DEF FlightInv
<1>3. Followed(f)'
  BY <1>1, <1>2 DEF Carries, Followed
<1>4. f.over \in SUBSET Sendable /\ f.pkt \in Sendable
  <2>1. sent \in Nat /\ sent <= MaxSends /\ g.pkt \in Nat /\ MaxSends \in Nat
    BY <1>2, RadioAssumption DEF Sendable, TypeOK
  <2>2. g.pkt + 1 .. sent - 1 \subseteq Sendable
    BY <2>1 DEF Sendable
  <2>. QED
    BY <1>1, <1>2, <2>2 DEF Carries
<1>5. ASSUME Kept(f.pkt, f.over)'
      PROVE  RightSid(f)'
  <2>1. Kept(f.pkt, g.over)
    BY <1>1, <1>4, <1>5, KeptBefore DEF Carries
  <2>2. f.pkt \notin lost'
    BY <1>5 DEF Kept
  <2>3. f.sid = g.sid /\ f.pkt = g.pkt
    BY <1>1, <2>1, <2>2 DEF Carries
  <2>4. RightSid(g)
    BY <2>1, <2>3 DEF FlightInv
  <2>. QED
    BY <2>3, <2>4 DEF RightSid
<1>. QED
  BY <1>3, <1>5

\* Frames leave the line or are damaged, and packets are no longer put off.
Shrinks(k, l) ==
  /\ \A i \in DOMAIN toRadio' : toRadio'[i].type = "!S" =>
       /\ i + k \in DOMAIN toRadio /\ toRadio[i + k].type = "!S"
       /\ toRadio'[i].pkt = toRadio[i + k].pkt
       /\ toRadio'[i].sid = toRadio[i + k].sid \/ toRadio'[i].pkt \in lost'
  /\ \A i \in DOMAIN toHost' : toHost'[i].type = "!R" =>
       /\ i + l \in DOMAIN toHost /\ toHost[i + l].type = "!R"
       /\ toHost'[i].pkt = toHost[i + l].pkt /\ toHost'[i].over = toHost[i + l].over
       /\ toHost'[i].sid = toHost[i + l].sid \/ toHost'[i].pkt \in lost'
  /\ deferred' \subseteq deferred

LEMMA ShrinksOrder ==
  ASSUME TypeOK, TypeOK', OrderInv, NEW k \in Nat, NEW l \in Nat, Shrinks(k, l)
  PROVE  OrderInv'
<1>1. DOMAIN toRadio' \subseteq Nat /\ DOMAIN toHost' \subseteq Nat
  BY DEF TypeOK
<1>2. RadioOrder'
  <2>. SUFFICES ASSUME NEW i \in DOMAIN toRadio', NEW j \in DOMAIN toRadio', i < j,
                       toRadio'[i].type = "!S", toRadio'[j].type = "!S"
                PROVE  toRadio'[i].pkt < toRadio'[j].pkt
    BY DEF RadioOrder
  <2>1. i + k < j + k
    BY <1>1
  <2>. QED
    BY <2>1 DEF OrderInv, RadioOrder, Shrinks
<1>3. Behind'
  BY DEF OrderInv, Behind, Shrinks
<1>4. HostOrder'
  <2>1. ASSUME NEW i \in DOMAIN toHost', NEW j \in DOMAIN toHost', i < j,
               toHost'[i].type = "!R", toHost'[j].type = "!R"
        PROVE  Passes(toHost'[i].pkt, toHost'[j].pkt, toHost'[j].over)
    <3>1. i + l < j + l
      BY <1>1, <2>1
    <3>. QED
      BY <2>1, <3>1 DEF OrderInv, HostOrder, Shrinks
  <2>2. ASSUME NEW i \in DOMAIN toHost', NEW d \in deferred', toHost'[i].type = "!R"
        PROVE  Passes(toHost'[i].pkt, d.pkt, d.over)
    BY <2>2 DEF OrderInv, HostOrder, Shrinks
  <2>3. \A d, e \in deferred' : d.pkt = e.pkt => d = e
    BY DEF OrderInv, HostOrder, Shrinks
  <2>. QED
    BY <2>1, <2>2, <2>3 DEF HostOrder, Passes
<1>. QED
  BY <1>2, <1>3, <1>4 DEF OrderInv

LEMMA ShrinksSlot ==
  ASSUME TypeOK, TypeOK', SlotInv, NEW k \in Nat, NEW l \in Nat, Shrinks(k, l),
         sent' = sent, packet_pos' = packet_pos \/ deferred' = {},
         lost \subseteq lost', strayed \subseteq strayed'
  PROVE  SlotInv'
<1>. SUFFICES ASSUME NEW d \in deferred', Kept(d.pkt, d.over)'
              PROVE  \E n \in 1 .. PacketIds : Turns(d, n)'
  BY DEF SlotInv
<1>1. d \in deferred /\ packet_pos' = packet_pos
  BY DEF Shrinks
<1>2. d.pkt \in Sendable /\ d.over \in SUBSET Sendable
  BY <1>1 DEF TypeOK, Deferred
<1>3. Kept(d.pkt, d.over)
  BY <1>2, KeptBefore
<1>4. PICK n \in 1 .. PacketIds : Turns(d, n)
  BY <1>1, <1>3 DEF SlotInv
<1>5. Turns(d, n)'
  BY <1>1, <1>4 DEF Turns, Shrinks
<1>. QED
  BY <1>5

\* What is on its way after such a step was so before it.
LEMMA ShrinksFlights ==
  ASSUME NEW k \in Nat, NEW l \in Nat, Shrinks(k, l), NEW f \in Flights'
  PROVE  \/ f \in PutOff'
         \/ \E g \in Flights :
              f.pkt = g.pkt /\ f.over = g.over /\ (f.sid = g.sid \/ f.pkt \in lost')
<1>1. CASE f \in OnRadioLine'
  <2>1. PICK i \in DOMAIN toRadio' :
          /\ toRadio'[i].type = "!S" /\ f.pkt = toRadio'[i].pkt
          /\ f.sid = toRadio'[i].sid /\ f.over = {}
    BY <1>1 DEF OnRadioLine
  <2>. DEFINE g == [pkt |-> toRadio[i + k].pkt, sid |-> toRadio[i + k].sid, over |-> {}]
  <2>2. /\ g \in OnRadioLine /\ f.pkt = g.pkt /\ f.over = g.over
        /\ f.sid = g.sid \/ f.pkt \in lost'
    BY <2>1 DEF OnRadioLine, Shrinks
  <2>. QED
    BY <2>2 DEF Flights
<1>2. CASE f \in OnHostLine'
  <2>1. PICK i \in DOMAIN toHost' :
          /\ toHost'[i].type = "!R" /\ f.pkt = toHost'[i].pkt
          /\ f.sid = toHost'[i].sid /\ f.over = toHost'[i].over
    BY <1>2 DEF OnHostLine
  <2>. DEFINE g == [pkt |-> toHost[i + l].pkt, sid |-> toHost[i + l].sid,
                    over |-> toHost[i + l].over]
  <2>2. /\ g \in OnHostLine /\ f.pkt = g.pkt /\ f.over = g.over
        /\ f.sid = g.sid \/ f.pkt \in lost'
    BY <2>1 DEF OnHostLine, Shrinks
  <2>. QED
    BY <2>2 DEF Flights
<1>. QED
  BY <1>1, <1>2 DEF Flights

\* What the radio has just read is behind everything that is put off: the
\* slot it writes is not theirs.
LEMMA HeadSlot ==
  ASSUME Inv, ReadsPacket, NEW d \in deferred, Kept(d.pkt, d.over)
  PROVE  /\ \E n \in 1 .. PacketIds - 1 :
              d.slot = Slot(packet_pos, n, PacketIds) /\ n <= Head(toRadio).pkt - d.pkt
         /\ packet_ids'[d.slot] = packet_ids[d.slot]
<1>. USE DEF Inv
<1>1. PICK n \in 1 .. PacketIds : Turns(d, n)
  BY DEF SlotInv
<1>. DEFINE q == Head(toRadio).pkt
            f == [pkt |-> d.pkt, sid |-> packet_ids[d.slot], over |-> d.over]
            h == [pkt |-> q, sid |-> toRadio[1].sid, over |-> {}]
<1>2. /\ q = toRadio[1].pkt /\ 1 \in DOMAIN toRadio /\ toRadio[1].type = "!S"
      /\ q \in Sendable
  BY HeadToRadio DEF ReadsPacket, Receives
<1>3. n <= q - d.pkt
  BY <1>1, <1>2 DEF Turns
<1>4. q < sent
  <2>1. h \in OnRadioLine
    BY <1>2 DEF OnRadioLine
  <2>. HIDE DEF q
  <2>. QED
    BY <2>1 DEF FlightInv, Flights, Followed
<1>5. d.pkt \in Sendable /\ d.over \subseteq Sendable /\ d.slot \in 0 .. PacketIds - 1
  BY DEF TypeOK, Deferred
<1>6. sent - d.pkt <= PacketIds
  <2>1. f \in Flights /\ f.pkt = d.pkt /\ f.over = d.over
    BY DEF Flights, PutOff
  <2>. HIDE DEF f
  <2>2. Followed(f)
    BY <2>1 DEF FlightInv
  <2>. QED
    BY <1>5, <2>1, <2>2, KeptAge
<1>7. n \in 1 .. PacketIds - 1
  <2>. HIDE DEF q, f, h
  <2>. QED
    BY <1>2, <1>3, <1>4, <1>5, <1>6, RadioAssumption DEF TypeOK, Sendable
<1>8. Slot(packet_pos, n, PacketIds) # packet_pos
  BY <1>7, RadioAssumption DEF Slot, TypeOK
<1>9. packet_ids'[d.slot] = packet_ids[d.slot]
  BY <1>1, <1>5, <1>8 DEF Turns, ReadsPacket, TypeOK
<1>. QED
  BY <1>1, <1>3, <1>7, <1>9 DEF Turns

LEMMA SendInv ==
  ASSUME Inv, TypeOK', SendPacket
  PROVE  Inv'
<1>. USE DEF Inv
<1>1. outstanding \subseteq Sendable /\ IsFiniteSet(outstanding) /\ Cardinality(outstanding) \in Nat
  BY PacketsFinite DEF TypeOK
<1>2. WindowInv'
  <2>1. sent \in Nat /\ sent \notin outstanding
    BY DEF TypeOK, WindowInv
  <2>2. Cardinality(outstanding \cup {sent}) = Cardinality(outstanding) + 1
    BY <1>1, <2>1, FS_AddElement
  <2>. QED
    BY <1>1, <2>1, <2>2, RadioAssumption DEF SendPacket, WindowInv
<1>3. callback_pos \in Sids /\ callback_pos' = NextPos(callback_pos)
  BY DEF SendPacket, TypeOK
<1>4. RingInv'
  <2>. SUFFICES ASSUME NEW n \in 1 .. MAX_CALLBACKS, n <= sent'
                PROVE  callbacks'[Slot(callback_pos', n, MAX_CALLBACKS)] = sent' - n
    BY DEF RingInv
  <2>1. CASE n = 1
    BY <1>3, <2>1, CallbackShift DEF SendPacket, TypeOK
  <2>2. CASE n # 1
    <3>1. n - 1 \in 1 .. MAX_CALLBACKS - 1 /\ n - 1 <= sent /\ (n - 1) + 1 = n
      BY <2>2, RadioAssumption DEF SendPacket, TypeOK
    <3>2. /\ Slot(callback_pos', n, MAX_CALLBACKS) = Slot(callback_pos, n - 1, MAX_CALLBACKS)
          /\ Slot(callback_pos, n - 1, MAX_CALLBACKS) \in Sids \ {callback_pos}
      BY <1>3, <3>1, CallbackShift
    <3>3. callbacks[Slot(callback_pos, n - 1, MAX_CALLBACKS)] = sent - (n - 1)
      BY <3>1, RadioAssumption DEF RingInv
    <3>. QED
      BY <3>1, <3>2, <3>3 DEF SendPacket, TypeOK
  <2>. QED
    BY <2>1, <2>2
<1>5. ASSUME NEW i \in DOMAIN toRadio', toRadio'[i].type = "!S"
      PROVE  \/ i \in DOMAIN toRadio /\ toRadio'[i] = toRadio[i]
             \/ /\ i = Len(toRadio) + 1
                /\ toRadio'[i] = [type |-> "!S", sid |-> callback_pos, pkt |-> sent]
  BY DEF SendPacket, TypeOK
<1>. DEFINE h == [pkt |-> sent, sid |-> callback_pos, over |-> {}]
<1>6. ASSUME NEW f \in Flights'
      PROVE  f \in Flights \/ f = h
  <2>1. CASE f \in OnRadioLine'
    <3>1. PICK i \in DOMAIN toRadio' :
            /\ toRadio'[i].type = "!S"
            /\ f = [pkt |-> toRadio'[i].pkt, sid |-> toRadio'[i].sid, over |-> {}]
      BY <2>1 DEF OnRadioLine
    <3>2. CASE toRadio'[i] = [type |-> "!S", sid |-> callback_pos, pkt |-> sent]
      BY <3>1, <3>2
    <3>3. CASE i \in DOMAIN toRadio /\ toRadio'[i] = toRadio[i]
      BY <3>1, <3>3 DEF OnRadioLine, Flights
    <3>. QED
      BY <1>5, <3>1, <3>2, <3>3
  <2>2. PutOff' = PutOff /\ OnHostLine' = OnHostLine
    BY DEF SendPacket, radioVars, PutOff, OnHostLine
  <2>. QED
    BY <1>6, <2>1, <2>2 DEF Flights
<1>7. FlightInv'
  <2>. SUFFICES ASSUME NEW f \in Flights'
                PROVE  Followed(f)' /\ (Kept(f.pkt, f.over)' => RightSid(f)')
    BY DEF FlightInv
  <2>1. CASE f = h
    <3>1. sent' - sent = 1 /\ sent \in Nat /\ sent' - 1 = sent
      BY DEF SendPacket, TypeOK
    <3>2. Followed(f)'
      BY <2>1, <3>1 DEF SendPacket, Followed
    <3>3. RightSid(f)'
      BY <1>3, <2>1, <3>1, CallbackShift DEF RightSid
    <3>. QED
      BY <3>2, <3>3
  <2>2. CASE f \in Flights
    <3>1. f.pkt \in Sendable /\ f.over \subseteq Sendable /\ Followed(f)
      BY <2>2, FlightType DEF FlightInv
    <3>2. sent' = sent + 1 /\ sent \in Nat /\ f.pkt \in Nat
      BY <3>1 DEF SendPacket, TypeOK, Sendable
    <3>3. Followed(f)'
      BY <3>1, <3>2 DEF SendPacket, Followed
    <3>4. ASSUME Kept(f.pkt, f.over)'
          PROVE  RightSid(f)'
      <4>1. Kept(f.pkt, f.over)
        BY <3>1, <3>4, KeptBefore DEF SendPacket
      <4>2. sent - f.pkt \in Nat \ {0} /\ sent - f.pkt <= Cardinality(outstanding) + Spare
        BY <3>1, <4>1, KeptAge
      <4>3. sent - f.pkt \in 1 .. MAX_CALLBACKS - 1
        BY <1>1, <4>2, SpareNat, RadioAssumption DEF SendPacket
      <4>4. f.sid = Slot(callback_pos, sent - f.pkt, MAX_CALLBACKS)
        BY <2>2, <4>1 DEF FlightInv, RightSid
      <4>5. f.sid = Slot(callback_pos', (sent - f.pkt) + 1, MAX_CALLBACKS)
        BY <1>3, <4>3, <4>4, CallbackShift
      <4>6. (sent - f.pkt) + 1 = sent' - f.pkt
        BY <3>2
      <4>. QED
        BY <4>5, <4>6 DEF RightSid
    <3>. QED
      BY <3>3, <3>4
  <2>. QED
    BY <1>6, <2>1, <2>2
<1>8. \A f \in Flights : f.pkt < sent
  BY DEF FlightInv, Followed
<1>9. /\ \A i \in DOMAIN toRadio : toRadio[i].type = "!S" => toRadio[i].pkt < sent
      /\ \A d \in deferred : d.pkt < sent
      /\ \A i \in DOMAIN toHost : toHost[i].type = "!R" => toHost[i].pkt < sent
  <2>1. ASSUME NEW i \in DOMAIN toRadio, toRadio[i].type = "!S"
        PROVE  toRadio[i].pkt < sent
    <3>1. [pkt |-> toRadio[i].pkt, sid |-> toRadio[i].sid, over |-> {}] \in Flights
      BY <2>1 DEF Flights, OnRadioLine
    <3>. QED
      BY <1>8, <3>1
  <2>2. ASSUME NEW d \in deferred
        PROVE  d.pkt < sent
    <3>1. [pkt |-> d.pkt, sid |-> packet_ids[d.slot], over |-> d.over] \in Flights
      BY DEF Flights, PutOff
    <3>. QED
      BY <1>8, <3>1
  <2>3. ASSUME NEW i \in DOMAIN toHost, toHost[i].type = "!R"
        PROVE  toHost[i].pkt < sent
    <3>1. [pkt |-> toHost[i].pkt, sid |-> toHost[i].sid, over |-> toHost[i].over] \in Flights
      BY <2>3 DEF Flights, OnHostLine
    <3>. QED
      BY <1>8, <3>1
  <2>. QED
    BY <2>1, <2>2, <2>3
<1>10. SlotInv'
  <2>. SUFFICES ASSUME NEW d \in deferred', Kept(d.pkt, d.over)'
                PROVE  \E n \in 1 .. PacketIds : Turns(d, n)'
    BY DEF SlotInv
  <2>1. d \in deferred /\ d.pkt \in Sendable /\ d.over \in SUBSET Sendable
    BY DEF SendPacket, radioVars, TypeOK, Deferred
  <2>2. Kept(d.pkt, d.over)
    BY <2>1, KeptBefore DEF SendPacket
  <2>3. PICK n \in 1 .. PacketIds : Turns(d, n)
    BY <2>1, <2>2 DEF SlotInv
  <2>4. sent' = sent + 1 /\ sent \in Nat /\ d.pkt \in Nat /\ packet_pos' = packet_pos
    BY <2>1 DEF SendPacket, radioVars, TypeOK, Sendable
  <2>5. n <= sent' - d.pkt
    BY <2>3, <2>4 DEF Turns
  <2>6. ASSUME NEW i \in DOMAIN toRadio', toRadio'[i].type = "!S"
        PROVE  n <= toRadio'[i].pkt - d.pkt
    BY <1>5, <2>3, <2>6 DEF Turns
  <2>7. Turns(d, n)'
    BY <2>3, <2>4, <2>5, <2>6 DEF Turns
  <2>. QED
    BY <2>7
<1>11. OrderInv'
  <2>1. RadioOrder'
    <3>. SUFFICES ASSUME NEW i \in DOMAIN toRadio', NEW j \in DOMAIN toRadio', i < j,
                         toRadio'[i].type = "!S", toRadio'[j].type = "!S"
                  PROVE  toRadio'[i].pkt < toRadio'[j].pkt
      BY DEF RadioOrder
    <3>1. i \in DOMAIN toRadio /\ toRadio'[i] = toRadio[i]
      BY DEF SendPacket, TypeOK
    <3>. QED
      BY <1>5, <1>9, <3>1 DEF OrderInv, RadioOrder
  <2>2. Behind'
    BY <1>5, <1>9 DEF SendPacket, radioVars, OrderInv, Behind
  <2>3. HostOrder'
    BY DEF SendPacket, radioVars, OrderInv, HostOrder
  <2>. QED
    BY <2>1, <2>2, <2>3 DEF OrderInv
<1>. QED
  BY <1>2, <1>4, <1>7, <1>10, <1>11

\* Steps that complete nothing and put nothing on its way.
LEMMA QuietInv ==
  ASSUME Inv, TypeOK', UNCHANGED hostVars, lost \subseteq lost', strayed' = strayed,
         NEW k \in Nat, NEW l \in Nat, Shrinks(k, l),
         \/ packet_ids' = packet_ids /\ packet_pos' = packet_pos
         \/ ReadsPacket /\ packet_pos' = packet_pos
         \/ deferred' = {}
  PROVE  Inv'
<1>. USE DEF Inv
<1>1. WindowInv' /\ RingInv'
  BY DEF hostVars, WindowInv, RingInv
<1>2. SlotInv'
  BY ShrinksSlot DEF hostVars
<1>3. OrderInv'
  BY ShrinksOrder
<1>4. ASSUME NEW f \in PutOff'
      PROVE  \E g \in Flights :
               f.pkt = g.pkt /\ f.over = g.over /\ (f.sid = g.sid \/ ~Kept(g.pkt, g.over))
  <2>1. PICK d \in deferred' :
          f = [pkt |-> d.pkt, sid |-> packet_ids'[d.slot], over |-> d.over]
    BY DEF PutOff
  <2>. DEFINE g == [pkt |-> d.pkt, sid |-> packet_ids[d.slot], over |-> d.over]
  <2>2. d \in deferred
    BY DEF Shrinks
  <2>3. g \in Flights
    BY <2>2 DEF Flights, PutOff
  <2>4. packet_ids'[d.slot] = packet_ids[d.slot] \/ ~Kept(d.pkt, d.over)
    BY <2>2, HeadSlot
  <2>. QED
    BY <2>1, <2>3, <2>4
<1>5. ASSUME NEW f \in Flights'
      PROVE  \E g \in Flights : Carries(g, f)
  <2>1. PICK g \in Flights :
          /\ f.pkt = g.pkt /\ f.over = g.over
          /\ f.sid = g.sid \/ f.pkt \in lost' \/ ~Kept(g.pkt, g.over)
    BY <1>4, <1>5, ShrinksFlights
  <2>2. Followed(g)
    BY DEF FlightInv
  <2>3. Carries(g, f)
    BY <2>1, <2>2 DEF Carries, Followed, hostVars
  <2>. QED
    BY <2>3
<1>6. FlightInv'
  BY <1>5, Carried DEF hostVars
<1>. QED
  BY <1>1, <1>2, <1>3, <1>6

\* The report that arrives is ahead of all others: what it completes, its own
\* packet or one that strays, nobody else waits for.
LEMMA HandleReportInv ==
  ASSUME Inv, TypeOK', HandleReport
  PROVE  Inv'
<1>. USE DEF Inv
<1>. DEFINE p == Head(toHost).pkt
            sid == Head(toHost).sid
            done == IF sid < MAX_CALLBACKS THEN {callbacks[sid]} ELSE {}
<1>1. /\ p = toHost[1].pkt /\ p \in Sendable /\ 1 \in DOMAIN toHost /\ toHost[1].type = "!R"
  BY HeadToHost DEF HandleReport, Receives
<1>2. /\ outstanding' = outstanding \ done
      /\ strayed' = strayed \cup ((outstanding \cap done) \ {p})
  BY DEF HandleReport, Completes
<1>3. ASSUME NEW q \in outstanding, q \notin outstanding'
      PROVE  q = p \/ q \in strayed'
  BY <1>2, <1>3
<1>. HIDE DEF done
<1>4. WindowInv'
  <2>1. outstanding' \subseteq outstanding /\ outstanding \subseteq Sendable
    BY <1>2 DEF TypeOK
  <2>2. IsFiniteSet(outstanding) /\ Cardinality(outstanding) \in Nat
        /\ Cardinality(outstanding') \in Nat
    BY <2>1, PacketsFinite
  <2>3. Cardinality(outstanding') <= Cardinality(outstanding)
    BY <2>1, <2>2, FS_Subset
  <2>. QED
    BY <2>1, <2>2, <2>3, RadioAssumption DEF HandleReport, WindowInv
<1>5. RingInv'
  BY DEF HandleReport, RingInv
<1>6. Shrinks(0, 1)
  <2>1. \A i \in DOMAIN toHost' : i + 1 \in DOMAIN toHost /\ toHost'[i] = toHost[i + 1]
    BY <1>1 DEF HandleReport, TypeOK
  <2>2. \A i \in DOMAIN toRadio : i + 0 = i
    BY DEF TypeOK
  <2>. QED
    BY <2>1, <2>2 DEF HandleReport, radioVars, Shrinks
<1>7. lost' = lost /\ strayed \subseteq strayed'
  BY <1>2 DEF HandleReport
<1>8. SlotInv' /\ OrderInv'
  BY <1>6, <1>7, ShrinksSlot, ShrinksOrder DEF HandleReport, radioVars
<1>9. ASSUME NEW f \in Flights'
      PROVE  /\ Passes(p, f.pkt, f.over)
             /\ \E g \in Flights : f.pkt = g.pkt /\ f.over = g.over /\ f.sid = g.sid
  <2>1. CASE f \in OnRadioLine'
    <3>1. toRadio' = toRadio
      BY DEF HandleReport
    <3>2. f \in OnRadioLine
      BY <2>1, <3>1 DEF OnRadioLine
    <3>3. p < f.pkt
      BY <1>1, <3>2 DEF OnRadioLine, OrderInv, Behind
    <3>. QED
      BY <3>2, <3>3 DEF Flights, Passes
  <2>2. CASE f \in PutOff'
    <3>1. f \in PutOff
      BY <2>2 DEF HandleReport, radioVars, PutOff
    <3>2. PICK d \in deferred : f.pkt = d.pkt /\ f.over = d.over
      BY <3>1 DEF PutOff
    <3>3. Passes(p, d.pkt, d.over)
      BY <1>1, <3>2 DEF OrderInv, HostOrder
    <3>. QED
      BY <3>1, <3>2, <3>3 DEF Flights, Passes
  <2>3. CASE f \in OnHostLine'
    <3>1. PICK i \in DOMAIN toHost' :
            /\ toHost'[i].type = "!R"
            /\ f = [pkt |-> toHost'[i].pkt, sid |-> toHost'[i].sid, over |-> toHost'[i].over]
      BY <2>3 DEF OnHostLine
    <3>2. i + 1 \in DOMAIN toHost /\ toHost'[i] = toHost[i + 1] /\ 1 < i + 1
      BY <1>1 DEF HandleReport, TypeOK
    <3>3. f \in OnHostLine
      BY <3>1, <3>2 DEF OnHostLine
    <3>4. Passes(toHost[1].pkt, toHost[i + 1].pkt, toHost[i + 1].over)
      BY <1>1, <3>1, <3>2 DEF OrderInv, HostOrder
    <3>. QED
      BY <1>1, <3>1, <3>2, <3>3, <3>4 DEF Flights, Passes
  <2>. QED
    BY <1>9, <2>1, <2>2, <2>3 DEF Flights
<1>10. ASSUME NEW f \in Flights'
       PROVE  \E g \in Flights : Carries(g, f)
  <2>1. PICK g \in Flights : f.pkt = g.pkt /\ f.over = g.over /\ f.sid = g.sid
    BY <1>9
  <2>2. Followed(g) /\ g.pkt \in Sendable
    BY FlightType DEF FlightInv
  <2>3. ASSUME NEW q \in g.pkt .. sent - 1, q \in outstanding
        PROVE  q \in outstanding' \cup f.over \cup strayed'
    <3>1. CASE q = p
      <4>1. ~(p < f.pkt)
        BY <1>1, <2>1, <2>2, <3>1 DEF Sendable
      <4>. QED
        BY <1>9, <3>1, <4>1 DEF Passes
    <3>2. CASE q # p
      BY <1>3, <2>3, <3>2
    <3>. QED
      BY <3>1, <3>2
  <2>4. Carries(g, f)
    BY <2>1, <2>2, <2>3 DEF Carries, Followed
  <2>. QED
    BY <2>4
<1>11. FlightInv'
  BY <1>7, <1>10, Carried DEF HandleReport
<1>. QED
  BY <1>4, <1>5, <1>8, <1>11

\* Whatever the radio does with the packet it has read, the rest of the line
\* to it is behind that packet, and what is put off is in front.
LEMMA HeadFirst ==
  ASSUME Inv, ReadsPacket
  PROVE  /\ Head(toRadio).pkt \in Sendable /\ Head(toRadio).pkt < sent
         /\ \A i \in DOMAIN toRadio' : toRadio'[i].type = "!S" =>
              /\ i + 1 \in DOMAIN toRadio /\ toRadio'[i] = toRadio[i + 1]
              /\ Head(toRadio).pkt < toRadio'[i].pkt
         /\ \A d \in deferred : d.pkt < Head(toRadio).pkt
         /\ \A i \in DOMAIN toHost : toHost[i].type = "!R" => toHost[i].pkt < Head(toRadio).pkt
         /\ [pkt |-> Head(toRadio).pkt, sid |-> Head(toRadio).sid, over |-> {}] \in Flights
<1>. USE DEF Inv
<1>. DEFINE h == [pkt |-> Head(toRadio).pkt, sid |-> Head(toRadio).sid, over |-> {}]
<1>1. /\ Head(toRadio) = toRadio[1] /\ 1 \in DOMAIN toRadio /\ toRadio[1].type = "!S"
      /\ Head(toRadio).pkt \in Sendable
  BY HeadToRadio DEF ReadsPacket, Receives
<1>2. \A i \in DOMAIN toRadio' :
        i + 1 \in DOMAIN toRadio /\ toRadio'[i] = toRadio[i + 1] /\ 1 < i + 1
  BY <1>1 DEF ReadsPacket, TypeOK
<1>3. h \in Flights
  BY <1>1 DEF Flights, OnRadioLine
<1>4. Head(toRadio).pkt < sent
  BY <1>3 DEF FlightInv, Followed
<1>5. ASSUME NEW i \in DOMAIN toRadio', toRadio'[i].type = "!S"
      PROVE  Head(toRadio).pkt < toRadio'[i].pkt
  BY <1>1, <1>2, <1>5 DEF OrderInv, RadioOrder
<1>6. /\ \A d \in deferred : d.pkt < Head(toRadio).pkt
      /\ \A i \in DOMAIN toHost : toHost[i].type = "!R" => toHost[i].pkt < Head(toRadio).pkt
  BY <1>1 DEF OrderInv, Behind
<1>. QED
  BY <1>1, <1>2, <1>3, <1>4, <1>5, <1>6

\* After it has read a packet and used a slot.
LEMMA TurnsNext ==
  ASSUME Inv, ReadsPacket, packet_pos' = NextSlot, sent' = sent, NEW d \in deferred,
         Kept(d.pkt, d.over), NEW e, e.slot = d.slot, e.pkt = d.pkt
  PROVE  \E n \in 1 .. PacketIds : Turns(e, n)'
<1>. DEFINE q == Head(toRadio).pkt
<1>1. PICK n \in 1 .. PacketIds - 1 :
        d.slot = Slot(packet_pos, n, PacketIds) /\ n <= q - d.pkt
  BY HeadSlot
<1>2. /\ q \in Sendable /\ q < sent
      /\ \A i \in DOMAIN toRadio' : toRadio'[i].type = "!S" => q < toRadio'[i].pkt
  BY HeadFirst
<1>3. d.pkt \in Sendable /\ sent \in Nat /\ PacketIds \in Nat \ {0} /\ toRadio' \in Seq(ToRadio)
  BY RadioAssumption, ReadsPacketType DEF Inv, TypeOK, Deferred
<1>4. e.slot = Slot(packet_pos', n + 1, PacketIds)
  BY <1>1, PacketShift DEF Inv
<1>5. n + 1 \in 1 .. PacketIds /\ n + 1 <= sent' - e.pkt
  <2>. HIDE DEF q
  <2>. QED
    BY <1>1, <1>2, <1>3 DEF Sendable
<1>6. ASSUME NEW i \in DOMAIN toRadio', toRadio'[i].type = "!S"
      PROVE  n + 1 <= toRadio'[i].pkt - e.pkt
  <2>1. toRadio'[i] \in ToRadio
    BY <1>3
  <2>2. toRadio'[i].pkt \in Sendable
    BY <1>6, <2>1 DEF ToRadio
  <2>. HIDE DEF q
  <2>. QED
    BY <1>1, <1>2, <1>3, <1>6, <2>2 DEF Sendable
<1>7. Turns(e, n + 1)'
  BY <1>4, <1>5, <1>6 DEF Turns
<1>. QED
  BY <1>5, <1>7

LEMMA RadioSendsInv ==
  ASSUME Inv, TypeOK', RadioSends
  PROVE  Inv'
<1>. USE DEF Inv
<1>. DEFINE q == Head(toRadio).pkt
            h == [pkt |-> q, sid |-> Head(toRadio).sid, over |-> {}]
<1>1. /\ q \in Sendable /\ q < sent
      /\ \A i \in DOMAIN toRadio' : toRadio'[i].type = "!S" =>
           /\ i + 1 \in DOMAIN toRadio /\ toRadio'[i] = toRadio[i + 1]
           /\ q < toRadio'[i].pkt
      /\ \A d \in deferred : d.pkt < q
      /\ \A i \in DOMAIN toHost : toHost[i].type = "!R" => toHost[i].pkt < q
      /\ h \in Flights
  BY HeadFirst DEF RadioSends
<1>2. \A e \in deferred' : \E d \in deferred :
        e = PassedBy(d, q) /\ e.slot = d.slot /\ e.pkt = d.pkt /\ e.over = d.over \cup {q}
  <2>1. \A e \in deferred' : \E d \in deferred :
          /\ e = PassedBy(d, q) /\ e.slot = d.slot /\ e.pkt = d.pkt
          /\ e.over = d.over \cup ({q} \cap (d.pkt + 1 .. MaxSends))
    <3>1. deferred \in SUBSET Deferred /\ q \in Sendable
      BY <1>1 DEF TypeOK
    <3>2. deferred' = Overtaken(deferred, q)
      BY DEF RadioSends
    <3>. HIDE DEF q, h
    <3>3. \A e \in Overtaken(deferred, q) : \E d \in deferred :
            /\ e = PassedBy(d, q) /\ e.slot = d.slot /\ e.pkt = d.pkt
            /\ e.over = d.over \cup ({q} \cap (d.pkt + 1 .. MaxSends))
      <4>1. ASSUME NEW d \in deferred
            PROVE  /\ PassedBy(d, q).slot = d.slot /\ PassedBy(d, q).pkt = d.pkt
                   /\ PassedBy(d, q).over = d.over \cup ({q} \cap (d.pkt + 1 .. MaxSends))
        BY <3>1 DEF Deferred, PassedBy
      <4>. QED
        BY <4>1 DEF Overtaken
    <3>. QED
      BY <3>2, <3>3, Zenon
  <2>2. ASSUME NEW d \in deferred
        PROVE  q \in d.pkt + 1 .. MaxSends
    <3>1. d.pkt \in Sendable /\ d.pkt < q
      BY <1>1 DEF TypeOK, Deferred
    <3>. QED
      BY <1>1, <3>1, RadioAssumption DEF Sendable, TypeOK
  <2>. HIDE DEF q
  <2>. QED
    BY <2>1, <2>2
<1>3. packet_ids'[packet_pos] = Head(toRadio).sid
  BY ReadsPacketType DEF RadioSends
<1>4. ASSUME NEW i \in DOMAIN toHost', toHost'[i].type = "!R"
      PROVE  \/ i \in DOMAIN toHost /\ toHost'[i] = toHost[i]
             \/ /\ i = Len(toHost) + 1
                /\ toHost'[i].pkt = q /\ toHost'[i].sid = Head(toRadio).sid /\ toHost'[i].over = {}
  BY <1>3 DEF RadioSends, TypeOK
<1>5. UNCHANGED <<sent, outstanding, callback_pos, callbacks, lost, strayed>>
  BY DEF RadioSends, hostVars
<1>. HIDE DEF q
<1>6. WindowInv' /\ RingInv'
  BY <1>5 DEF WindowInv, RingInv
<1>7. ASSUME NEW f \in Flights'
      PROVE  \E g \in Flights : Carries(g, f)
  <2>1. ASSUME NEW g \in Flights, f.pkt = g.pkt, f.over = g.over, f.sid = g.sid
        PROVE  Carries(g, f)
    <3>1. Followed(g)
      BY DEF FlightInv
    <3>. QED
      BY <1>5, <2>1, <3>1 DEF Carries, Followed
  <2>2. CASE f \in OnRadioLine'
    <3>1. PICK i \in DOMAIN toRadio' :
            /\ toRadio'[i].type = "!S"
            /\ f = [pkt |-> toRadio'[i].pkt, sid |-> toRadio'[i].sid, over |-> {}]
      BY <2>2 DEF OnRadioLine
    <3>2. f \in Flights
      BY <1>1, <3>1 DEF OnRadioLine, Flights
    <3>. QED
      BY <2>1, <3>2
  <2>3. CASE f \in PutOff'
    <3>1. PICK e \in deferred' :
            f = [pkt |-> e.pkt, sid |-> packet_ids'[e.slot], over |-> e.over]
      BY <2>3 DEF PutOff
    <3>2. PICK d \in deferred :
            e.slot = d.slot /\ e.pkt = d.pkt /\ e.over = d.over \cup {q}
      BY <1>2
    <3>. DEFINE g == [pkt |-> d.pkt, sid |-> packet_ids[d.slot], over |-> d.over]
    <3>3. g \in Flights /\ Followed(g)
      BY DEF Flights, PutOff, FlightInv
    <3>4. packet_ids'[d.slot] = packet_ids[d.slot] \/ ~Kept(d.pkt, d.over)
      BY HeadSlot DEF RadioSends
    <3>5. q \in d.pkt + 1 .. sent - 1
      <4>1. d.pkt \in Sendable /\ d.pkt < q
        BY <1>1 DEF TypeOK, Deferred
      <4>. QED
        BY <1>1, <4>1 DEF Sendable, TypeOK
    <3>6. f.pkt = g.pkt /\ f.over = g.over \cup {q} /\ (f.sid = g.sid \/ ~Kept(g.pkt, g.over))
      BY <3>1, <3>2, <3>4
    <3>7. q \in g.pkt + 1 .. sent - 1
      BY <3>5
    <3>. HIDE DEF g
    <3>8. Carries(g, f)
      BY <1>5, <3>3, <3>6, <3>7 DEF Carries, Followed
    <3>. QED
      BY <3>3, <3>8
  <2>4. CASE f \in OnHostLine'
    <3>1. PICK i \in DOMAIN toHost' :
            /\ toHost'[i].type = "!R"
            /\ f = [pkt |-> toHost'[i].pkt, sid |-> toHost'[i].sid, over |-> toHost'[i].over]
      BY <2>4 DEF OnHostLine
    <3>2. CASE i \in DOMAIN toHost /\ toHost'[i] = toHost[i]
      <4>1. f \in Flights
        BY <3>1, <3>2 DEF OnHostLine, Flights
      <4>. QED
        BY <2>1, <4>1
    <3>3. CASE toHost'[i].pkt = q /\ toHost'[i].sid = Head(toRadio).sid /\ toHost'[i].over = {}
      <4>1. f.pkt = h.pkt /\ f.sid = h.sid /\ f.over = h.over
        BY <3>1, <3>3
      <4>. HIDE DEF h
      <4>. QED
        BY <1>1, <2>1, <4>1
    <3>. QED
      BY <1>4, <3>1, <3>2, <3>3
  <2>. QED
    BY <1>7, <2>2, <2>3, <2>4 DEF Flights
<1>8. FlightInv'
  BY <1>5, <1>7, Carried
<1>9. SlotInv'
  <2>. SUFFICES ASSUME NEW e \in deferred', Kept(e.pkt, e.over)'
                PROVE  \E n \in 1 .. PacketIds : Turns(e, n)'
    BY DEF SlotInv
  <2>1. PICK d \in deferred :
          e.slot = d.slot /\ e.pkt = d.pkt /\ e.over = d.over \cup {q}
    BY <1>2
  <2>2. d.pkt \in Sendable /\ d.over \subseteq Sendable /\ e.over \in SUBSET Sendable
    BY <1>1, <2>1 DEF TypeOK, Deferred
  <2>3. Kept(d.pkt, d.over)
    BY <1>5, <2>1, <2>2, KeptBefore
  <2>. QED
    BY <1>5, <2>1, <2>3, TurnsNext DEF RadioSends
<1>10. OrderInv'
  <2>1. RadioOrder'
    <3>. SUFFICES ASSUME NEW i \in DOMAIN toRadio', NEW j \in DOMAIN toRadio', i < j,
                         toRadio'[i].type = "!S", toRadio'[j].type = "!S"
                  PROVE  toRadio'[i].pkt < toRadio'[j].pkt
      BY DEF RadioOrder
    <3>1. i + 1 < j + 1
      BY DEF TypeOK
    <3>. QED
      BY <1>1, <3>1 DEF OrderInv, RadioOrder
  <2>2. Behind'
    <3>. SUFFICES ASSUME NEW j \in DOMAIN toRadio', toRadio'[j].type = "!S"
                  PROVE  /\ \A e \in deferred' : e.pkt < toRadio'[j].pkt
                         /\ \A i \in DOMAIN toHost' :
                              toHost'[i].type = "!R" => toHost'[i].pkt < toRadio'[j].pkt
      BY DEF Behind
    <3>1. \A e \in deferred' : e.pkt < toRadio'[j].pkt
      BY <1>1, <1>2 DEF OrderInv, Behind
    <3>2. ASSUME NEW i \in DOMAIN toHost', toHost'[i].type = "!R"
          PROVE  toHost'[i].pkt < toRadio'[j].pkt
      BY <1>1, <1>4, <3>2 DEF OrderInv, Behind
    <3>. QED
      BY <3>1, <3>2
  <2>3. ASSUME NEW i \in DOMAIN toHost', NEW j \in DOMAIN toHost', i < j,
               toHost'[i].type = "!R", toHost'[j].type = "!R"
        PROVE  Passes(toHost'[i].pkt, toHost'[j].pkt, toHost'[j].over)
    <3>1. i \in DOMAIN toHost /\ toHost'[i] = toHost[i]
      BY <2>3 DEF RadioSends, TypeOK
    <3>2. CASE j \in DOMAIN toHost /\ toHost'[j] = toHost[j]
      BY <2>3, <3>1, <3>2 DEF OrderInv, HostOrder
    <3>3. CASE toHost'[j].pkt = q
      BY <1>1, <2>3, <3>1, <3>3 DEF Passes
    <3>. QED
      BY <1>4, <2>3, <3>2, <3>3
  <2>4. ASSUME NEW i \in DOMAIN toHost', NEW e \in deferred', toHost'[i].type = "!R"
        PROVE  Passes(toHost'[i].pkt, e.pkt, e.over)
    <3>1. PICK d \in deferred :
            e.slot = d.slot /\ e.pkt = d.pkt /\ e.over = d.over \cup {q}
      BY <1>2
    <3>2. CASE i \in DOMAIN toHost /\ toHost'[i] = toHost[i]
      <4>1. Passes(toHost[i].pkt, d.pkt, d.over)
        BY <2>4, <3>2 DEF OrderInv, HostOrder
      <4>. QED
        BY <3>1, <3>2, <4>1 DEF Passes
    <3>3. CASE toHost'[i].pkt = q
      BY <3>1, <3>3 DEF Passes
    <3>. QED
      BY <1>4, <2>4, <3>2, <3>3
  <2>5. \A d, e \in deferred' : d.pkt = e.pkt => d = e
    BY <1>2 DEF OrderInv, HostOrder
  <2>6. HostOrder'
    BY <2>3, <2>4, <2>5 DEF HostOrder, Passes
  <2>. QED
    BY <2>1, <2>2, <2>6 DEF OrderInv
<1>. QED
  BY <1>6, <1>8, <1>9, <1>10

LEMMA RadioDefersInv ==
  ASSUME Inv, TypeOK', RadioDefers
  PROVE  Inv'
<1>. USE DEF Inv
<1>. DEFINE q == Head(toRadio).pkt
            h == [pkt |-> q, sid |-> Head(toRadio).sid, over |-> {}]
            new == [slot |-> packet_pos, pkt |-> q, over |-> {}]
<1>1. /\ q \in Sendable /\ q < sent
      /\ \A i \in DOMAIN toRadio' : toRadio'[i].type = "!S" =>
           /\ i + 1 \in DOMAIN toRadio /\ toRadio'[i] = toRadio[i + 1]
           /\ q < toRadio'[i].pkt
      /\ \A d \in deferred : d.pkt < q
      /\ \A i \in DOMAIN toHost : toHost[i].type = "!R" => toHost[i].pkt < q
      /\ h \in Flights
  BY HeadFirst DEF RadioDefers
<1>2. deferred' = deferred \cup {new} /\ new.slot = packet_pos /\ new.pkt = q /\ new.over = {}
  BY DEF RadioDefers
<1>3. packet_ids'[packet_pos] = Head(toRadio).sid
  BY ReadsPacketType DEF RadioDefers
<1>4. UNCHANGED <<sent, outstanding, callback_pos, callbacks, toHost, lost, strayed>>
  BY DEF RadioDefers, hostVars
<1>. HIDE DEF q, new
<1>5. WindowInv' /\ RingInv'
  BY <1>4 DEF WindowInv, RingInv
<1>6. ASSUME NEW f \in Flights'
      PROVE  \E g \in Flights : Carries(g, f)
  <2>1. ASSUME NEW g \in Flights, f.pkt = g.pkt, f.over = g.over,
               f.sid = g.sid \/ ~Kept(g.pkt, g.over)
        PROVE  Carries(g, f)
    <3>1. Followed(g)
      BY DEF FlightInv
    <3>. QED
      BY <1>4, <2>1, <3>1 DEF Carries, Followed
  <2>2. CASE f \in OnRadioLine'
    <3>1. PICK i \in DOMAIN toRadio' :
            /\ toRadio'[i].type = "!S"
            /\ f = [pkt |-> toRadio'[i].pkt, sid |-> toRadio'[i].sid, over |-> {}]
      BY <2>2 DEF OnRadioLine
    <3>2. f \in Flights
      BY <1>1, <3>1 DEF OnRadioLine, Flights
    <3>. QED
      BY <2>1, <3>2
  <2>3. CASE f \in PutOff'
    <3>1. PICK d \in deferred' :
            f = [pkt |-> d.pkt, sid |-> packet_ids'[d.slot], over |-> d.over]
      BY <2>3 DEF PutOff
    <3>2. CASE d = new
      <4>1. f.pkt = h.pkt /\ f.sid = h.sid /\ f.over = h.over
        BY <1>2, <1>3, <3>1, <3>2
      <4>. HIDE DEF h
      <4>. QED
        BY <1>1, <2>1, <4>1
    <3>3. CASE d \in deferred
      <4>. DEFINE g == [pkt |-> d.pkt, sid |-> packet_ids[d.slot], over |-> d.over]
      <4>1. g \in Flights
        BY <3>3 DEF Flights, PutOff
      <4>2. packet_ids'[d.slot] = packet_ids[d.slot] \/ ~Kept(d.pkt, d.over)
        BY <3>3, HeadSlot DEF RadioDefers
      <4>3. f.pkt = g.pkt /\ f.over = g.over /\ (f.sid = g.sid \/ ~Kept(g.pkt, g.over))
        BY <3>1, <4>2
      <4>. HIDE DEF g
      <4>. QED
        BY <2>1, <4>1, <4>3
    <3>. QED
      BY <1>2, <3>1, <3>2, <3>3
  <2>4. CASE f \in OnHostLine'
    <3>1. f \in Flights
      BY <1>4, <2>4 DEF OnHostLine, Flights
    <3>. QED
      BY <2>1, <3>1
  <2>. QED
    BY <1>6, <2>2, <2>3, <2>4 DEF Flights
<1>7. FlightInv'
  BY <1>4, <1>6, Carried
<1>8. SlotInv'
  <2>. SUFFICES ASSUME NEW d \in deferred', Kept(d.pkt, d.over)'
                PROVE  \E n \in 1 .. PacketIds : Turns(d, n)'
    BY DEF SlotInv
  <2>1. CASE d = new
    <3>1. packet_pos' = NextSlot /\ sent' = sent
      BY <1>4 DEF RadioDefers
    <3>2. d.slot = Slot(packet_pos', 1, PacketIds) /\ d.pkt = q
      BY <1>2, <2>1, <3>1, PacketShift
    <3>3. 1 <= sent' - q
      BY <1>1, <3>1 DEF TypeOK, Sendable
    <3>4. ASSUME NEW i \in DOMAIN toRadio', toRadio'[i].type = "!S"
          PROVE  1 <= toRadio'[i].pkt - q
      <4>1. toRadio'[i] \in ToRadio
        BY DEF TypeOK
      <4>2. toRadio'[i].pkt \in Sendable
        BY <3>4, <4>1 DEF ToRadio
      <4>. QED
        BY <1>1, <3>4, <4>2 DEF Sendable
    <3>5. Turns(d, 1)'
      BY <3>2, <3>3, <3>4 DEF Turns
    <3>6. 1 \in 1 .. PacketIds
      BY RadioAssumption
    <3>. QED
      BY <3>5, <3>6
  <2>2. CASE d \in deferred
    <3>1. d.pkt \in Sendable /\ d.over \in SUBSET Sendable
      BY <2>2 DEF TypeOK, Deferred
    <3>2. Kept(d.pkt, d.over)
      BY <1>4, <3>1, KeptBefore
    <3>. QED
      BY <1>4, <2>2, <3>2, TurnsNext DEF RadioDefers
  <2>. QED
    BY <1>2, <2>1, <2>2
<1>9. OrderInv'
  <2>1. RadioOrder'
    <3>. SUFFICES ASSUME NEW i \in DOMAIN toRadio', NEW j \in DOMAIN toRadio', i < j,
                         toRadio'[i].type = "!S", toRadio'[j].type = "!S"
                  PROVE  toRadio'[i].pkt < toRadio'[j].pkt
      BY DEF RadioOrder
    <3>1. i + 1 < j + 1
      BY DEF TypeOK
    <3>. QED
      BY <1>1, <3>1 DEF OrderInv, RadioOrder
  <2>2. Behind'
    <3>. SUFFICES ASSUME NEW j \in DOMAIN toRadio', toRadio'[j].type = "!S"
                  PROVE  /\ \A d \in deferred' : d.pkt < toRadio'[j].pkt
                         /\ \A i \in DOMAIN toHost' :
                              toHost'[i].type = "!R" => toHost'[i].pkt < toRadio'[j].pkt
      BY DEF Behind
    <3>. QED
      BY <1>1, <1>2, <1>4 DEF OrderInv, Behind
  <2>3. ASSUME NEW i \in DOMAIN toHost', NEW d \in deferred', toHost'[i].type = "!R"
        PROVE  Passes(toHost'[i].pkt, d.pkt, d.over)
    <3>1. CASE d = new
      BY <1>1, <1>2, <1>4, <2>3, <3>1 DEF Passes
    <3>2. CASE d \in deferred
      BY <1>4, <2>3, <3>2 DEF OrderInv, HostOrder
    <3>. QED
      BY <1>2, <3>1, <3>2
  <2>4. ASSUME NEW d \in deferred', NEW e \in deferred', d.pkt = e.pkt
        PROVE  d = e
    <3>1. \A c \in deferred : c.pkt # q
      <4>. SUFFICES ASSUME NEW c \in deferred
                    PROVE  c.pkt # q
        OBVIOUS
      <4>1. c.pkt \in Sendable /\ c.pkt < q
        BY <1>1 DEF TypeOK, Deferred
      <4>. QED
        BY <4>1 DEF Sendable
    <3>. QED
      BY <1>2, <2>4, <3>1 DEF OrderInv, HostOrder
  <2>5. HostOrder'
    <3>1. \A i, j \in DOMAIN toHost' :
            i < j /\ toHost'[i].type = "!R" /\ toHost'[j].type = "!R"
              => Passes(toHost'[i].pkt, toHost'[j].pkt, toHost'[j].over)
      BY <1>4 DEF OrderInv, HostOrder
    <3>. QED
      BY <2>3, <2>4, <3>1 DEF HostOrder, Passes
  <2>. QED
    BY <2>1, <2>2, <2>5 DEF OrderInv
<1>. QED
  BY <1>5, <1>7, <1>8, <1>9

LEMMA SendsDeferredInv ==
  ASSUME Inv, TypeOK', NEW late \in deferred, SendsDeferred(late)
  PROVE  Inv'
<1>. USE DEF Inv
<1>. DEFINE q == late.pkt
            h == [pkt |-> q, sid |-> packet_ids[late.slot], over |-> late.over]
<1>1. h \in Flights /\ q \in Sendable
  BY DEF Flights, PutOff, TypeOK, Deferred
<1>2. q < sent
  BY <1>1 DEF FlightInv, Followed
<1>3. \A e \in deferred' : \E d \in deferred \ {late} :
        /\ e = PassedBy(d, q) /\ e.slot = d.slot /\ e.pkt = d.pkt
        /\ e.over = d.over \cup ({q} \cap (d.pkt + 1 .. MaxSends))
  <2>1. /\ deferred \ {late} \in SUBSET Deferred
        /\ deferred' = Overtaken(deferred \ {late}, q)
    BY DEF SendsDeferred, TypeOK
  <2>. HIDE DEF q
  <2>. QED
    BY <1>1, <2>1, OvertakenEntries
<1>4. ASSUME NEW i \in DOMAIN toHost', toHost'[i].type = "!R"
      PROVE  \/ i \in DOMAIN toHost /\ toHost'[i] = toHost[i]
             \/ /\ i = Len(toHost) + 1
                /\ toHost'[i].pkt = q /\ toHost'[i].sid = packet_ids[late.slot]
                /\ toHost'[i].over = late.over
  BY DEF SendsDeferred, TypeOK
<1>5. UNCHANGED <<sent, outstanding, callback_pos, callbacks, toRadio, packet_ids, packet_pos,
                  lost, strayed>>
  BY DEF SendsDeferred, hostVars
<1>. HIDE DEF q
<1>6. WindowInv' /\ RingInv'
  BY <1>5 DEF WindowInv, RingInv
<1>7. ASSUME NEW f \in Flights'
      PROVE  \E g \in Flights : Carries(g, f)
  <2>1. ASSUME NEW g \in Flights, f.pkt = g.pkt, f.over = g.over, f.sid = g.sid
        PROVE  Carries(g, f)
    <3>1. Followed(g)
      BY DEF FlightInv
    <3>. QED
      BY <1>5, <2>1, <3>1 DEF Carries, Followed
  <2>2. CASE f \in OnRadioLine'
    <3>1. f \in Flights
      BY <1>5, <2>2 DEF OnRadioLine, Flights
    <3>. QED
      BY <2>1, <3>1
  <2>3. CASE f \in PutOff'
    <3>1. PICK e \in deferred' :
            f = [pkt |-> e.pkt, sid |-> packet_ids'[e.slot], over |-> e.over]
      BY <2>3 DEF PutOff
    <3>2. PICK d \in deferred :
            /\ e.slot = d.slot /\ e.pkt = d.pkt
            /\ e.over = d.over \cup ({q} \cap (d.pkt + 1 .. MaxSends))
      BY <1>3
    <3>. DEFINE g == [pkt |-> d.pkt, sid |-> packet_ids[d.slot], over |-> d.over]
    <3>3. g \in Flights /\ Followed(g)
      BY DEF Flights, PutOff, FlightInv
    <3>4. {q} \cap (d.pkt + 1 .. MaxSends) \subseteq d.pkt + 1 .. sent - 1
      <4>1. d.pkt \in Sendable
        BY DEF TypeOK, Deferred
      <4>. QED
        BY <1>1, <1>2, <4>1 DEF Sendable, TypeOK
    <3>5. /\ f.pkt = g.pkt /\ f.over = g.over \cup ({q} \cap (d.pkt + 1 .. MaxSends))
          /\ f.sid = g.sid /\ g.pkt = d.pkt
      BY <1>5, <3>1, <3>2
    <3>. HIDE DEF g
    <3>6. Carries(g, f)
      BY <1>5, <3>3, <3>4, <3>5 DEF Carries, Followed
    <3>. QED
      BY <3>3, <3>6
  <2>4. CASE f \in OnHostLine'
    <3>1. PICK i \in DOMAIN toHost' :
            /\ toHost'[i].type = "!R"
            /\ f = [pkt |-> toHost'[i].pkt, sid |-> toHost'[i].sid, over |-> toHost'[i].over]
      BY <2>4 DEF OnHostLine
    <3>2. CASE i \in DOMAIN toHost /\ toHost'[i] = toHost[i]
      <4>1. f \in Flights
        BY <3>1, <3>2 DEF OnHostLine, Flights
      <4>. QED
        BY <2>1, <4>1
    <3>3. CASE /\ toHost'[i].pkt = q /\ toHost'[i].sid = packet_ids[late.slot]
               /\ toHost'[i].over = late.over
      <4>1. f.pkt = h.pkt /\ f.sid = h.sid /\ f.over = h.over
        BY <3>1, <3>3
      <4>. HIDE DEF h
      <4>. QED
        BY <1>1, <2>1, <4>1
    <3>. QED
      BY <1>4, <3>1, <3>2, <3>3
  <2>. QED
    BY <1>7, <2>2, <2>3, <2>4 DEF Flights
<1>8. FlightInv'
  BY <1>5, <1>7, Carried
<1>9. SlotInv'
  <2>. SUFFICES ASSUME NEW e \in deferred', Kept(e.pkt, e.over)'
                PROVE  \E n \in 1 .. PacketIds : Turns(e, n)'
    BY DEF SlotInv
  <2>1. PICK d \in deferred :
          e.slot = d.slot /\ e.pkt = d.pkt /\ d.over \subseteq e.over
    BY <1>3
  <2>2. d.pkt \in Sendable /\ e.over \in SUBSET Sendable
    BY <2>1 DEF TypeOK, Deferred
  <2>3. Kept(d.pkt, d.over)
    BY <1>5, <2>1, <2>2, KeptBefore
  <2>4. PICK n \in 1 .. PacketIds : Turns(d, n)
    BY <2>3 DEF SlotInv
  <2>5. Turns(e, n)'
    BY <1>5, <2>1, <2>4 DEF Turns
  <2>. QED
    BY <2>5
<1>10. OrderInv'
  <2>1. RadioOrder' /\ Behind'
    <3>1. Behind'
      BY <1>3, <1>4, <1>5 DEF OrderInv, Behind, q
    <3>. QED
      BY <1>5, <3>1 DEF OrderInv, RadioOrder
  <2>2. ASSUME NEW i \in DOMAIN toHost', NEW j \in DOMAIN toHost', i < j,
               toHost'[i].type = "!R", toHost'[j].type = "!R"
        PROVE  Passes(toHost'[i].pkt, toHost'[j].pkt, toHost'[j].over)
    <3>1. i \in DOMAIN toHost /\ toHost'[i] = toHost[i]
      BY <2>2 DEF SendsDeferred, TypeOK
    <3>2. CASE j \in DOMAIN toHost /\ toHost'[j] = toHost[j]
      BY <2>2, <3>1, <3>2 DEF OrderInv, HostOrder
    <3>3. CASE toHost'[j].pkt = q /\ toHost'[j].over = late.over
      <4>1. Passes(toHost[i].pkt, late.pkt, late.over)
        BY <2>2, <3>1 DEF OrderInv, HostOrder
      <4>. QED
        BY <3>1, <3>3, <4>1 DEF q
    <3>. QED
      BY <1>4, <2>2, <3>2, <3>3
  <2>3. ASSUME NEW i \in DOMAIN toHost', NEW e \in deferred', toHost'[i].type = "!R"
        PROVE  Passes(toHost'[i].pkt, e.pkt, e.over)
    <3>1. PICK d \in deferred \ {late} :
            /\ e.pkt = d.pkt
            /\ e.over = d.over \cup ({q} \cap (d.pkt + 1 .. MaxSends))
      BY <1>3
    <3>2. CASE i \in DOMAIN toHost /\ toHost'[i] = toHost[i]
      <4>1. Passes(toHost[i].pkt, d.pkt, d.over)
        BY <2>3, <3>2 DEF OrderInv, HostOrder
      <4>. QED
        BY <3>1, <3>2, <4>1 DEF Passes
    <3>3. CASE toHost'[i].pkt = q
      <4>1. d.pkt # q
        BY <3>1 DEF OrderInv, HostOrder, q
      <4>2. q < d.pkt \/ q \in d.pkt + 1 .. MaxSends
        <5>1. d.pkt \in Sendable
          BY DEF TypeOK, Deferred
        <5>. QED
          BY <1>1, <4>1, <5>1, RadioAssumption DEF Sendable
      <4>. QED
        BY <3>1, <3>3, <4>2 DEF Passes
    <3>. QED
      BY <1>4, <2>3, <3>2, <3>3
  <2>4. \A d, e \in deferred' : d.pkt = e.pkt => d = e
    BY <1>3 DEF OrderInv, HostOrder
  <2>5. HostOrder'
    BY <2>2, <2>3, <2>4 DEF HostOrder, Passes
  <2>. QED
    BY <2>1, <2>5 DEF OrderInv
<1>. QED
  BY <1>6, <1>8, <1>9, <1>10

\* Every other step takes frames from the line, damages them, or puts one
\* there that is about no packet.
LEMMA OtherInv ==
  ASSUME Inv, TypeOK',
         \/ RequestMac \/ SetPrefix \/ HandleMac \/ RadioRejects \/ RadioAnswers
         \/ Faults \/ UNCHANGED vars
  PROVE  Inv'
<1>. USE DEF Inv
<1>. DEFINE DropsRadio(k) ==
              \A i \in DOMAIN toRadio' : toRadio'[i].type = "!S" =>
                /\ i + k \in DOMAIN toRadio /\ toRadio[i + k].type = "!S"
                /\ toRadio'[i].pkt = toRadio[i + k].pkt
                /\ toRadio'[i].sid = toRadio[i + k].sid \/ toRadio'[i].pkt \in lost'
            DropsHost(l) ==
              \A i \in DOMAIN toHost' : toHost'[i].type = "!R" =>
                /\ i + l \in DOMAIN toHost /\ toHost[i + l].type = "!R"
                /\ toHost'[i].pkt = toHost[i + l].pkt /\ toHost'[i].over = toHost[i + l].over
                /\ toHost'[i].sid = toHost[i + l].sid \/ toHost'[i].pkt \in lost'
<1>1. UNCHANGED hostVars /\ lost \subseteq lost' /\ strayed' = strayed
  BY DEF RequestMac, SetPrefix, HandleMac, RadioRejects, RadioAnswers, Faults,
         LoseToRadio, LoseToHost, DamageToRadio, DamageToHost, RadioReboots, vars, hostVars
<1>2. /\ deferred' = deferred \/ deferred' = {}
      /\ \/ packet_ids' = packet_ids /\ packet_pos' = packet_pos
         \/ ReadsPacket /\ packet_pos' = packet_pos
         \/ deferred' = {}
  BY DEF RequestMac, SetPrefix, HandleMac, RadioRejects, RadioAnswers, Faults,
         LoseToRadio, LoseToHost, DamageToRadio, DamageToHost, RadioReboots, vars, radioVars
<1>3. \A k, l : DropsRadio(k) /\ DropsHost(l) => Shrinks(k, l)
  BY <1>2 DEF Shrinks
<1>4. toRadio' = toRadio => DropsRadio(0)
  BY DEF TypeOK
<1>5. toHost' = toHost => DropsHost(0)
  BY DEF TypeOK
<1>6. toRadio # << >> /\ toRadio' = Tail(toRadio) => DropsRadio(1)
  BY DEF TypeOK
<1>7. toHost # << >> /\ toHost' = Tail(toHost) => DropsHost(1)
  BY DEF TypeOK
<1>zero. \A k, l \in {0, 1} : DropsRadio(k) /\ DropsHost(l) =>
          \E m, n \in Nat : DropsRadio(m) /\ DropsHost(n)
  <2>. HIDE DEF DropsRadio, DropsHost
  <2>. QED
    OBVIOUS
<1>8. \E k, l \in Nat : DropsRadio(k) /\ DropsHost(l)
  <2>1. CASE RequestMac
    <3>1. DropsRadio(0)
      BY <2>1 DEF RequestMac, TypeOK
    <3>2. DropsHost(0)
      BY <1>5, <2>1 DEF RequestMac
    <3>. QED
      BY <3>1, <3>2, <1>zero
  <2>2. CASE RadioAnswers
    <3>1. DropsHost(0)
      BY <2>2 DEF RadioAnswers, TypeOK
    <3>2. DropsRadio(1)
      BY <1>6, <2>2 DEF RadioAnswers, Receives
    <3>. QED
      BY <3>1, <3>2
  <2>3. CASE RadioReboots
    <3>1. DropsRadio(0)
      BY <2>3 DEF RadioReboots
    <3>. QED
      BY <1>5, <2>3, <3>1 DEF RadioReboots
  <2>4. CASE RadioRejects \/ LoseToRadio
    <3>1. DropsRadio(1) /\ DropsHost(0)
      BY <1>5, <1>6, <2>4 DEF RadioRejects, LoseToRadio, ReadsPacket, Receives
    <3>. QED
      BY <3>1
  <2>5. CASE HandleMac \/ LoseToHost
    <3>1. DropsRadio(0) /\ DropsHost(1)
      BY <1>4, <1>7, <2>5 DEF HandleMac, LoseToHost, Receives
    <3>. QED
      BY <3>1, <1>zero
  <2>6. CASE SetPrefix \/ UNCHANGED vars
    <3>1. DropsRadio(0) /\ DropsHost(0)
      BY <1>4, <1>5, <2>6 DEF SetPrefix, vars
    <3>. QED
      BY <3>1, <1>zero
  <2>7. CASE DamageToRadio
    <3>1. 1 \in DOMAIN toRadio /\ lost' = lost \cup {toRadio[1].pkt}
      BY <2>7, HeadToRadio DEF DamageToRadio
    <3>2. PICK byte \in Bytes : toRadio' = [toRadio EXCEPT ![1].sid = byte]
      BY <2>7 DEF DamageToRadio
    <3>3. DOMAIN toRadio' = DOMAIN toRadio /\ \A i \in DOMAIN toRadio : i # 1 => toRadio'[i] = toRadio[i]
      BY <3>2
    <3>4. toRadio'[1].type = toRadio[1].type /\ toRadio'[1].pkt = toRadio[1].pkt
      <4>1. toRadio[1] \in ToRadio /\ toRadio[1].type = "!S"
        BY <2>7, <3>1, HeadToRadio DEF DamageToRadio, Receives, TypeOK
      <4>2. toRadio[1] \in [type : {"!S"}, sid : Bytes, pkt : Sendable]
        BY <4>1 DEF ToRadio
      <4>3. toRadio'[1] = [toRadio[1] EXCEPT !.sid = byte]
        BY <3>1, <3>2
      <4>. QED
        BY <4>2, <4>3
    <3>5. \A i \in DOMAIN toRadio : i + 0 = i
      BY DEF TypeOK
    <3>6. DropsRadio(0)
      BY <3>1, <3>3, <3>4, <3>5
    <3>. QED
      BY <1>5, <2>7, <3>6 DEF DamageToRadio
  <2>8. CASE DamageToHost
    <3>1. 1 \in DOMAIN toHost /\ lost' = lost \cup {toHost[1].pkt}
      BY <2>8, HeadToHost DEF DamageToHost
    <3>2. PICK byte \in Bytes : toHost' = [toHost EXCEPT ![1].sid = byte]
      BY <2>8 DEF DamageToHost
    <3>3. DOMAIN toHost' = DOMAIN toHost /\ \A i \in DOMAIN toHost : i # 1 => toHost'[i] = toHost[i]
      BY <3>2
    <3>4. /\ toHost'[1].type = toHost[1].type /\ toHost'[1].pkt = toHost[1].pkt
          /\ toHost'[1].over = toHost[1].over
      <4>1. toHost[1] \in ToHost /\ toHost[1].type = "!R"
        BY <2>8, <3>1, HeadToHost DEF DamageToHost, Receives, TypeOK
      <4>2. toHost[1] \in [type : {"!R"}, sid : Bytes, pkt : Sendable, over : SUBSET Sendable]
        BY <4>1 DEF ToHost
      <4>3. toHost'[1] = [toHost[1] EXCEPT !.sid = byte]
        BY <3>1, <3>2
      <4>. QED
        BY <4>2, <4>3
    <3>5. \A i \in DOMAIN toHost : i + 0 = i
      BY DEF TypeOK
    <3>6. DropsHost(0)
      BY <3>1, <3>3, <3>4, <3>5
    <3>. QED
      BY <1>4, <2>8, <3>6 DEF DamageToHost
  <2>. QED
    BY <2>1, <2>2, <2>3, <2>4, <2>5, <2>6, <2>7, <2>8 DEF Faults
<1>. HIDE DEF DropsRadio, DropsHost
<1>9. PICK k \in Nat, l \in Nat : Shrinks(k, l)
  BY <1>3, <1>8
<1>. QED
  BY <1>1, <1>2, <1>9, QuietInv

LEMMA NextInv == Inv /\ [Next]_vars => Inv'
<1>. SUFFICES ASSUME Inv, [Next]_vars
              PROVE  Inv'
  OBVIOUS
<1>1. TypeOK'
  BY NextType DEF Inv
<1>. QED
  BY <1>1, SendInv, HandleReportInv, RadioSendsInv, RadioDefersInv, SendsDeferredInv, OtherInv
     DEF Next, Host, Radio

LEMMA Inductive == Spec => []Inv
BY InitInv, NextInv, PTL DEF Spec

-----------------------------------------------------------------------------
(* The theorem. *)

LEMMA InvMatches == Inv => ReportsMatch
<1>. SUFFICES ASSUME Inv
              PROVE  ReportsMatch
  OBVIOUS
<1>. USE DEF Inv
<1>1. ASSUME NEW f \in Flights
      PROVE  Matches(f.pkt, f.sid, f.over)
  BY FlightMatches DEF Matches, Kept
<1>2. ASSUME NEW i \in DOMAIN toRadio, toRadio[i].type = "!S"
      PROVE  Matches(toRadio[i].pkt, toRadio[i].sid, {})
  <2>1. [pkt |-> toRadio[i].pkt, sid |-> toRadio[i].sid, over |-> {}] \in Flights
    BY <1>2 DEF Flights, OnRadioLine
  <2>. QED
    BY <1>1, <2>1
<1>3. ASSUME NEW d \in deferred
      PROVE  Matches(d.pkt, packet_ids[d.slot], d.over)
  <2>1. [pkt |-> d.pkt, sid |-> packet_ids[d.slot], over |-> d.over] \in Flights
    BY DEF Flights, PutOff
  <2>. QED
    BY <1>1, <2>1
<1>4. ASSUME NEW i \in DOMAIN toHost, toHost[i].type = "!R"
      PROVE  Matches(toHost[i].pkt, toHost[i].sid, toHost[i].over)
  <2>1. [pkt |-> toHost[i].pkt, sid |-> toHost[i].sid, over |-> toHost[i].over] \in Flights
    BY <1>4 DEF Flights, OnHostLine
  <2>. QED
    BY <1>1, <2>1
<1>. QED
  BY <1>2, <1>3, <1>4 DEF ReportsMatch

\* The slot of every packet and every report on its way holds the callback of
\* that packet (callbacks[] of border-router-rdc.c, packet_ids[] of
\* slip-radio.c), for rings of any size, any loss, damage and reboot, also if
\* the radio puts packets off and others pass them: as long as the packet is
\* not damaged itself and those that were done before it are not more than
\* the slots that are left when the MAC waits for as many as it may.
THEOREM Matched == Spec => []ReportsMatch
BY Inductive, InvMatches, PTL
=============================================================================
