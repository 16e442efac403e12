-------------------------- MODULE SlipInputProofs --------------------------
(***************************************************************************)
(* Theorems about SlipInput and their proofs, for any messages, any losses *)
(* on the line, any size of inbuf and any way the calls of serial_input    *)
(* cut the bytes.                                                          *)
(***************************************************************************)
EXTENDS SlipInput, SlipBytesProofs

(***************************************************************************)
(* border_router_set_sensors.                                              *)
(***************************************************************************)

NoCuts == [rows |-> << >>, item |-> << >>]

\* cut[i] is what Cuts has when i items are read.
CutWalk(cut, items) ==
  cut[0] = NoCuts /\ \A i \in 1 .. Len(items) : cut[i] = Cut(cut[i - 1], items[i])

LEMMA CutsIsWalk ==
  ASSUME NEW S, NEW items \in Seq(S)
  PROVE  \E cut : CutWalk(cut, items) /\ Cuts(items) = cut[Len(items)]
<1>. DEFINE N == Len(items)
            A == [rows : Seq(Seq(S)), item : Seq(S)]
            step == [p \in (1 .. N) \X A |-> Cut(p[2], items[p[1]])]
            Turns(g) == [i \in 0 .. N |-> IF i = 0 THEN [rows |-> << >>, item |-> << >>]
                                          ELSE Cut(g[i - 1], items[i])]
            cut == CHOOSE g : g = Turns(g)
<1>1. N \in Nat /\ NoCuts \in A
  BY DEF NoCuts
<1>2. ASSUME NEW i \in 1 .. N, NEW acc \in A
      PROVE  Cut(acc, items[i]) \in A
  <2>1. acc.rows \in Seq(Seq(S)) /\ acc.item \in Seq(S) /\ items[i] \in S
    OBVIOUS
  <2>2. /\ Append(acc.rows, acc.item) \in Seq(Seq(S)) /\ << >> \in Seq(S)
        /\ Append(acc.item, items[i]) \in Seq(S)
    BY <2>1
  <2>. QED
    BY <2>1, <2>2, Zenon DEF Cut
<1>. HIDE DEF A
<1>3. IsStep(step, N, A)
  <2>1. \A p \in (1 .. N) \X A : Cut(p[2], items[p[1]]) \in A
    BY <1>2
  <2>. QED
    BY <2>1, Zenon DEF IsStep
<1>4. \A i \in 1 .. N, acc \in A : step[<<i, acc>>] = Cut(acc, items[i])
  OBVIOUS
<1>. HIDE DEF step
<1>5. PICK g \in Walks(step, N, A, NoCuts) : TRUE
  <2>. HIDE DEF N
  <2>. QED
    BY <1>1, <1>3, WalkExists
<1>6. g = Turns(g)
  <2>1. /\ g \in [0 .. N -> A] /\ g[0] = NoCuts
        /\ \A i \in 1 .. N : g[i] = step[<<i, g[i - 1]>>]
    BY <1>5 DEF Walks
  <2>2. ASSUME NEW i \in 1 .. N
        PROVE  g[i] = Cut(g[i - 1], items[i])
    <3>1. i - 1 \in 0 .. N
      BY <1>1
    <3>2. g[i - 1] \in A
      BY <2>1, <3>1
    <3>. QED
      BY <1>4, <2>1, <3>2
  <2>3. \A i \in 0 .. N : i # 0 => i \in 1 .. N
    BY <1>1
  <2>. HIDE DEF N
  <2>. QED
    BY <2>1, <2>2, <2>3 DEF NoCuts
<1>7. cut = Turns(cut)
  <2>. HIDE DEF Turns
  <2>. QED
    BY <1>6
<1>8. Cuts(items) = cut[N]
  BY DEF Cuts
<1>. HIDE DEF cut
<1>9. CutWalk(cut, items)
  <2>1. 0 \in 0 .. N /\ \A i \in 1 .. N : i \in 0 .. N /\ i # 0
    BY <1>1
  <2>. QED
    BY <1>7, <2>1 DEF CutWalk, NoCuts
<1>. QED
  BY <1>8, <1>9

\* The rows, each with a ';' before it, one behind the other.
Flat(rows) == FlattenSeq([k \in DOMAIN rows |-> <<SEMICOLON>> \o rows[k]])

LEMMA FlatFacts ==
  ASSUME NEW S, SEMICOLON \in S, NEW rows \in Seq(Seq(S)), NEW item \in Seq(S)
  PROVE  /\ Flat(rows) \in Seq(S) /\ Flat(<< >>) = << >>
         /\ Flat(Append(rows, item)) = Flat(rows) \o (<<SEMICOLON>> \o item)
<1>. DEFINE led == [k \in DOMAIN rows |-> <<SEMICOLON>> \o rows[k]]
            more == Append(rows, item)
            long == [k \in DOMAIN more |-> <<SEMICOLON>> \o more[k]]
            C == Seq(S)
            head == <<SEMICOLON>> \o item
<1>1. /\ Len(rows) \in Nat /\ DOMAIN rows = 1 .. Len(rows)
      /\ DOMAIN more = 1 .. Len(rows) + 1
  OBVIOUS
<1>2. /\ \A k \in 1 .. Len(rows) : rows[k] \in C /\ more[k] = rows[k]
      /\ more[Len(rows) + 1] = item
  OBVIOUS
<1>3. \A r \in C : <<SEMICOLON>> \o r \in C
  OBVIOUS
<1>4. led \in Seq(C) /\ Len(led) = Len(rows)
  <2>. HIDE DEF C
  <2>. QED
    BY <1>1, <1>2, <1>3
<1>5. long = Append(led, head)
  <2>1. \A k \in 1 .. Len(rows) : long[k] = led[k]
    BY <1>1, <1>2
  <2>2. long[Len(rows) + 1] = head
    BY <1>1, <1>2
  <2>3. long \in Seq(C) /\ Len(long) = Len(rows) + 1
    <3>1. \A k \in 1 .. Len(rows) + 1 : <<SEMICOLON>> \o more[k] \in C
      <4>1. \A k \in 1 .. Len(rows) + 1 : more[k] \in C
        BY <1>1, <1>2
      <4>. QED
        BY <1>3, <4>1
    <3>. HIDE DEF C, more
    <3>. QED
      BY <1>1, <3>1
  <2>4. head \in C
    BY <1>3
  <2>. HIDE DEF long, led, head, C
  <2>. QED
    BY <1>4, <2>1, <2>2, <2>3, <2>4
<1>6. FlattenSeq(Append(led, head)) = FlattenSeq(led) \o head /\ FlattenSeq(led) \in C
  <2>1. head \in C
    BY <1>3
  <2>. HIDE DEF led, head
  <2>. QED
    BY <1>4, <2>1, FlattenAppend, FlattenInSeq DEF C
<1>7. Flat(<< >>) = << >>
  <2>1. [k \in DOMAIN << >> |-> <<SEMICOLON>> \o << >>[k]] = << >>
    OBVIOUS
  <2>2. FlattenSeq(<< >>) = << >>
    BY DEF FlattenSeq
  <2>. QED
    BY <2>1, <2>2 DEF Flat
<1>8. Flat(rows) = FlattenSeq(led) /\ Flat(more) = FlattenSeq(long)
  BY DEF Flat
<1>. QED
  <2>. HIDE DEF led, long
  <2>. QED
    BY <1>5, <1>6, <1>7, <1>8

\* Up to where the rows are full, they and the item, each with a ';' before
\* it, are what has been read.
CutInv(S, acc, read) ==
  /\ acc.rows \in Seq(Seq(S)) /\ acc.item \in Seq(S) /\ Len(acc.rows) <= MaxSensors
  /\ \A k \in 1 .. Len(acc.rows) : SEMICOLON \notin Range(acc.rows[k])
  /\ SEMICOLON \notin Range(acc.item)
  /\ \/ /\ Len(acc.rows) < MaxSensors
        /\ Flat(acc.rows) \o (<<SEMICOLON>> \o acc.item) = <<SEMICOLON>> \o read
     \/ /\ Len(acc.rows) = MaxSensors
        /\ \E t, u \in Seq(S) :
             /\ read = t \o u /\ t # << >>
             /\ Flat(acc.rows) \o <<SEMICOLON>> = <<SEMICOLON>> \o t

LEMMA CutKeeps ==
  ASSUME NEW S, SEMICOLON \in S, NEW acc, NEW read \in Seq(S), NEW c \in S, CutInv(S, acc, read)
  PROVE  CutInv(S, Cut(acc, c), Append(read, c))
<1>. DEFINE rows == acc.rows
            item == acc.item
            sep == <<SEMICOLON>>
<1>0. /\ rows \in Seq(Seq(S)) /\ item \in Seq(S) /\ sep \in Seq(S) /\ Append(read, c) \in Seq(S)
      /\ Len(rows) \in Nat /\ MaxSensors \in Nat \ {0} /\ Flat(rows) \in Seq(S)
  <2>1. rows \in Seq(Seq(S)) /\ item \in Seq(S)
    BY DEF CutInv
  <2>. HIDE DEF rows, item
  <2>. QED
    BY <2>1, FlatFacts, SlipInputAssumption
<1>1. CASE Len(rows) = MaxSensors
  <2>1. PICK t \in Seq(S), u \in Seq(S) :
          /\ read = t \o u /\ t # << >>
          /\ Flat(rows) \o sep = sep \o t
    <3>1. ~(Len(rows) < MaxSensors)
      BY <1>0, <1>1
    <3>. QED
      BY <3>1, Zenon DEF CutInv
  <2>2. Append(u, c) \in Seq(S) /\ Append(read, c) = t \o Append(u, c)
    <3>1. AppendsToSecond(t, u, c) /\ Append(u, c) \in Seq(S)
      BY AppendToConcat
    <3>. QED
      BY <2>1, <3>1, Zenon DEF AppendsToSecond
  <2>3. Cut(acc, c) = acc
    BY <1>1 DEF Cut
  <2>. QED
    BY <1>1, <2>1, <2>2, <2>3, Zenon DEF CutInv
<1>2. CASE Len(rows) # MaxSensors /\ c = SEMICOLON
  <2>. DEFINE more == Append(rows, item)
              new == [rows |-> more, item |-> << >>]
  <2>1. Cut(acc, c) = new
    BY <1>2 DEF Cut
  <2>2. Flat(rows) \o (sep \o item) = sep \o read
    BY <1>0, <1>2 DEF CutInv
  <2>3. Flat(more) = sep \o read
    BY <1>0, <2>2, FlatFacts
  <2>4. /\ more \in Seq(Seq(S)) /\ Len(more) = Len(rows) + 1 /\ Len(more) <= MaxSensors
        /\ \A k \in 1 .. Len(rows) : more[k] = rows[k]
        /\ more[Len(rows) + 1] = item
    <3>1. Len(rows) <= MaxSensors
      BY DEF CutInv
    <3>. HIDE DEF rows, item
    <3>. QED
      BY <1>0, <1>2, <3>1
  <2>5. \A k \in 1 .. Len(more) : SEMICOLON \notin Range(more[k])
    <3>1. /\ \A k \in 1 .. Len(rows) : SEMICOLON \notin Range(rows[k])
          /\ SEMICOLON \notin Range(item)
      BY DEF CutInv
    <3>2. \A k \in 1 .. Len(rows) + 1 : k \in 1 .. Len(rows) \/ k = Len(rows) + 1
      BY <1>0
    <3>. HIDE DEF rows, item, more
    <3>. QED
      BY <2>4, <3>1, <3>2
  <2>6. /\ << >> \in Seq(S) /\ Range(<< >>) = {} /\ sep \o << >> = sep
        /\ (sep \o read) \o sep = sep \o Append(read, c)
        /\ Append(read, c) # << >> /\ Append(read, c) = Append(read, c) \o << >>
    <3>1. << >> \in Seq(S) /\ Range(<< >>) = {} /\ sep \o << >> = sep
      BY DEF Range
    <3>2. sep = <<c>>
      BY <1>2
    <3>. HIDE DEF sep, rows, item
    <3>3. (sep \o read) \o sep = Append(sep \o read, c)
      BY <1>0, <3>2
    <3>4. (sep \o read) \o sep = sep \o Append(read, c)
      <4>1. AppendsToSecond(sep, read, c)
        BY <1>0, AppendToConcat
      <4>. QED
        BY <3>3, <4>1, Zenon DEF AppendsToSecond
    <3>5. Append(read, c) # << >> /\ Append(read, c) = Append(read, c) \o << >>
      <4>. DEFINE l == Append(read, c)
      <4>1. l \in Seq(S) /\ Len(l) = Len(read) + 1 /\ Len(read) \in Nat
        BY <1>0
      <4>. HIDE DEF l
      <4>2. l \o << >> = l /\ l # << >>
        BY <4>1
      <4>. QED
        BY <4>2 DEF l
    <3>. QED
      BY <3>1, <3>4, <3>5
  <2>7. Flat(more) \o sep = sep \o Append(read, c)
    BY <2>3, <2>6, Zenon
  <2>8. Len(more) < MaxSensors \/ Len(more) = MaxSensors
    BY <1>0, <2>4
  <2>9. new.rows = more /\ new.item = << >>
    OBVIOUS
  <2>. HIDE DEF new, more, sep
  <2>10. CutInv(S, new, Append(read, c))
    BY <1>0, <2>4, <2>5, <2>6, <2>7, <2>8, <2>9, Zenon DEF CutInv, sep
  <2>. QED
    BY <2>1, <2>10
<1>3. CASE Len(rows) # MaxSensors /\ c # SEMICOLON
  <2>. DEFINE long == Append(item, c)
              new == [rows |-> rows, item |-> long]
  <2>1. Cut(acc, c) = new
    BY <1>3 DEF Cut
  <2>2. Flat(rows) \o (sep \o item) = sep \o read
    BY <1>0, <1>3 DEF CutInv
  <2>3. long \in Seq(S) /\ SEMICOLON \notin Range(long)
    <3>1. SEMICOLON \notin Range(item)
      BY DEF CutInv
    <3>. HIDE DEF item
    <3>. QED
      BY <1>0, <1>3, <3>1 DEF Range
  <2>4. Flat(rows) \o (sep \o long) = sep \o Append(read, c)
    <3>1. Flat(rows) \o (sep \o long) = Append(Flat(rows) \o (sep \o item), c)
      <4>. HIDE DEF rows, item, sep
      <4>. QED
        BY <1>0
    <3>2. Append(sep \o read, c) = sep \o Append(read, c)
      BY <1>0
    <3>. QED
      BY <2>2, <3>1, <3>2
  <2>5. new.rows = rows /\ new.item = long
    OBVIOUS
  <2>6. /\ Len(rows) < MaxSensors /\ Len(rows) <= MaxSensors
        /\ \A k \in 1 .. Len(rows) : SEMICOLON \notin Range(rows[k])
    BY <1>0, <1>3 DEF CutInv
  <2>. HIDE DEF new, long, rows, sep
  <2>7. CutInv(S, new, Append(read, c))
    BY <1>0, <2>3, <2>4, <2>5, <2>6, Zenon DEF CutInv, sep
  <2>. QED
    BY <2>1, <2>7
<1>. QED
  BY <1>1, <1>2, <1>3

LEMMA CutsKeep ==
  ASSUME NEW S, SEMICOLON \in S, NEW items \in Seq(S)
  PROVE  CutInv(S, Cuts(items), items)
<1>1. PICK cut : CutWalk(cut, items) /\ Cuts(items) = cut[Len(items)]
  BY CutsIsWalk
<1>. DEFINE Read(n) == SubSeq(items, 1, n)
            T == {n \in Nat : n <= Len(items) => CutInv(S, cut[n], Read(n))}
<1>2. Len(items) \in Nat
  OBVIOUS
<1>3. 0 \in T
  <2>1. cut[0] = NoCuts /\ Read(0) = << >>
    BY <1>1 DEF CutWalk
  <2>2. /\ NoCuts.rows = << >> /\ NoCuts.item = << >>
        /\ << >> \in Seq(S) /\ << >> \in Seq(Seq(S)) /\ Len(<< >>) = 0
        /\ Range(<< >>) = {} /\ 1 .. 0 = {}
    BY DEF NoCuts, Range
  <2>3. 0 < MaxSensors /\ 0 <= MaxSensors
    BY SlipInputAssumption
  <2>4. Flat(<< >>) \o (<<SEMICOLON>> \o << >>) = <<SEMICOLON>> \o << >>
    <3>1. Flat(<< >>) = << >>
      BY <2>2, FlatFacts
    <3>2. << >> \o (<<SEMICOLON>> \o << >>) = <<SEMICOLON>> \o << >>
      OBVIOUS
    <3>. QED
      BY <3>1, <3>2, Zenon
  <2>5. CutInv(S, NoCuts, << >>)
    BY <2>2, <2>3, <2>4, Zenon DEF CutInv
  <2>. QED
    BY <2>1, <2>5
<1>4. ASSUME NEW n \in T
      PROVE  n + 1 \in T
  <2>1. SUFFICES ASSUME n + 1 <= Len(items)
                 PROVE  CutInv(S, cut[n + 1], Read(n + 1))
    OBVIOUS
  <2>2. /\ n \in Nat /\ n <= Len(items) /\ n + 1 \in 1 .. Len(items) /\ (n + 1) - 1 = n
        /\ items[n + 1] \in S /\ CutInv(S, cut[n], Read(n))
    BY <1>2, <2>1
  <2>3. cut[n + 1] = Cut(cut[n], items[n + 1])
    BY <1>1, <2>2 DEF CutWalk
  <2>4. Read(n) \in Seq(S) /\ Read(n + 1) = Append(Read(n), items[n + 1])
    BY <2>2
  <2>. HIDE DEF Read
  <2>. QED
    BY <2>2, <2>3, <2>4, CutKeeps
<1>. HIDE DEF T
<1>5. T = Nat
  <2>1. T \in SUBSET Nat
    BY DEF T
  <2>. QED
    BY <1>3, <1>4, <2>1, SetInduction
<1>6. CutInv(S, cut[Len(items)], Read(Len(items)))
  BY <1>2, <1>5 DEF T
<1>7. Read(Len(items)) = items
  OBVIOUS
<1>. HIDE DEF Read
<1>. QED
  BY <1>1, <1>6, <1>7, Zenon

\* border_router_set_sensors cuts what it is given into its elements.
LEMMA RowsStored ==
  ASSUME NEW S, SEMICOLON \in S, NEW items \in Seq(S)
  PROVE  /\ Elements(items) \in Seq(Seq(S)) /\ Len(Elements(items)) <= MaxSensors
         /\ StoredRows(items, Elements(items))
<1>. DEFINE acc == Cuts(items)
            rows == acc.rows
            item == acc.item
            more == Append(rows, item)
            sep == <<SEMICOLON>>
<1>0. MaxSensors \in Nat \ {0} /\ sep \in Seq(S) /\ Len(items) \in Nat
  BY SlipInputAssumption
<1>1. CutInv(S, acc, items)
  BY CutsKeep
<1>. HIDE DEF acc
<1>2. /\ rows \in Seq(Seq(S)) /\ item \in Seq(S) /\ Len(rows) <= MaxSensors /\ Len(rows) \in Nat
      /\ \A k \in 1 .. Len(rows) : SEMICOLON \notin Range(rows[k])
      /\ SEMICOLON \notin Range(item)
  <2>1. rows \in Seq(Seq(S)) /\ Len(rows) <= MaxSensors
    BY <1>1 DEF CutInv
  <2>2. Len(rows) \in Nat
    BY <2>1
  <2>. QED
    BY <1>1, <2>1, <2>2 DEF CutInv
<1>. HIDE DEF rows, item
<1>3. CASE Len(rows) = MaxSensors
  <2>1. Elements(items) = rows
    BY <1>3 DEF Elements, acc, rows
  <2>2. PICK t \in Seq(S), u \in Seq(S) :
          /\ items = t \o u /\ t # << >>
          /\ Flat(rows) \o sep = sep \o t
    <3>1. ~(Len(rows) < MaxSensors)
      BY <1>0, <1>3
    <3>. QED
      BY <1>1, <3>1, Zenon DEF CutInv, rows
  <2>3. Flat(rows) \in Seq(S)
    BY <1>2, FlatFacts
  <2>4. Joined(rows) \o sep = t
    BY <2>2, <2>3, TailOfShifted DEF Joined, Flat
  <2>5. IsPrefix(t, items)
    <3>1. Len(t) <= Len(items) /\ SubSeq(t, 1, Len(t)) = t /\ SubSeq(t \o u, 1, Len(t)) = t
      BY <2>2
    <3>. QED
      BY <2>2, <3>1 DEF IsPrefix
  <2>6. rows # << >> /\ DOMAIN rows = 1 .. Len(rows)
    BY <1>0, <1>2, <1>3
  <2>. HIDE DEF sep
  <2>7. StoredRows(items, rows)
    <3>1. IsPrefix(Joined(rows) \o sep, items)
      BY <2>4, <2>5, Zenon
    <3>. QED
      BY <1>2, <1>3, <2>6, <3>1, Zenon DEF StoredRows, sep
  <2>. QED
    BY <1>2, <2>1, <2>7
<1>4. CASE Len(rows) # MaxSensors
  <2>1. Elements(items) = more
    BY <1>4 DEF Elements, acc, rows, item
  <2>2. Flat(rows) \o (sep \o item) = sep \o items
    BY <1>1, <1>4 DEF CutInv, rows, item
  <2>3. Flat(more) = sep \o items
    BY <1>2, <2>2, FlatFacts
  <2>4. Joined(more) = items
    <3>1. Tail(sep \o items) = items
      OBVIOUS
    <3>. QED
      BY <2>3, <3>1, Zenon DEF Joined, Flat
  <2>5. /\ more \in Seq(Seq(S)) /\ Len(more) = Len(rows) + 1 /\ Len(more) <= MaxSensors
        /\ \A k \in 1 .. Len(rows) : more[k] = rows[k]
        /\ more[Len(rows) + 1] = item
        /\ more # << >> /\ DOMAIN more = 1 .. Len(rows) + 1
    <3>1. /\ more \in Seq(Seq(S)) /\ Len(more) = Len(rows) + 1
          /\ \A k \in 1 .. Len(rows) : more[k] = rows[k]
          /\ more[Len(rows) + 1] = item
      BY <1>2
    <3>2. Len(rows) + 1 <= MaxSensors
      BY <1>0, <1>2, <1>4
    <3>. HIDE DEF more
    <3>3. more # << >> /\ DOMAIN more = 1 .. Len(rows) + 1
      BY <1>2, <3>1
    <3>. QED
      BY <3>1, <3>2, <3>3
  <2>6. \A k \in DOMAIN more : SEMICOLON \notin Range(more[k])
    <3>1. \A k \in 1 .. Len(rows) + 1 : k \in 1 .. Len(rows) \/ k = Len(rows) + 1
      BY <1>2
    <3>. HIDE DEF more
    <3>. QED
      BY <1>2, <2>5, <3>1
  <2>. HIDE DEF more
  <2>7. StoredRows(items, more)
    BY <2>4, <2>5, <2>6, Zenon DEF StoredRows
  <2>. QED
    BY <2>1, <2>5, <2>7
<1>. QED
  BY <1>3, <1>4

(***************************************************************************)
(* What is on the line, and how far inbuf is filled.                       *)
(***************************************************************************)
OnLine == [byte : Bytes, closes : Messages \cup {NoMessage}]

\* second is of the frame received so far, when that has a second byte.
SecondOf(buf) == Len(buf) >= 2 => second = (buf[2] = "D")

Inv == TypeOK /\ InbufInBounds /\ SecondOf(inbuf)

LEMMA SlipBytesAreBytes == SLIP_END \in Bytes /\ SLIP_ESC \in Bytes
BY DEF Bytes

LEMMA MessageFacts ==
  ASSUME NEW m \in Messages
  PROVE  /\ m.data \in Seq(Bytes) /\ m.kind \in Kinds /\ m = [kind |-> m.kind, data |-> m.data]
         /\ Len(m.data) \in Nat /\ 0 < Len(m.data) /\ Len(m.data) < InbufSize
         /\ m.kind = Kind(m.data) /\ m # NoMessage
<1>1. /\ m \in [kind : Kinds, data : Seq(Bytes)]
      /\ 0 < Len(m.data) /\ Len(m.data) < InbufSize
  BY SlipInputAssumption
<1>2. m.kind # "none"
  BY <1>1 DEF Kinds
<1>. QED
  BY <1>1, <1>2, MessagesAssumption DEF NoMessage

\* A message goes out between two SLIP_END, with its data escaped: in those
\* of a debug line there is nothing to escape.
LEMMA WireIsEscaped ==
  ASSUME NEW m \in Messages
  PROVE  /\ Wire(m) = <<SLIP_END>> \o Escaped(m.data) \o <<SLIP_END>>
         /\ Wire(m) \in Seq(Bytes)
<1>. DEFINE w == Wire(m)
            S == Bytes \cup Codes
            D == Range(m.data)
<1>1. m.data \in Seq(Bytes) /\ m.data \in Seq(D)
  BY MessageFacts DEF Range
<1>2. Wire(m) = <<SLIP_END>> \o Escaped(m.data) \o <<SLIP_END>>
  <2>1. CASE m.kind = "debug"
    <3>1. SLIP_END \notin D /\ SLIP_ESC \notin D
      BY <2>1, MessagesAssumption
    <3>2. Escaped(m.data) = m.data
      <4>. HIDE DEF D
      <4>. QED
        BY <1>1, <3>1, EscapedIsPlain
    <3>. QED
      BY <2>1, <3>2, Zenon DEF Wire
  <2>2. CASE m.kind # "debug"
    BY <2>2 DEF Wire
  <2>. QED
    BY <2>1, <2>2
<1>3. w \in Seq(S)
  <2>1. Escaped(m.data) \in Seq(S)
    BY <1>1, EscapedInSeq
  <2>2. SLIP_END \in S
    BY SlipBytesAreBytes
  <2>. HIDE DEF S
  <2>. QED
    BY <1>2, <2>1, <2>2
<1>4. \A i \in 1 .. Len(w) : w[i] \in Bytes
  <2>1. \A i \in 1 .. Len(w) : w[i] \in Range(w)
    BY <1>3 DEF Range
  <2>2. Range(w) \subseteq Bytes
    BY DEF Bytes
  <2>. QED
    BY <2>1, <2>2
<1>5. w \in Seq(Bytes)
  <2>. HIDE DEF w
  <2>. QED
    BY <1>3, <1>4
<1>. QED
  BY <1>2, <1>5

LEMMA MarkedOnLine ==
  ASSUME NEW w \in Seq(Bytes), NEW n \in Messages \cup {NoMessage}
  PROVE  /\ Marked(w, n) \in Seq(OnLine) /\ Len(Marked(w, n)) = Len(w)
         /\ \A i \in 1 .. Len(w) :
              /\ Marked(w, n)[i].byte = w[i]
              /\ Marked(w, n)[i].closes = IF i = Len(w) THEN n ELSE NoMessage
<1>1. \A i \in 1 .. Len(w) : w[i] \in Bytes
  OBVIOUS
<1>2. \A i \in 1 .. Len(w) :
        [byte |-> w[i], closes |-> IF i = Len(w) THEN n ELSE NoMessage] \in OnLine
  BY <1>1 DEF OnLine
<1>3. Len(w) \in Nat
  OBVIOUS
<1>4. \A i \in 1 .. Len(w) :
        /\ Marked(w, n)[i].byte = w[i]
        /\ Marked(w, n)[i].closes = IF i = Len(w) THEN n ELSE NoMessage
  BY <1>3 DEF Marked
<1>5. Marked(w, n) \in Seq(OnLine) /\ Len(Marked(w, n)) = Len(w)
  <2>. HIDE DEF OnLine
  <2>. QED
    BY <1>2, <1>3 DEF Marked
<1>. QED
  BY <1>4, <1>5

\* What arrives: the whole message, or all of it but one byte.
LEMMA SentBytes ==
  ASSUME Inv, NEW m \in Messages, Send(m) \/ SendLosing(m)
  PROVE  Inv'
<1>1. ASSUME NEW bytes \in Seq(OnLine), Arrives(bytes)
      PROVE  Inv'
  <2>1. line' \in Seq(OnLine)
    BY <1>1 DEF Inv, TypeOK, Arrives, OnLine
  <2>2. UNCHANGED <<phase, inbuf, second, sensors, count, wild, verbose>>
    BY <1>1 DEF Arrives
  <2>. QED
    BY <2>1, <2>2 DEF Inv, TypeOK, InbufInBounds, OnLine, SecondOf
<1>2. CASE Send(m)
  <2>1. Marked(Wire(m), m) \in Seq(OnLine)
    BY WireIsEscaped, MarkedOnLine
  <2>. QED
    BY <1>1, <1>2, <2>1 DEF Send
<1>3. CASE SendLosing(m)
  <2>1. PICK i \in DOMAIN Wire(m) : Arrives(Marked(RemoveAt(Wire(m), i), NoMessage))
    BY <1>3 DEF SendLosing
  <2>2. RemoveAt(Wire(m), i) \in Seq(Bytes)
    BY WireIsEscaped DEF RemoveAt
  <2>3. Marked(RemoveAt(Wire(m), i), NoMessage) \in Seq(OnLine)
    BY <2>2, MarkedOnLine
  <2>. QED
    BY <1>1, <2>1, <2>3
<1>. QED
  BY <1>2, <1>3

\* The rows that the data of the radio is cut into.
LEMMA RowsOfBytes ==
  ASSUME NEW items \in Seq(Bytes)
  PROVE  /\ Elements(items) \in Seq(Seq(Bytes)) /\ Len(Elements(items)) <= MaxSensors
         /\ StoredRows(items, Elements(items))
<1>. DEFINE S == Bytes \cup {SEMICOLON}
            rows == Elements(items)
<1>1. items \in Seq(S) /\ SEMICOLON \in S
  OBVIOUS
<1>2. rows \in Seq(Seq(S)) /\ Len(rows) <= MaxSensors /\ StoredRows(items, rows)
  <2>. HIDE DEF S
  <2>. QED
    BY <1>1, RowsStored
<1>. HIDE DEF rows
<1>3. ASSUME NEW k \in 1 .. Len(rows)
      PROVE  rows[k] \in Seq(Bytes)
  <2>. DEFINE r == rows[k]
  <2>1. r \in Seq(S) /\ k \in DOMAIN rows
    BY <1>2
  <2>2. SEMICOLON \notin Range(r)
    BY <1>2, <2>1 DEF StoredRows
  <2>. HIDE DEF r
  <2>3. \A i \in 1 .. Len(r) : r[i] \in Bytes
    BY <2>1, <2>2 DEF Range
  <2>. QED
    BY <2>1, <2>3 DEF r
<1>4. rows \in Seq(Seq(Bytes))
  <2>. DEFINE C == Seq(Bytes)
              D == Seq(S)
  <2>1. rows \in Seq(D) /\ \A k \in 1 .. Len(rows) : rows[k] \in C
    BY <1>2, <1>3
  <2>. HIDE DEF C, D
  <2>2. rows \in Seq(C)
    BY <2>1
  <2>. QED
    BY <2>2 DEF C
<1>. QED
  BY <1>2, <1>4 DEF rows

\* Where the rows lie.
LEMMA RowsInOrder ==
  ASSUME NEW j \in Nat, NEW k \in Nat, j < k, k <= MaxSensors
  PROVE  /\ RowAt(j) \in Int /\ RowAt(k) \in Int
         /\ RowAt(j) + RowSize <= RowAt(k)
         /\ RowAt(k) + RowSize <= MaxSensors * RowSize
<1>. DEFINE R == RowSize
            M == MaxSensors
<1>1. R \in Nat /\ M \in Nat
  BY SlipInputAssumption
<1>2. \A a, b \in Int : a <= b => a * R <= b * R
  BY <1>1
<1>3. \A a \in Int : a * R \in Int /\ (a - 1) * R + R = a * R
  BY <1>1
<1>. HIDE DEF R, M
<1>4. j <= k - 1 /\ j \in Int /\ k - 1 \in Int /\ k \in Int /\ j - 1 \in Int
  OBVIOUS
<1>5. j * R <= (k - 1) * R /\ k * R <= M * R
  BY <1>1, <1>2, <1>4 DEF M
<1>6. (j - 1) * R + R = j * R /\ (k - 1) * R + R = k * R
  BY <1>3, <1>4
<1>7. RowAt(j) = (j - 1) * R /\ RowAt(k) = (k - 1) * R
  BY DEF RowAt, R
<1>8. MaxSensors * RowSize = M * R /\ RowSize = R
  BY DEF M, R
<1>. QED
  BY <1>3, <1>4, <1>5, <1>6, <1>7, <1>8

\* An element that fits leaves the cells of the rows behind it alone.
LEMMA RowEnds ==
  ASSUME NEW k \in Nat, 1 <= k, k <= MaxSensors
  PROVE  /\ RowAt(k) \in Nat /\ RowAt(k) + RowSize <= MaxSensors * RowSize
         /\ RowSize \in Nat /\ MaxSensors * RowSize \in Nat
<1>1. 0 < k /\ 0 \in Nat /\ RowSize \in Nat /\ MaxSensors \in Nat
  BY SlipInputAssumption
<1>2. RowAt(k) \in Int /\ RowAt(0) + RowSize <= RowAt(k)
      /\ RowAt(k) + RowSize <= MaxSensors * RowSize
  BY <1>1, RowsInOrder
<1>3. RowAt(0) + RowSize = 0
  BY <1>1 DEF RowAt
<1>4. MaxSensors * RowSize \in Nat
  BY <1>1
<1>. QED
  BY <1>1, <1>2, <1>3, <1>4

\* Of the rows that cover a cell one is the last.
Latest(rows, c, k) ==
  /\ k \in DOMAIN rows /\ Covers(rows, k, c)
  /\ \A j \in DOMAIN rows : Covers(rows, j, c) => j <= k

LEMMA LatestExists ==
  ASSUME NEW S, NEW rows \in Seq(S), NEW c, \E k \in DOMAIN rows : Covers(rows, k, c)
  PROVE  \E k : Latest(rows, c, k)
<1>. DEFINE N == Len(rows)
            T == {n \in Nat : n <= N /\ N - n \in DOMAIN rows /\ Covers(rows, N - n, c)}
<1>1. N \in Nat /\ DOMAIN rows = 1 .. N
  OBVIOUS
<1>2. PICK k \in DOMAIN rows : Covers(rows, k, c)
  OBVIOUS
<1>. HIDE DEF N
<1>3. N - k \in Nat /\ N - k <= N /\ N - (N - k) = k
  BY <1>1
<1>4. N - k \in T
  BY <1>2, <1>3
<1>5. PICK x \in T : \A y \in T : x <= y
  <2>1. T \in SUBSET Nat
    OBVIOUS
  <2>. HIDE DEF T
  <2>. QED
    BY <1>4, <2>1, LeastElement
<1>6. ASSUME NEW j \in DOMAIN rows, Covers(rows, j, c)
      PROVE  j <= N - x
  <2>1. j \in Nat /\ N - j \in Nat /\ N - j <= N /\ N - (N - j) = j
    BY <1>1
  <2>2. x <= N - j /\ x \in Nat
    BY <1>5, <1>6, <2>1
  <2>. QED
    BY <1>1, <2>1, <2>2
<1>. QED
  BY <1>5, <1>6, Zenon DEF Latest

LEMMA WrittenIsLatest ==
  ASSUME NEW S, NEW rows \in Seq(S), NEW c, \E k \in DOMAIN rows : Covers(rows, k, c)
  PROVE  \E k : /\ Latest(rows, c, k)
                /\ Written(rows, c) = IF c - RowAt(k) <= Len(rows[k]) THEN rows[k][c - RowAt(k)]
                                                                      ELSE NUL
<1>. DEFINE k == CHOOSE k \in DOMAIN rows :
                   Covers(rows, k, c) /\ \A j \in DOMAIN rows : Covers(rows, j, c) => j <= k
<1>1. Latest(rows, c, k)
  <2>1. \E n \in DOMAIN rows :
          Covers(rows, n, c) /\ \A j \in DOMAIN rows : Covers(rows, j, c) => j <= n
    BY LatestExists, Zenon DEF Latest
  <2>. QED
    BY <2>1, Zenon DEF Latest
<1>2. Written(rows, c) = IF c - RowAt(k) <= Len(rows[k]) THEN rows[k][c - RowAt(k)] ELSE NUL
  BY Zenon DEF Written
<1>. QED
  BY <1>1, <1>2, Zenon

Memory ==
  /\ sensors \in [Cells -> Bytes \cup {NUL}] /\ count \in 0 .. MaxSensors /\ wild \in BOOLEAN

\* What is stored are bytes of the elements and the NULs behind them.
LEMMA SetInMemory ==
  ASSUME Memory, NEW items \in Seq(Bytes), SetSensors(items)
  PROVE  Memory'
<1>. DEFINE rows == Elements(items)
<1>1. rows \in Seq(Seq(Bytes)) /\ Len(rows) <= MaxSensors
  BY RowsOfBytes
<1>2. /\ count' = Len(rows) /\ wild' = Overflows(rows)
      /\ sensors' = [c \in Cells |->
                       IF \E k \in DOMAIN rows : Covers(rows, k, c) THEN Written(rows, c)
                                                                    ELSE sensors[c]]
  BY Zenon DEF SetSensors
<1>. HIDE DEF rows
<1>3. ASSUME NEW c \in Cells, \E k \in DOMAIN rows : Covers(rows, k, c)
      PROVE  Written(rows, c) \in Bytes \cup {NUL}
  <2>1. PICK k : /\ Latest(rows, c, k)
                 /\ Written(rows, c) = IF c - RowAt(k) <= Len(rows[k]) THEN rows[k][c - RowAt(k)]
                                                                       ELSE NUL
    <3>. DEFINE D == Seq(Bytes)
    <3>. HIDE DEF D
    <3>1. rows \in Seq(D)
      BY <1>1 DEF D
    <3>. QED
      BY <1>3, <3>1, WrittenIsLatest
  <2>2. k \in 1 .. Len(rows) /\ Covers(rows, k, c)
    BY <1>1, <2>1 DEF Latest
  <2>3. rows[k] \in Seq(Bytes) /\ Len(rows[k]) \in Nat /\ k \in Nat /\ 1 <= k /\ k <= MaxSensors
    <3>1. rows[k] \in Seq(Bytes) /\ Len(rows) \in Nat
      BY <1>1, <2>2
    <3>2. MaxSensors \in Nat
      BY SlipInputAssumption
    <3>. QED
      BY <1>1, <2>2, <3>1, <3>2
  <2>4. RowAt(k) \in Nat
    BY <2>3, RowEnds
  <2>5. c - RowAt(k) \in 1 .. Len(rows[k]) + 1
    BY <2>2, <2>3, <2>4 DEF Covers
  <2>6. c - RowAt(k) <= Len(rows[k]) => rows[k][c - RowAt(k)] \in Bytes
    BY <2>3, <2>5
  <2>. QED
    BY <2>1, <2>6
<1>4. sensors' \in [Cells -> Bytes \cup {NUL}]
  BY <1>2, <1>3 DEF Memory
<1>5. count' \in 0 .. MaxSensors
  <2>1. Len(rows) \in Nat /\ MaxSensors \in Nat
    BY <1>1, SlipInputAssumption
  <2>. QED
    BY <1>1, <1>2, <2>1
<1>6. wild' \in BOOLEAN
  BY <1>2 DEF Overflows
<1>. QED
  BY <1>4, <1>5, <1>6 DEF Memory

\* Every element that fits its row is in it.
LEMMA FittingRowHolds ==
  ASSUME NEW items \in Seq(Bytes), SetSensors(items),
         NEW k \in DOMAIN Elements(items), Len(Elements(items)[k]) < RowSize
  PROVE  RowHolds(sensors', k, Elements(items)[k])
<1>. DEFINE rows == Elements(items)
            n == Len(rows[k])
<1>1. rows \in Seq(Seq(Bytes)) /\ Len(rows) <= MaxSensors
  BY RowsOfBytes
<1>2. sensors' = [c \in Cells |->
                    IF \E j \in DOMAIN rows : Covers(rows, j, c) THEN Written(rows, c)
                                                                 ELSE sensors[c]]
  BY Zenon DEF SetSensors
<1>3. k \in DOMAIN rows /\ Len(rows[k]) < RowSize
  OBVIOUS
<1>. HIDE DEF rows
<1>4. /\ n \in Nat /\ k \in Nat /\ 1 <= k /\ k <= MaxSensors /\ n < RowSize
      /\ DOMAIN rows = 1 .. Len(rows) /\ Len(rows) \in Nat /\ MaxSensors \in Nat
      /\ rows[k] \in Seq(Bytes)
  <2>1. rows[k] \in Seq(Bytes) /\ DOMAIN rows = 1 .. Len(rows) /\ Len(rows) \in Nat
    BY <1>1, <1>3
  <2>2. n \in Nat /\ MaxSensors \in Nat
    BY <2>1, SlipInputAssumption
  <2>. QED
    BY <1>1, <1>3, <2>1, <2>2
<1>5. /\ RowAt(k) \in Nat /\ RowAt(k) + RowSize <= MaxSensors * RowSize
      /\ RowSize \in Nat /\ MaxSensors * RowSize \in Nat
  BY <1>4, RowEnds
<1>6. ASSUME NEW i \in 1 .. n + 1
      PROVE  sensors'[RowAt(k) + i] = IF i <= n THEN rows[k][i] ELSE NUL
  <2>. DEFINE c == RowAt(k) + i
  <2>1. c \in Cells /\ Covers(rows, k, c) /\ c - RowAt(k) = i
    BY <1>4, <1>5 DEF Cells, Covers
  <2>2. \E j \in DOMAIN rows : Covers(rows, j, c)
    BY <1>3, <2>1
  <2>3. sensors'[c] = Written(rows, c)
    BY <1>2, <2>1, <2>2
  <2>4. PICK m : /\ Latest(rows, c, m)
                 /\ Written(rows, c) = IF c - RowAt(m) <= Len(rows[m]) THEN rows[m][c - RowAt(m)]
                                                                       ELSE NUL
    <3>. DEFINE D == Seq(Bytes)
    <3>. HIDE DEF D, c
    <3>1. rows \in Seq(D)
      BY <1>1 DEF D
    <3>. QED
      BY <2>2, <3>1, WrittenIsLatest
  <2>5. m \in DOMAIN rows /\ Covers(rows, m, c) /\ k <= m
    BY <1>3, <2>1, <2>4 DEF Latest
  <2>6. ~(k < m)
    <3>. SUFFICES ASSUME k < m PROVE FALSE
      OBVIOUS
    <3>1. m \in Nat /\ m <= MaxSensors
      BY <1>1, <1>4, <2>5
    <3>2. RowAt(m) \in Int /\ RowAt(k) + RowSize <= RowAt(m)
      BY <1>4, <3>1, RowsInOrder
    <3>3. c >= RowAt(m) + 1
      <4>. DEFINE l == Len(rows[m])
      <4>1. c \in RowAt(m) + 1 .. RowAt(m) + l + 1
        BY <2>5 DEF Covers
      <4>2. l \in Nat
        <5>1. rows[m] \in Seq(Bytes)
          BY <1>1, <2>5
        <5>. QED
          BY <5>1
      <4>. HIDE DEF l, c
      <4>. QED
        BY <3>2, <4>1, <4>2
    <3>4. c <= RowAt(k) + n + 1 /\ c \in Nat /\ n \in Nat /\ n < RowSize
      BY <1>4, <1>5
    <3>. HIDE DEF c, n
    <3>. QED
      BY <1>5, <3>2, <3>3, <3>4
  <2>7. m = k
    BY <1>4, <2>5, <2>6
  <2>. QED
    BY <2>1, <2>3, <2>4, <2>7
<1>7. \A i \in 1 .. n : i \in 1 .. n + 1 /\ i <= n
  BY <1>4
<1>8. n + 1 \in 1 .. n + 1 /\ ~(n + 1 <= n) /\ RowAt(k) + (n + 1) = RowAt(k) + n + 1
  <2>1. n \in Nat /\ RowAt(k) \in Nat
    BY <1>4, <1>5
  <2>. HIDE DEF n
  <2>. QED
    BY <2>1
<1>9. DOMAIN rows[k] = 1 .. n
  BY <1>4
<1>10. /\ \A i \in DOMAIN rows[k] : sensors'[RowAt(k) + i] = rows[k][i]
       /\ sensors'[RowAt(k) + n + 1] = NUL
  BY <1>6, <1>7, <1>8, <1>9
<1>. QED
  BY <1>10 DEF RowHolds, rows

\* Nothing is written behind the array when every element fits.
LEMMA FittingStays ==
  ASSUME NEW items \in Seq(Bytes), Overflows(Elements(items))
  PROVE  \E k \in DOMAIN Elements(items) : Len(Elements(items)[k]) >= RowSize
<1>. DEFINE rows == Elements(items)
<1>1. rows \in Seq(Seq(Bytes)) /\ Len(rows) <= MaxSensors
  BY RowsOfBytes
<1>2. PICK k \in DOMAIN rows : RowAt(k) + Len(rows[k]) + 1 > MaxSensors * RowSize
  BY DEF Overflows
<1>. HIDE DEF rows
<1>3. rows[k] \in Seq(Bytes) /\ k \in 1 .. Len(rows) /\ Len(rows) \in Nat /\ MaxSensors \in Nat
  BY <1>1, SlipInputAssumption
<1>4. Len(rows[k]) \in Nat /\ k \in Nat /\ 1 <= k /\ k <= MaxSensors
  BY <1>1, <1>3
<1>5. /\ RowAt(k) \in Nat /\ RowAt(k) + RowSize <= MaxSensors * RowSize
      /\ RowSize \in Nat /\ MaxSensors * RowSize \in Nat
  BY <1>4, RowEnds
<1>6. Len(rows[k]) >= RowSize
  BY <1>2, <1>4, <1>5
<1>. QED
  BY <1>6 DEF rows

\* A turn of the loop in serial_input with room for one byte more.
LEMMA StoreKeeps ==
  ASSUME Memory, NEW buf \in Seq(Bytes), Len(buf) < InbufSize, SecondOf(buf), second \in BOOLEAN,
         NEW byte \in Bytes, Store(buf, byte)
  PROVE  /\ inbuf' \in Seq(Bytes) /\ Len(inbuf') <= InbufSize
         /\ second' \in BOOLEAN /\ SecondOf(inbuf)' /\ Memory'
<1>. DEFINE full == Append(buf, byte)
<1>1. InbufSize \in Nat \ {0}
  BY SlipInputAssumption
<1>2. << >> \in Seq(Bytes) /\ Len(<< >>) = 0
  OBVIOUS
<1>3. /\ full \in Seq(Bytes) /\ Len(full) = Len(buf) + 1 /\ Len(buf) \in Nat
      /\ \A i \in 1 .. Len(buf) : full[i] = buf[i]
      /\ full[Len(buf) + 1] = byte
  OBVIOUS
<1>4. /\ inbuf' = << >> \/ inbuf' = full
      /\ second' = IF Len(full) = 2 THEN byte = "D" ELSE second
      /\ UNCHANGED <<sensors, count, wild>>
  BY DEF Store
<1>. HIDE DEF full
<1>5. Len(full) <= InbufSize /\ 0 <= InbufSize
  BY <1>1, <1>3
<1>6. second' \in BOOLEAN
  <2>1. CASE Len(full) = 2
    BY <1>4, <2>1, Zenon
  <2>2. CASE Len(full) # 2
    BY <1>4, <2>2, Zenon
  <2>. QED
    BY <2>1, <2>2
<1>7. Len(full) >= 2 => second' = (full[2] = "D")
  <2>1. CASE Len(full) = 2
    <3>1. full[2] = byte
      BY <1>3, <2>1
    <3>. QED
      BY <1>4, <2>1, <3>1, Zenon
  <2>2. CASE Len(full) > 2
    <3>1. Len(buf) >= 2 /\ full[2] = buf[2] /\ Len(full) # 2
      BY <1>3, <2>2
    <3>2. second = (buf[2] = "D")
      BY <3>1 DEF SecondOf
    <3>. QED
      BY <1>4, <3>1, <3>2, Zenon
  <2>. QED
    BY <1>3, <2>1, <2>2
<1>8. SecondOf(inbuf)'
  <2>1. CASE inbuf' = << >>
    <3>1. ~(Len(inbuf') >= 2)
      BY <1>2, <2>1
    <3>. QED
      BY <3>1, Zenon DEF SecondOf
  <2>2. CASE inbuf' = full
    BY <1>7, <2>2, Zenon DEF SecondOf
  <2>. QED
    BY <1>4, <2>1, <2>2
<1>9. Memory'
  BY <1>4 DEF Memory
<1>. QED
  BY <1>2, <1>3, <1>4, <1>5, <1>6, <1>8, <1>9

LEMMA EndKeeps ==
  ASSUME Memory, NEW buf \in Seq(Bytes), second \in BOOLEAN, EndOfFrame(buf)
  PROVE  /\ inbuf' \in Seq(Bytes) /\ Len(inbuf') <= InbufSize
         /\ second' \in BOOLEAN /\ SecondOf(inbuf)' /\ Memory'
<1>1. inbuf' = << >> /\ second' = second
  BY DEF EndOfFrame
<1>2. << >> \in Seq(Bytes) /\ Len(<< >>) <= InbufSize /\ ~(Len(<< >>) >= 2)
  BY SlipInputAssumption
<1>3. SecondOf(inbuf)'
  <2>1. ~(Len(inbuf') >= 2)
    BY <1>1, <1>2
  <2>. QED
    BY <2>1, Zenon DEF SecondOf
<1>4. Memory'
  <2>1. CASE UNCHANGED <<sensors, count, wild>>
    BY <2>1 DEF Memory
  <2>2. CASE wild' = TRUE /\ UNCHANGED <<sensors, count>>
    BY <2>2 DEF Memory
  <2>3. CASE SetSensors(SubSeq(buf, 3, Len(buf)))
    <3>1. SubSeq(buf, 3, Len(buf)) \in Seq(Bytes)
      OBVIOUS
    <3>. QED
      BY <2>3, <3>1, SetInMemory
  <2>4. \/ UNCHANGED <<sensors, count, wild>>
        \/ wild' = TRUE /\ UNCHANGED <<sensors, count>>
        \/ SetSensors(SubSeq(buf, 3, Len(buf)))
    BY Zenon DEF EndOfFrame, HandleSensorData
  <2>. QED
    BY <2>1, <2>2, <2>3, <2>4
<1>. QED
  BY <1>1, <1>2, <1>3, <1>4

LEMMA TurnKeeps ==
  ASSUME Inv, NEW buf \in Seq(Bytes), Len(buf) < InbufSize, SecondOf(buf), Turn(buf)
  PROVE  Inv'
<1>0. /\ line \in Seq(OnLine) /\ InbufSize \in Nat \ {0}
      /\ \A k \in 1 .. Len(line) : line[k].byte \in Bytes
      /\ Memory /\ second \in BOOLEAN /\ verbose' \in Verbosities
  <2>1. line \in Seq(OnLine)
    BY DEF Inv, TypeOK, OnLine
  <2>2. \A k \in 1 .. Len(line) : line[k] \in OnLine
    BY <2>1
  <2>3. \A e \in OnLine : e.byte \in Bytes
    BY DEF OnLine
  <2>4. InbufSize \in Nat \ {0}
    BY SlipInputAssumption
  <2>. QED
    BY <2>1, <2>2, <2>3, <2>4 DEF Inv, TypeOK, Turn, Memory
<1>1. ASSUME line' \in Seq(OnLine), phase' = "more",
             inbuf' \in Seq(Bytes), Len(inbuf') <= InbufSize,
             second' \in BOOLEAN, SecondOf(inbuf)', Memory'
      PROVE  Inv'
  BY <1>0, <1>1 DEF Inv, TypeOK, InbufInBounds, OnLine, Memory
<1>2. CASE Plain(buf)
  <2>1. line[1].byte \in Bytes /\ line' \in Seq(OnLine) /\ phase' = "more"
    BY <1>0, <1>2 DEF Plain
  <2>2. EndOfFrame(buf) \/ Store(buf, line[1].byte)
    BY <1>2 DEF Plain
  <2>3. CASE EndOfFrame(buf)
    BY <1>0, <1>1, <2>1, <2>3, EndKeeps
  <2>4. CASE Store(buf, line[1].byte)
    BY <1>0, <1>1, <2>1, <2>4, StoreKeeps
  <2>. QED
    BY <2>2, <2>3, <2>4
<1>3. CASE EscapedByte(buf)
  <2>1. line[2].byte \in Bytes /\ line' \in Seq(OnLine) /\ phase' = "more"
    BY <1>0, <1>3 DEF EscapedByte
  <2>2. Unescape(line[2].byte) \in Bytes
    <3>1. Unescape(line[2].byte) \in {SLIP_END, SLIP_ESC, line[2].byte}
      BY DEF Unescape
    <3>. QED
      BY <2>1, <3>1, SlipBytesAreBytes
  <2>3. Store(buf, Unescape(line[2].byte))
    BY <1>3 DEF EscapedByte
  <2>. QED
    BY <1>0, <1>1, <2>1, <2>2, <2>3, StoreKeeps
<1>4. CASE GiveBack(buf)
  <2>1. /\ line' = line /\ phase' = "idle" /\ inbuf' = buf
        /\ UNCHANGED <<second, sensors, count, wild>>
    BY <1>4 DEF GiveBack
  <2>2. SecondOf(inbuf)'
    BY <2>1, Zenon DEF SecondOf
  <2>3. Memory' /\ Len(buf) <= InbufSize
    BY <1>0, <2>1 DEF Memory
  <2>. QED
    BY <1>0, <2>1, <2>2, <2>3 DEF Inv, TypeOK, InbufInBounds, OnLine, Memory
<1>. QED
  BY <1>2, <1>3, <1>4 DEF Turn

\* Room is what Call and ReadMore store into.
LEMMA RoomIsLeft ==
  ASSUME Inv
  PROVE  /\ Room \in Seq(Bytes) /\ Len(Room) < InbufSize
         /\ phase = "idle" => inbuf \in Seq(Bytes) /\ Len(inbuf) < InbufSize
         /\ Len(inbuf) < InbufSize => Room = inbuf
         /\ SecondOf(Room) /\ SecondOf(inbuf)
<1>1. inbuf \in Seq(Bytes) /\ InbufSize \in Nat \ {0} /\ SecondOf(inbuf)
  BY SlipInputAssumption DEF Inv, TypeOK
<1>2. ~(Len(<< >>) >= 2)
  OBVIOUS
<1>3. SecondOf(<< >>)
  BY <1>2, Zenon DEF SecondOf
<1>4. SecondOf(Room)
  <2>1. Room = << >> \/ Room = inbuf
    BY DEF Room
  <2>. QED
    BY <1>1, <1>3, <2>1, Zenon
<1>. QED
  BY <1>1, <1>4 DEF Room, Inv, InbufInBounds

LEMMA InvKept == Inv /\ [Next]_vars => Inv'
<1>. SUFFICES ASSUME Inv, [Next]_vars PROVE Inv'
  OBVIOUS
<1>1. ASSUME NEW m \in Messages, Send(m) \/ SendLosing(m)
      PROVE  Inv'
  BY <1>1, SentBytes
<1>2. CASE Call
  BY <1>2, RoomIsLeft, TurnKeeps DEF Call
<1>3. CASE ReadMore
  BY <1>3, RoomIsLeft, TurnKeeps DEF ReadMore
<1>4. CASE EndOfInput
  <2>1. /\ phase' = "idle" /\ inbuf' = Room
        /\ UNCHANGED <<line, second, sensors, count, wild, verbose>>
    BY <1>4 DEF EndOfInput
  <2>2. /\ Room \in Seq(Bytes) /\ Len(Room) < InbufSize /\ Len(Room) <= InbufSize
        /\ SecondOf(Room)
    BY RoomIsLeft, SlipInputAssumption
  <2>3. SecondOf(inbuf)'
    BY <2>1, <2>2, Zenon DEF SecondOf
  <2>. QED
    BY <2>1, <2>2, <2>3 DEF Inv, TypeOK, InbufInBounds
<1>5. CASE UNCHANGED vars
  BY <1>5 DEF vars, Inv, TypeOK, InbufInBounds, SecondOf
<1>. QED
  BY <1>1, <1>2, <1>3, <1>4, <1>5 DEF Next, Radio, Host

LEMMA InvHolds == Spec => []Inv
<1>1. Init => Inv
  <2>. SUFFICES ASSUME Init PROVE Inv
    OBVIOUS
  <2>1. /\ inbuf = << >> /\ Len(<< >>) = 0 /\ ~(0 >= 2)
        /\ InbufSize \in Nat \ {0} /\ MaxSensors \in Nat
    BY SlipInputAssumption DEF Init
  <2>2. SecondOf(inbuf)
    BY <2>1 DEF SecondOf
  <2>3. InbufInBounds
    BY <2>1 DEF InbufInBounds
  <2>4. count \in 0 .. MaxSensors /\ sensors \in [Cells -> Bytes \cup {NUL}]
    BY <2>1 DEF Init
  <2>5. TypeOK
    <3>1. line \in Seq(OnLine) /\ inbuf \in Seq(Bytes)
      BY DEF Init
    <3>2. second \in BOOLEAN /\ wild \in BOOLEAN
      BY DEF Init
    <3>3. phase \in {"idle", "more"} /\ verbose \in Verbosities
      BY DEF Init
    <3>. QED
      BY <2>4, <3>1, <3>2, <3>3, Zenon DEF TypeOK, OnLine
  <2>. QED
    BY <2>2, <2>3, <2>5 DEF Inv
<1>. QED
  BY <1>1, InvKept, PTL DEF Spec

\* What is on the line and in inbuf is bytes, the page has no more than
\* MaxSensors rows, and nothing changes what -v has set.
THEOREM TypeCorrect == Spec => []TypeOK
<1>1. Inv => TypeOK
  BY DEF Inv
<1>. QED
  BY <1>1, InvHolds, PTL

\* serial_input never stores behind the end of inbuf, although on Linux the
\* first byte of each call goes round the test at read_more: the call before
\* has left room, by whichever of its two returns it ended.
THEOREM Bounded == Spec => []InbufInBounds
<1>1. Inv => InbufInBounds
  BY DEF Inv
<1>. QED
  BY <1>1, InvHolds, PTL

(***************************************************************************)
(* The rows of the web page.                                               *)
(***************************************************************************)
SensorsStep ==
  LET frame == handled'.data IN
  IF Len(frame) >= 2 /\ frame[1] = "!" /\ frame[2] = "D"
  THEN /\ StoredRows(SubSeq(frame, 3, Len(frame)), Rows(frame))
       /\ count' = Len(Rows(frame))
       /\ \A k \in DOMAIN Rows(frame) :
            Len(Rows(frame)[k]) < RowSize => RowHolds(sensors', k, Rows(frame)[k])
       /\ wild' => \E k \in DOMAIN Rows(frame) : Len(Rows(frame)[k]) >= RowSize
  ELSE /\ UNCHANGED <<sensors, count>>
       /\ wild' => frame = <<"!">>

LEMMA NothingHandled ==
  ASSUME ~wild, handled' = NoMessage, UNCHANGED <<sensors, count, wild>>
  PROVE  SensorsStep
<1>1. handled'.data = << >> /\ ~(Len(<< >>) >= 2)
  BY DEF NoMessage
<1>. QED
  BY <1>1, Zenon DEF SensorsStep

LEMMA EndStores ==
  ASSUME ~wild, NEW buf \in Seq(Bytes), buf # << >>, SecondOf(buf), EndOfFrame(buf)
  PROVE  SensorsStep
<1>. DEFINE items == SubSeq(buf, 3, Len(buf))
<1>1. handled'.data = buf
  BY DEF EndOfFrame
<1>2. Len(buf) \in Nat /\ Len(buf) >= 1 /\ items \in Seq(Bytes)
  OBVIOUS
<1>3. Rows(buf) = Elements(items)
  BY DEF Rows
<1>. HIDE DEF items
<1>4. CASE Len(buf) >= 2 /\ buf[1] = "!" /\ buf[2] = "D"
  <2>1. IsSensorData(buf) /\ Len(buf) # 1
    <3>1. second
      BY <1>4, Zenon DEF SecondOf
    <3>2. Len(buf) # 1
      BY <1>4
    <3>. QED
      BY <1>4, <3>1, <3>2, Zenon DEF IsSensorData
  <2>2. SetSensors(items)
    BY <2>1, Zenon DEF EndOfFrame, HandleSensorData, items
  <2>3. StoredRows(items, Elements(items))
    BY <1>2, RowsOfBytes
  <2>4. count' = Len(Elements(items)) /\ wild' = Overflows(Elements(items))
    BY <2>2, Zenon DEF SetSensors
  <2>5. \A k \in DOMAIN Elements(items) :
          Len(Elements(items)[k]) < RowSize => RowHolds(sensors', k, Elements(items)[k])
    BY <1>2, <2>2, FittingRowHolds
  <2>6. wild' => \E k \in DOMAIN Elements(items) : Len(Elements(items)[k]) >= RowSize
    BY <1>2, <2>4, FittingStays
  <2>. QED
    BY <1>1, <1>3, <1>4, <2>3, <2>4, <2>5, <2>6, Zenon DEF SensorsStep, items
<1>5. CASE ~(Len(buf) >= 2 /\ buf[1] = "!" /\ buf[2] = "D")
  <2>1. IsSensorData(buf) => buf = <<"!">>
    <3>. SUFFICES ASSUME IsSensorData(buf) PROVE buf = <<"!">>
      OBVIOUS
    <3>1. buf[1] = "!" /\ second
      BY Zenon DEF IsSensorData
    <3>2. ~(Len(buf) >= 2)
      BY <1>5, <3>1, Zenon DEF SecondOf
    <3>. QED
      BY <1>2, <3>1, <3>2
  <2>2. CASE IsSensorData(buf)
    <3>1. Len(buf) = 1
      BY <2>1, <2>2
    <3>2. UNCHANGED <<sensors, count>>
      BY <2>2, <3>1, Zenon DEF EndOfFrame, HandleSensorData
    <3>. QED
      BY <1>1, <1>5, <2>1, <2>2, <3>2, Zenon DEF SensorsStep
  <2>3. CASE ~IsSensorData(buf)
    <3>1. UNCHANGED <<sensors, count, wild>>
      BY <2>3, Zenon DEF EndOfFrame
    <3>2. ~wild'
      BY <3>1, Zenon
    <3>. QED
      BY <1>1, <1>5, <3>1, <3>2, Zenon DEF SensorsStep
  <2>. QED
    BY <2>2, <2>3
<1>. QED
  BY <1>4, <1>5

LEMMA TurnStores ==
  ASSUME ~wild, NEW buf \in Seq(Bytes), SecondOf(buf), Turn(buf)
  PROVE  SensorsStep
<1>1. ASSUME NEW byte, Store(buf, byte)
      PROVE  SensorsStep
  BY <1>1, NothingHandled DEF Store
<1>2. CASE EndOfFrame(buf)
  <2>1. CASE buf = << >>
    <3>1. ~IsSensorData(buf)
      BY <2>1 DEF IsSensorData
    <3>. QED
      BY <1>2, <2>1, <3>1, NothingHandled DEF EndOfFrame
  <2>2. CASE buf # << >>
    BY <1>2, <2>2, EndStores
  <2>. QED
    BY <2>1, <2>2
<1>3. CASE Plain(buf)
  BY <1>1, <1>2, <1>3 DEF Plain
<1>4. CASE EscapedByte(buf)
  BY <1>1, <1>4 DEF EscapedByte
<1>5. CASE GiveBack(buf)
  BY <1>5, NothingHandled DEF GiveBack
<1>. QED
  BY <1>3, <1>4, <1>5 DEF Turn

\* The !D command of the radio is cut at its ';' into elements, in their
\* order and as many as there are rows; each that fits its row is in it, and
\* only one that does not fit can reach behind the array; nothing else of
\* serial_input changes the rows, but "!" alone may write in front of them.
THEOREM Sensors == Spec => SensorsStored
<1>1. Inv /\ [Next]_vars => [SensorsStep]_vars
  <2>. SUFFICES ASSUME Inv, Next PROVE SensorsStep
    OBVIOUS
  <2>0. ~wild
    BY DEF Next
  <2>1. ASSUME NEW bytes, Arrives(bytes)
        PROVE  SensorsStep
    BY <2>0, <2>1, NothingHandled DEF Arrives
  <2>2. CASE Radio
    BY <2>1, <2>2 DEF Radio, Send, SendLosing
  <2>3. CASE Call
    BY <2>0, <2>3, RoomIsLeft, TurnStores DEF Call
  <2>4. CASE ReadMore
    BY <2>0, <2>4, RoomIsLeft, TurnStores DEF ReadMore
  <2>5. CASE EndOfInput
    BY <2>0, <2>5, NothingHandled DEF EndOfInput
  <2>. QED
    BY <2>2, <2>3, <2>4, <2>5 DEF Next, Host
<1>. QED
  BY <1>1, InvHolds, PTL DEF Spec, SensorsStored, SensorsStep

(***************************************************************************)
(* Whose bytes are on the line.  A tag says of a byte which message it     *)
(* belongs to, NoMessage when that one has lost a byte; where in it, 0 for *)
(* the first SLIP_END, k for the byte at k, and the next number for the    *)
(* last SLIP_END; and whether it is read as the second half of a pair.     *)
(***************************************************************************)
TagSet == [msg : Messages \cup {NoMessage}, at : Nat, half : BOOLEAN]

Final(t) == t.at = Len(t.msg.data) + 1

\* What a byte is when the message it belongs to is whole.
Belongs(b, t) ==
  \/ t.at = 0 /\ ~t.half /\ b.byte = SLIP_END
  \/ Final(t) /\ ~t.half /\ b.byte = SLIP_END
  \/ /\ t.at \in 1 .. Len(t.msg.data)
     /\ IF t.half THEN Unescape(b.byte) = t.msg.data[t.at]
        ELSE b.byte = SLIP_ESC \/ (b.byte # SLIP_END /\ b.byte = t.msg.data[t.at])

Placed(b, t) ==
  /\ b.closes = IF t.msg # NoMessage /\ Final(t) THEN t.msg ELSE NoMessage
  /\ t.msg # NoMessage => Belongs(b, t)

\* b is read as the first half of a pair.
Opens(b, t) == b.byte = SLIP_ESC /\ ~t.half

\* u is the tag behind that of b.
Follows(b, t, u) ==
  /\ u.half <=> Opens(b, t)
  /\ IF t.msg # NoMessage /\ ~Final(t)
     THEN u.msg = t.msg /\ u.at = IF u.half THEN t.at ELSE t.at + 1
     ELSE u.msg = NoMessage \/ u.at = 0

Closed(b, t) == ~Opens(b, t) /\ (t.msg # NoMessage => Final(t))

\* No message is cut off at the end.
Tagged(bytes, tags) ==
  /\ tags \in Seq(TagSet) /\ Len(tags) = Len(bytes)
  /\ \A i \in 1 .. Len(bytes) : Placed(bytes[i], tags[i])
  /\ \A i \in 2 .. Len(bytes) : Follows(bytes[i - 1], tags[i - 1], tags[i])
  /\ Len(bytes) >= 1 => ~tags[1].half /\ Closed(bytes[Len(bytes)], tags[Len(bytes)])

\* A message begins.
Starts(t) == t.msg = NoMessage \/ t.at = 0

LEMMA TaggedConcat ==
  ASSUME NEW S, NEW b \in Seq(S), NEW c \in Seq(S), NEW t, NEW u,
         Tagged(b, t), Tagged(c, u), Len(c) >= 1, Starts(u[1])
  PROVE  Tagged(b \o c, t \o u)
<1>. DEFINE bc == b \o c
            tu == t \o u
            M == Len(b)
            N == Len(c)
<1>1. /\ M \in Nat /\ N \in Nat /\ N >= 1
      /\ t \in Seq(TagSet) /\ Len(t) = M /\ u \in Seq(TagSet) /\ Len(u) = N
  BY DEF Tagged
<1>2. /\ Len(bc) = M + N
      /\ \A i \in 1 .. M : bc[i] = b[i]
      /\ \A i \in 1 .. N : bc[M + i] = c[i]
  OBVIOUS
<1>3. /\ tu \in Seq(TagSet) /\ Len(tu) = M + N
      /\ \A i \in 1 .. M : tu[i] = t[i]
      /\ \A i \in 1 .. N : tu[M + i] = u[i]
  <2>1. t \in Seq(TagSet) /\ u \in Seq(TagSet) /\ Len(t) = M /\ Len(u) = N
    BY <1>1
  <2>. HIDE DEF TagSet
  <2>2. IsConcat(TagSet, t, u, tu)
    BY <2>1, ConcatElements
  <2>. HIDE DEF tu, M, N
  <2>. QED
    BY <1>1, <2>1, <2>2 DEF IsConcat
<1>. HIDE DEF bc, tu
<1>4. ASSUME NEW i \in 1 .. M + N
      PROVE  Placed(bc[i], tu[i])
  <2>1. CASE i <= M
    <3>1. i \in 1 .. M
      BY <1>1, <2>1
    <3>. QED
      BY <1>2, <1>3, <3>1 DEF Tagged
  <2>2. CASE i > M
    <3>1. i - M \in 1 .. N /\ i = M + (i - M)
      BY <1>1, <2>2
    <3>2. bc[i] = c[i - M] /\ tu[i] = u[i - M]
      BY <1>2, <1>3, <3>1
    <3>. QED
      BY <3>1, <3>2 DEF Tagged
  <2>. QED
    BY <1>1, <2>1, <2>2
<1>5. ASSUME NEW i \in 2 .. M + N
      PROVE  Follows(bc[i - 1], tu[i - 1], tu[i])
  <2>1. CASE i <= M
    <3>1. i \in 2 .. M /\ i \in 1 .. M /\ i - 1 \in 1 .. M
      BY <1>1, <2>1
    <3>. QED
      BY <1>2, <1>3, <3>1 DEF Tagged
  <2>2. CASE i = M + 1
    <3>1. i - 1 = M /\ M \in 1 .. M /\ 1 \in 1 .. N /\ M >= 1
      BY <1>1, <2>2
    <3>2. bc[i - 1] = b[M] /\ tu[i - 1] = t[M] /\ tu[i] = u[1]
      BY <1>2, <1>3, <2>2, <3>1
    <3>3. Closed(b[M], t[M]) /\ ~u[1].half
      BY <1>1, <3>1 DEF Tagged
    <3>. QED
      BY <3>2, <3>3, Zenon DEF Follows, Closed, Starts
  <2>3. CASE i > M + 1
    <3>1. /\ i - M \in 2 .. N /\ i - M \in 1 .. N /\ (i - M) - 1 \in 1 .. N
          /\ i = M + (i - M) /\ i - 1 = M + ((i - M) - 1)
      BY <1>1, <2>3
    <3>2. bc[i - 1] = c[(i - M) - 1] /\ tu[i - 1] = u[(i - M) - 1] /\ tu[i] = u[i - M]
      BY <1>2, <1>3, <3>1
    <3>3. Follows(c[(i - M) - 1], u[(i - M) - 1], u[i - M])
      BY <3>1 DEF Tagged
    <3>. QED
      BY <3>2, <3>3
  <2>. QED
    BY <1>1, <2>1, <2>2, <2>3
<1>6. ~tu[1].half
  <2>1. CASE M >= 1
    <3>1. 1 \in 1 .. M
      BY <1>1, <2>1
    <3>. QED
      BY <1>3, <2>1, <3>1 DEF Tagged
  <2>2. CASE M = 0
    <3>1. tu[1] = u[1]
      BY <1>1, <1>3, <2>2
    <3>. QED
      BY <1>1, <3>1 DEF Tagged
  <2>. QED
    BY <1>1, <2>1, <2>2
<1>7. Closed(bc[M + N], tu[M + N])
  <2>1. N \in 1 .. N
    BY <1>1
  <2>2. bc[M + N] = c[N] /\ tu[M + N] = u[N]
    BY <1>2, <1>3, <2>1
  <2>. QED
    BY <1>1, <2>2 DEF Tagged
<1>8. Tagged(bc, tu)
  BY <1>2, <1>3, <1>4, <1>5, <1>6, <1>7 DEF Tagged
<1>. QED
  BY <1>8 DEF bc, tu

\* What is left behind a byte that no byte must follow.
LEMMA TaggedRest ==
  ASSUME NEW S, NEW b \in Seq(S), NEW t, Tagged(b, t), NEW k \in 1 .. Len(b),
         ~Opens(b[k], t[k])
  PROVE  Tagged(SubSeq(b, k + 1, Len(b)), SubSeq(t, k + 1, Len(t)))
<1>. DEFINE c == SubSeq(b, k + 1, Len(b))
            u == SubSeq(t, k + 1, Len(t))
            N == Len(b) - k
<1>1. Len(b) \in Nat /\ N \in Nat /\ t \in Seq(TagSet) /\ Len(t) = Len(b) /\ k \in 0 .. Len(b)
  BY DEF Tagged
<1>2. Len(c) = N /\ \A i \in 1 .. N : c[i] = b[k + i]
  BY <1>1, Remainder
<1>3. u \in Seq(TagSet) /\ Len(u) = N /\ \A i \in 1 .. N : u[i] = t[k + i]
  <2>. HIDE DEF TagSet
  <2>. QED
    BY <1>1, Remainder
<1>. HIDE DEF c, u
<1>4. ASSUME NEW i \in 1 .. N
      PROVE  Placed(c[i], u[i])
  <2>1. k + i \in 1 .. Len(b)
    BY <1>1
  <2>. QED
    BY <1>2, <1>3, <2>1 DEF Tagged
<1>5. ASSUME NEW i \in 2 .. N
      PROVE  Follows(c[i - 1], u[i - 1], u[i])
  <2>1. k + i \in 2 .. Len(b) /\ i \in 1 .. N /\ i - 1 \in 1 .. N /\ (k + i) - 1 = k + (i - 1)
    BY <1>1
  <2>2. Follows(b[(k + i) - 1], t[(k + i) - 1], t[k + i])
    BY <2>1 DEF Tagged
  <2>. QED
    BY <1>2, <1>3, <2>1, <2>2
<1>6. ASSUME N >= 1
      PROVE  ~u[1].half /\ Closed(c[N], u[N])
  <2>1. 1 \in 1 .. N /\ N \in 1 .. N /\ k + 1 \in 2 .. Len(b) /\ (k + 1) - 1 = k /\ k + N = Len(b)
    BY <1>1, <1>6
  <2>2. Follows(b[k], t[k], t[k + 1])
    BY <2>1 DEF Tagged
  <2>3. ~t[k + 1].half
    BY <2>2 DEF Follows
  <2>4. Closed(b[Len(b)], t[Len(b)])
    BY <1>1 DEF Tagged
  <2>. QED
    BY <1>2, <1>3, <2>1, <2>3, <2>4
<1>7. Tagged(c, u)
  BY <1>2, <1>3, <1>4, <1>5, <1>6 DEF Tagged
<1>. QED
  BY <1>7 DEF c, u

\* What goes out in front of the last SLIP_END.
Body(m) == <<SLIP_END>> \o Escaped(m.data)

LEMMA BodyFacts ==
  ASSUME NEW m \in Messages
  PROVE  /\ \E at : /\ Coded(Body(m), at, m.data) /\ Body(m)[Len(Body(m))] # SLIP_ESC
                    /\ at[Len(Body(m))] = Len(m.data)
         /\ Len(Body(m)) \in Nat /\ Len(Body(m)) >= 1
         /\ Wire(m) \in Seq(Bytes) /\ Len(Wire(m)) = Len(Body(m)) + 1
         /\ \A j \in 1 .. Len(Body(m)) : Wire(m)[j] = Body(m)[j]
         /\ Wire(m)[Len(Body(m)) + 1] = SLIP_END
<1>. DEFINE v == Body(m)
            w == Wire(m)
            S == Bytes \cup Codes
            N == Len(v)
<1>1. m.data \in Seq(Bytes) /\ SLIP_END \in S /\ Codes \subseteq S
  BY MessageFacts, SlipBytesAreBytes
<1>2. PICK at : CodesAll(at, m.data)
  <2>1. m.data \in Seq(S)
    BY <1>1
  <2>. HIDE DEF S
  <2>. QED
    BY <1>1, <2>1, EscapedCodes
<1>3. Coded(v, at, m.data) /\ v[N] # SLIP_ESC /\ at[N] = Len(m.data)
  BY <1>2 DEF CodesAll, Body
<1>4. v \in Seq(S) /\ N \in Nat /\ N >= 1
  <2>1. Escaped(m.data) \in Seq(S)
    BY <1>1, EscapedInSeq
  <2>2. v \in Seq(S)
    BY <1>1, <2>1 DEF Body
  <2>. HIDE DEF v
  <2>. QED
    BY <1>3, <2>2 DEF Coded
<1>5. /\ w \in Seq(Bytes) /\ Len(w) = N + 1 /\ w[N + 1] = SLIP_END
      /\ \A j \in 1 .. N : w[j] = v[j]
  <2>1. w = v \o <<SLIP_END>> /\ w \in Seq(Bytes)
    BY WireIsEscaped DEF Body
  <2>2. IsConcat(S, v, <<SLIP_END>>, w)
    <3>1. <<SLIP_END>> \in Seq(S)
      BY <1>1
    <3>. HIDE DEF v, w, S
    <3>. QED
      BY <1>4, <2>1, <3>1, ConcatElements
  <2>. HIDE DEF v, w, S
  <2>. QED
    BY <2>1, <2>2, <1>4 DEF IsConcat
<1>. HIDE DEF v, w
<1>6. \E to : Coded(v, to, m.data) /\ v[N] # SLIP_ESC /\ to[N] = Len(m.data)
  BY <1>3
<1>. QED
  BY <1>4, <1>5, <1>6 DEF v, w

\* The tags of a message of which nothing is lost.
LEMMA WholeTags ==
  ASSUME NEW m \in Messages
  PROVE  \E tags : Tagged(Marked(Wire(m), m), tags) /\ Starts(tags[1])
<1>. DEFINE v == Body(m)
            w == Wire(m)
            N == Len(v)
            n == Len(m.data)
            bytes == Marked(w, m)
<1>1. m.data \in Seq(Bytes) /\ n \in Nat /\ 0 < n /\ m # NoMessage
  BY MessageFacts
<1>2. PICK at : Coded(v, at, m.data) /\ v[N] # SLIP_ESC /\ at[N] = n
  BY BodyFacts
<1>3. Coded(v, at, m.data) /\ v[N] # SLIP_ESC /\ at[N] = n
  BY <1>2
<1>4. N \in Nat /\ N >= 1
  BY BodyFacts
<1>5. /\ w \in Seq(Bytes) /\ Len(w) = N + 1 /\ w[N + 1] = SLIP_END
      /\ \A j \in 1 .. N : w[j] = v[j]
  BY BodyFacts
<1>6. /\ Len(bytes) = N + 1
      /\ \A j \in 1 .. N + 1 : /\ bytes[j].byte = w[j]
                               /\ bytes[j].closes = IF j = N + 1 THEN m ELSE NoMessage
  <2>. HIDE DEF w, v
  <2>. QED
    BY <1>5, MarkedOnLine
<1>. HIDE DEF v, w, bytes
<1>7. \A j \in 1 .. N : at[j] \in Nat /\ (at[j] = 0 \/ at[j] \in 1 .. n) /\ (j = 1 <=> at[j] = 0)
  <2>. SUFFICES ASSUME NEW j \in 1 .. N
                PROVE  at[j] \in Nat /\ (at[j] = 0 \/ at[j] \in 1 .. n) /\ (j = 1 <=> at[j] = 0)
    OBVIOUS
  <2>1. CASE j = 1
    BY <1>3, <2>1 DEF Coded
  <2>2. CASE j # 1
    <3>1. j \in 2 .. N
      BY <1>4, <2>2
    <3>2. CodedByte(v[j - 1], v[j], at[j], m.data)
      BY <1>3, <3>1 DEF Coded
    <3>. QED
      BY <1>1, <2>2, <3>2 DEF CodedByte
  <2>. QED
    BY <2>1, <2>2
<1>. DEFINE pair(j) == j > 1 /\ j <= N /\ v[j - 1] = SLIP_ESC
            pos(j) == IF j = N + 1 THEN n + 1 ELSE at[j]
            tags == [j \in 1 .. N + 1 |-> [msg |-> m, at |-> pos(j), half |-> pair(j)]]
<1>8. /\ \A j \in 1 .. N + 1 : tags[j].msg = m
      /\ \A j \in 1 .. N : tags[j].at = at[j]
      /\ tags[N + 1].at = n + 1 /\ ~tags[1].half /\ ~tags[N + 1].half
      /\ \A j \in 2 .. N : tags[j].half <=> v[j - 1] = SLIP_ESC
  <2>1. \A j \in 1 .. N + 1 : tags[j].msg = m /\ tags[j].at = pos(j) /\ tags[j].half = pair(j)
    OBVIOUS
  <2>2. /\ \A j \in 1 .. N : pos(j) = at[j] /\ j \in 1 .. N + 1
        /\ pos(N + 1) = n + 1 /\ 1 \in 1 .. N + 1 /\ N + 1 \in 1 .. N + 1
    BY <1>4
  <2>3. /\ ~pair(1) /\ ~pair(N + 1)
        /\ \A j \in 2 .. N : j \in 1 .. N + 1 /\ (pair(j) <=> v[j - 1] = SLIP_ESC)
    BY <1>4
  <2>. HIDE DEF tags, pos, pair
  <2>. QED
    BY <2>1, <2>2, <2>3, Zenon
<1>9. tags \in Seq(TagSet) /\ Len(tags) = N + 1
  <2>1. \A j \in 1 .. N + 1 : pos(j) \in Nat /\ pair(j) \in BOOLEAN
    BY <1>1, <1>4, <1>7
  <2>. HIDE DEF pos, pair
  <2>2. \A j \in 1 .. N + 1 : tags[j] \in TagSet
    BY <2>1 DEF TagSet
  <2>3. DOMAIN tags = 1 .. N + 1
    OBVIOUS
  <2>. HIDE DEF TagSet
  <2>. QED
    BY <1>4, <2>2, <2>3
<1>. HIDE DEF tags
<1>10. \A j \in 1 .. N + 1 : Opens(bytes[j], tags[j]) <=> j <= N /\ v[j] = SLIP_ESC
  <2>. SUFFICES ASSUME NEW j \in 1 .. N + 1
                PROVE  Opens(bytes[j], tags[j]) <=> j <= N /\ v[j] = SLIP_ESC
    OBVIOUS
  <2>1. CASE j = N + 1
    BY <1>4, <1>5, <1>6, <2>1 DEF Opens, SLIP_END, SLIP_ESC
  <2>2. CASE j = 1
    <3>1. v[1] = SLIP_END /\ 1 \in 1 .. N
      BY <1>3, <1>4 DEF Coded
    <3>. QED
      BY <1>5, <1>6, <2>2, <3>1 DEF Opens, SLIP_END, SLIP_ESC
  <2>3. CASE j \in 2 .. N
    <3>1. CodedByte(v[j - 1], v[j], at[j], m.data)
      BY <1>3, <1>4, <2>3 DEF Coded
    <3>2. bytes[j].byte = v[j] /\ (tags[j].half <=> v[j - 1] = SLIP_ESC) /\ j <= N
      BY <1>3, <1>4, <1>5, <1>6, <1>8, <2>3
    <3>. QED
      BY <3>1, <3>2 DEF CodedByte, Opens
  <2>. QED
    BY <1>4, <2>1, <2>2, <2>3
<1>11. \A j \in 1 .. N + 1 : Final(tags[j]) <=> j = N + 1
  <2>. SUFFICES ASSUME NEW j \in 1 .. N + 1
                PROVE  Final(tags[j]) <=> j = N + 1
    OBVIOUS
  <2>1. Final(tags[j]) <=> tags[j].at = n + 1
    BY <1>8 DEF Final
  <2>2. CASE j = N + 1
    BY <1>8, <2>1, <2>2
  <2>3. CASE j # N + 1
    <3>1. j \in 1 .. N
      BY <1>4, <2>3
    <3>2. tags[j].at = at[j] /\ at[j] # n + 1
      BY <1>1, <1>7, <1>8, <3>1
    <3>. QED
      BY <2>1, <2>3, <3>2
  <2>. QED
    BY <2>2, <2>3
<1>12. ASSUME NEW j \in 1 .. N + 1
       PROVE  Placed(bytes[j], tags[j])
  <2>1. bytes[j].closes = IF tags[j].msg # NoMessage /\ Final(tags[j]) THEN tags[j].msg ELSE NoMessage
    BY <1>1, <1>6, <1>8, <1>11
  <2>2. Belongs(bytes[j], tags[j])
    <3>1. CASE j = N + 1
      <4>1. Final(tags[j]) /\ ~tags[j].half /\ bytes[j].byte = SLIP_END
        BY <1>4, <1>5, <1>6, <1>8, <1>11, <3>1
      <4>. QED
        BY <4>1 DEF Belongs
    <3>2. CASE j = 1
      <4>1. v[1] = SLIP_END /\ at[1] = 0 /\ 1 \in 1 .. N /\ 1 # N + 1
        BY <1>3, <1>4 DEF Coded
      <4>2. tags[1].at = 0 /\ ~tags[1].half /\ bytes[1].byte = SLIP_END
        BY <1>4, <1>5, <1>6, <1>8, <4>1
      <4>. QED
        BY <3>2, <4>2 DEF Belongs
    <3>3. CASE j \in 2 .. N
      <4>1. /\ CodedByte(v[j - 1], v[j], at[j], m.data)
            /\ bytes[j].byte = v[j] /\ (tags[j].half <=> v[j - 1] = SLIP_ESC)
            /\ tags[j].at = at[j] /\ tags[j].msg = m
        BY <1>3, <1>4, <1>5, <1>6, <1>8, <3>3 DEF Coded
      <4>. QED
        BY <4>1 DEF CodedByte, Belongs
    <3>. QED
      BY <1>4, <3>1, <3>2, <3>3
  <2>. QED
    BY <2>1, <2>2 DEF Placed
<1>13. ASSUME NEW j \in 2 .. N + 1
       PROVE  Follows(bytes[j - 1], tags[j - 1], tags[j])
  <2>1. j \in 1 .. N + 1 /\ j - 1 \in 1 .. N /\ j - 1 \in 1 .. N + 1 /\ j - 1 # N + 1 /\ j - 1 <= N
    BY <1>4
  <2>2. tags[j].half <=> Opens(bytes[j - 1], tags[j - 1])
    <3>1. Opens(bytes[j - 1], tags[j - 1]) <=> v[j - 1] = SLIP_ESC
      BY <1>10, <2>1
    <3>2. CASE j = N + 1
      <4>1. ~tags[j].half
        BY <1>4, <1>8, <3>2
      <4>2. j - 1 = N
        BY <1>4, <3>2
      <4>. QED
        BY <1>3, <3>1, <4>1, <4>2
    <3>3. CASE j # N + 1
      <4>1. tags[j].half <=> v[j - 1] = SLIP_ESC
        BY <1>4, <1>8, <3>3
      <4>. QED
        BY <3>1, <4>1
    <3>. QED
      BY <3>2, <3>3
  <2>3. tags[j - 1].msg = m /\ tags[j].msg = m /\ ~Final(tags[j - 1]) /\ tags[j - 1].at = at[j - 1]
    BY <1>8, <1>11, <2>1
  <2>4. tags[j].at = IF tags[j].half THEN at[j - 1] ELSE at[j - 1] + 1
    <3>1. CASE j = N + 1
      <4>1. j - 1 = N /\ tags[j].at = n + 1 /\ ~tags[j].half
        BY <1>4, <1>8, <3>1
      <4>. QED
        BY <1>3, <4>1
    <3>2. CASE j # N + 1
      <4>1. j \in 2 .. N /\ tags[j].at = at[j] /\ (tags[j].half <=> v[j - 1] = SLIP_ESC)
        BY <1>4, <1>8, <3>2
      <4>2. at[j] = NextAt(v[j - 1], at[j - 1])
        BY <1>3, <4>1 DEF Coded
      <4>. QED
        BY <4>1, <4>2 DEF NextAt
    <3>. QED
      BY <3>1, <3>2
  <2>. QED
    BY <1>1, <2>2, <2>3, <2>4, Zenon DEF Follows
<1>14. ~tags[1].half /\ Closed(bytes[N + 1], tags[N + 1]) /\ Starts(tags[1])
  <2>1. 1 \in 1 .. N /\ 1 # N + 1 /\ N + 1 \in 1 .. N + 1 /\ 1 \in 1 .. N + 1 /\ ~(N + 1 <= N)
    BY <1>4
  <2>. QED
    BY <1>7, <1>8, <1>10, <1>11, <2>1 DEF Closed, Starts
<1>15. Tagged(bytes, tags)
  BY <1>6, <1>9, <1>12, <1>13, <1>14, Zenon DEF Tagged
<1>. QED
  BY <1>14, <1>15 DEF bytes, w

\* With a byte lost, the bytes belong to no message; they still come in pairs.
LEMMA LosingTags ==
  ASSUME NEW w \in Seq(Bytes), w # << >> => w[Len(w)] # SLIP_ESC
  PROVE  \E tags : Tagged(Marked(w, NoMessage), tags) /\ (w # << >> => Starts(tags[1]))
<1>. DEFINE N == Len(w)
            bytes == Marked(w, NoMessage)
            step == [p \in (1 .. N) \X BOOLEAN |-> w[p[1]] = SLIP_ESC /\ ~p[2]]
<1>1. N \in Nat /\ FALSE \in BOOLEAN
  OBVIOUS
<1>2. IsStep(step, N, BOOLEAN)
  BY Zenon DEF IsStep
<1>3. PICK h \in Walks(step, N, BOOLEAN, FALSE) : TRUE
  <2>. HIDE DEF N, step
  <2>. QED
    BY <1>1, <1>2, WalkExists
<1>4. /\ h \in [0 .. N -> BOOLEAN] /\ h[0] = FALSE
      /\ \A j \in 1 .. N : h[j] = step[<<j, h[j - 1]>>]
  BY <1>3 DEF Walks
<1>5. \A j \in 1 .. N : h[j - 1] \in BOOLEAN /\ (h[j] <=> (w[j] = SLIP_ESC /\ ~h[j - 1]))
  <2>. SUFFICES ASSUME NEW j \in 1 .. N
                PROVE  h[j - 1] \in BOOLEAN /\ (h[j] <=> (w[j] = SLIP_ESC /\ ~h[j - 1]))
    OBVIOUS
  <2>1. j - 1 \in 0 .. N
    BY <1>1
  <2>2. h[j - 1] \in BOOLEAN
    BY <1>4, <2>1
  <2>3. \A b \in BOOLEAN : step[<<j, b>>] = (w[j] = SLIP_ESC /\ ~b)
    BY Zenon
  <2>4. h[j] = step[<<j, h[j - 1]>>]
    BY <1>4
  <2>. HIDE DEF step
  <2>. QED
    BY <2>2, <2>3, <2>4, Zenon
<1>6. /\ Len(bytes) = N
      /\ \A j \in 1 .. N : bytes[j].byte = w[j] /\ bytes[j].closes = NoMessage
  BY MarkedOnLine
<1>. HIDE DEF bytes, step
<1>. DEFINE tags == [j \in 1 .. N |-> [msg |-> NoMessage, at |-> 0, half |-> h[j - 1]]]
<1>7. \A j \in 1 .. N : tags[j].msg = NoMessage /\ tags[j].at = 0 /\ tags[j].half = h[j - 1]
  OBVIOUS
<1>8. tags \in Seq(TagSet) /\ Len(tags) = N
  <2>1. \A j \in 1 .. N : tags[j] \in TagSet
    BY <1>5 DEF TagSet
  <2>2. DOMAIN tags = 1 .. N
    OBVIOUS
  <2>. HIDE DEF TagSet
  <2>. QED
    BY <1>1, <2>1, <2>2
<1>. HIDE DEF tags
<1>9. \A j \in 1 .. N : Opens(bytes[j], tags[j]) <=> h[j]
  BY <1>5, <1>6, <1>7, Zenon DEF Opens
<1>10. \A j \in 1 .. N : Placed(bytes[j], tags[j])
  BY <1>6, <1>7, Zenon DEF Placed
<1>11. ASSUME NEW j \in 2 .. N
       PROVE  Follows(bytes[j - 1], tags[j - 1], tags[j])
  <2>1. j \in 1 .. N /\ j - 1 \in 1 .. N
    BY <1>1
  <2>. QED
    BY <1>7, <1>9, <2>1, Zenon DEF Follows
<1>12. ASSUME N >= 1
       PROVE  ~tags[1].half /\ Closed(bytes[N], tags[N]) /\ Starts(tags[1])
  <2>1. 1 \in 1 .. N /\ N \in 1 .. N /\ 1 - 1 = 0
    BY <1>1, <1>12
  <2>2. ~tags[1].half
    BY <1>4, <1>7, <2>1
  <2>3. w[N] # SLIP_ESC
    BY <1>12
  <2>4. ~Opens(bytes[N], tags[N])
    BY <1>5, <1>9, <2>1, <2>3
  <2>. QED
    BY <1>7, <2>1, <2>2, <2>4, Zenon DEF Closed, Starts
<1>13. Tagged(bytes, tags)
  BY <1>6, <1>8, <1>10, <1>11, <1>12, Zenon DEF Tagged
<1>14. w # << >> => N >= 1
  OBVIOUS
<1>. QED
  BY <1>12, <1>13, <1>14 DEF bytes

(***************************************************************************)
(* inbuf is in step with the message whose byte comes next: it has what    *)
(* is in front of that byte.                                               *)
(***************************************************************************)
InStep(buf, t) ==
  t.msg # NoMessage /\ t.at >= 1 /\ ~Swallowed(t.msg.data)
    => buf = SubSeq(t.msg.data, 1, t.at - 1)

WholeInv ==
  /\ \E tags : Tagged(line, tags) /\ (line # << >> => InStep(inbuf, tags[1]))
  /\ IntactFrameHandled

LEMMA TagFacts ==
  ASSUME NEW t \in TagSet, t.msg # NoMessage
  PROVE  /\ t.msg \in Messages /\ t.at \in Nat /\ t.half \in BOOLEAN
         /\ t.msg.data \in Seq(Bytes) /\ Len(t.msg.data) \in Nat
         /\ 0 < Len(t.msg.data) /\ Len(t.msg.data) < InbufSize
         /\ t.msg = [kind |-> Kind(t.msg.data), data |-> t.msg.data]
<1>1. t.msg \in Messages /\ t.at \in Nat /\ t.half \in BOOLEAN
  BY DEF TagSet
<1>. QED
  BY <1>1, MessageFacts

LEMMA SwallowedKept ==
  ASSUME NEW d, verbose' = verbose
  PROVE  Swallowed(d)' <=> Swallowed(d)
BY DEF Swallowed, EchoesLines

\* Unless it is swallowed, what is stored of a message stays in inbuf.
LEMMA StoredInStep ==
  ASSUME NEW t \in TagSet, t.msg # NoMessage, ~Swallowed(t.msg.data)',
         t.at \in 1 .. Len(t.msg.data), NEW buf, InStep(buf, t), verbose' = verbose,
         NEW byte, byte = t.msg.data[t.at], Store(buf, byte)
  PROVE  inbuf' = SubSeq(t.msg.data, 1, t.at)
<1>. DEFINE d == t.msg.data
            k == t.at
            full == Append(buf, byte)
<1>1. d \in Seq(Bytes) /\ Len(d) \in Nat /\ k \in 1 .. Len(d) /\ k \in Nat /\ k >= 1
  <2>1. d \in Seq(Bytes) /\ Len(d) \in Nat /\ k \in Nat
    BY TagFacts
  <2>. QED
    BY <2>1
<1>2. ~Swallowed(d)
  BY SwallowedKept
<1>3. buf = SubSeq(d, 1, k - 1)
  BY <1>1, <1>2 DEF InStep
<1>4. SubSeq(d, 1, k) = Append(SubSeq(d, 1, k - 1), d[k])
  <2>. HIDE DEF d, k
  <2>. QED
    BY <1>1
<1>5. full = SubSeq(d, 1, k)
  BY <1>3, <1>4, Zenon
<1>6. ~(EchoesLines /\ byte = LF /\ Sensible(full))
  <2>1. \A n \in 1 .. Len(d) : ~(EchoesLines /\ d[n] = LF /\ Sensible(SubSeq(d, 1, n)))
    BY <1>2, Zenon DEF Swallowed
  <2>. QED
    BY <1>1, <1>5, <2>1, Zenon
<1>. QED
  BY <1>5, <1>6, Zenon DEF Store

LEMMA PlainInStep ==
  ASSUME Inv, NEW tags, Tagged(line, tags), NEW buf, InStep(buf, tags[1]),
         Plain(buf), verbose' = verbose
  PROVE  WholeInv'
<1>. DEFINE t == tags[1]
            b == line[1]
            rest == SubSeq(tags, 2, Len(tags))
<1>1. /\ line \in Seq(OnLine) /\ Len(line) \in Nat /\ Len(line) >= 1
      /\ tags \in Seq(TagSet) /\ Len(tags) = Len(line)
      /\ 1 \in 1 .. Len(line) /\ line' = SubSeq(line, 2, Len(line))
  <2>1. line \in Seq(OnLine) /\ line # << >> /\ line' = Tail(line)
    BY DEF Inv, TypeOK, OnLine, Plain
  <2>2. Len(line) \in Nat /\ Len(line) >= 1
    BY <2>1
  <2>3. line' = SubSeq(line, 2, Len(line))
    BY <2>1, TailIsSubSeq
  <2>. QED
    BY <2>1, <2>2, <2>3 DEF Tagged
<1>2. t \in TagSet /\ Placed(b, t) /\ ~t.half /\ b.byte # SLIP_ESC
  <2>1. t \in TagSet
    <3>. HIDE DEF TagSet
    <3>. QED
      BY <1>1
  <2>. QED
    BY <1>1, <2>1 DEF Tagged, Plain
<1>3. Tagged(line', rest)
  <2>1. ~Opens(b, t)
    BY <1>2 DEF Opens
  <2>2. Tagged(SubSeq(line, 1 + 1, Len(line)), SubSeq(tags, 1 + 1, Len(tags)))
    BY <1>1, <2>1, TaggedRest
  <2>. QED
    BY <1>1, <2>2
<1>4. ASSUME last' \in Messages, ~Swallowed(last.data)'
      PROVE  handled' = last'
  <2>1. last' # NoMessage /\ last' = b.closes
    BY <1>4, MessageFacts DEF Plain
  <2>2. t.msg # NoMessage /\ Final(t) /\ last' = t.msg
    BY <1>2, <2>1 DEF Placed
  <2>. DEFINE d == t.msg.data
  <2>3. /\ d \in Seq(Bytes) /\ Len(d) \in Nat /\ 0 < Len(d) /\ t.at = Len(d) + 1
        /\ t.msg = [kind |-> Kind(d), data |-> d]
    BY <1>2, <2>2, TagFacts DEF Final
  <2>4. b.byte = SLIP_END
    BY <1>2, <2>2, <2>3 DEF Placed, Belongs
  <2>5. ~Swallowed(d)
    <3>1. ~Swallowed(d)'
      BY <1>4, <2>2, Zenon
    <3>. QED
      BY <3>1, SwallowedKept
  <2>6. buf = SubSeq(d, 1, t.at - 1)
    BY <2>2, <2>3, <2>5 DEF InStep
  <2>7. buf = d /\ d # << >>
    <3>1. t.at - 1 = Len(d)
      BY <2>3
    <3>. HIDE DEF d
    <3>. QED
      BY <2>3, <2>6, <3>1
  <2>8. EndOfFrame(buf)
    BY <2>4 DEF Plain
  <2>9. handled' = [kind |-> Kind(buf), data |-> buf]
    BY <2>7, <2>8 DEF EndOfFrame
  <2>. QED
    BY <2>2, <2>3, <2>7, <2>9
<1>5. ASSUME line' # << >>
      PROVE  InStep(inbuf, rest[1])'
  <2>. DEFINE u == tags[2]
  <2>1. Len(line) >= 2 /\ 2 \in 2 .. Len(line) /\ 2 - 1 = 1 /\ rest[1] = u
    <3>1. Len(line') >= 1
      <4>1. line' \in Seq(OnLine)
        BY <1>1
      <4>. HIDE DEF OnLine
      <4>. QED
        BY <1>5, <4>1
    <3>2. Len(line) >= 2
      BY <1>1, <1>3, <3>1 DEF Tagged
    <3>3. rest[1] = tags[2]
      <4>. HIDE DEF TagSet
      <4>. QED
        BY <1>1, <3>2
    <3>. QED
      BY <1>1, <3>2, <3>3
  <2>2. u \in TagSet /\ Follows(b, t, u)
    <3>1. u \in TagSet
      <4>. HIDE DEF TagSet
      <4>. QED
        BY <1>1, <2>1
    <3>2. Follows(line[2 - 1], tags[2 - 1], tags[2])
      BY <2>1 DEF Tagged
    <3>. QED
      BY <2>1, <3>1, <3>2
  <2>. SUFFICES ASSUME u.msg # NoMessage, u.at >= 1, ~Swallowed(u.msg.data)'
                PROVE  inbuf' = SubSeq(u.msg.data, 1, u.at - 1)
    BY <2>1 DEF InStep
  <2>. DEFINE d == t.msg.data
  <2>3. /\ t.msg # NoMessage /\ ~Final(t) /\ u.msg = t.msg /\ u.at = t.at + 1
    <3>1. ~u.half
      BY <1>2, <2>2 DEF Follows, Opens
    <3>2. u.at # 0
      BY <2>2
    <3>. QED
      BY <2>2, <3>1, <3>2 DEF Follows
  <2>4. d \in Seq(Bytes) /\ Len(d) \in Nat /\ 0 < Len(d) /\ t.at \in Nat /\ t.at # Len(d) + 1
    BY <1>2, <2>3, TagFacts DEF Final
  <2>5. Belongs(b, t)
    BY <1>2, <2>3 DEF Placed
  <2>6. CASE t.at = 0
    <3>1. b.byte = SLIP_END
      BY <2>4, <2>5, <2>6 DEF Belongs
    <3>2. inbuf' = << >>
      BY <3>1 DEF Plain, EndOfFrame
    <3>3. u.at - 1 = 0
      BY <2>3, <2>6
    <3>4. SubSeq(d, 1, 0) = << >>
      <4>. HIDE DEF d
      <4>. QED
        BY <2>4
    <3>. QED
      BY <2>3, <3>2, <3>3, <3>4
  <2>7. CASE t.at # 0
    <3>1. t.at \in 1 .. Len(d) /\ b.byte # SLIP_END /\ b.byte = d[t.at]
      BY <1>2, <2>3, <2>5, <2>7 DEF Belongs
    <3>2. Store(buf, b.byte)
      BY <3>1 DEF Plain
    <3>3. inbuf' = SubSeq(d, 1, t.at)
      BY <1>2, <2>3, <3>1, <3>2, StoredInStep
    <3>4. u.at - 1 = t.at
      BY <2>3, <2>4
    <3>. QED
      BY <2>3, <3>3, <3>4
  <2>. QED
    BY <2>6, <2>7
<1>. HIDE DEF rest
<1>6. (\E to : Tagged(line, to) /\ (line # << >> => InStep(inbuf, to[1])))'
  BY <1>3, <1>5, Zenon
<1>7. IntactFrameHandled'
  BY <1>4, Zenon DEF IntactFrameHandled
<1>. QED
  BY <1>6, <1>7, Zenon DEF WholeInv

LEMMA PairInStep ==
  ASSUME Inv, NEW tags, Tagged(line, tags), NEW buf, InStep(buf, tags[1]),
         EscapedByte(buf), verbose' = verbose
  PROVE  WholeInv'
<1>. DEFINE t == tags[1]
            u == tags[2]
            b == line[2]
            c == Unescape(b.byte)
            rest == SubSeq(tags, 3, Len(tags))
<1>1. /\ line \in Seq(OnLine) /\ Len(line) \in Nat /\ Len(line) >= 2
      /\ tags \in Seq(TagSet) /\ Len(tags) = Len(line)
      /\ 1 \in 1 .. Len(line) /\ 2 \in 1 .. Len(line) /\ 2 \in 2 .. Len(line) /\ 2 - 1 = 1
      /\ line[1].byte = SLIP_ESC /\ line' = SubSeq(line, 3, Len(line))
      /\ Store(buf, c) /\ last' = b.closes
  <2>1. line \in Seq(OnLine) /\ Len(line) >= 2
    BY DEF Inv, TypeOK, OnLine, EscapedByte
  <2>2. Len(line) \in Nat
    BY <2>1
  <2>. QED
    BY <2>1, <2>2 DEF Tagged, EscapedByte
<1>2. t \in TagSet /\ u \in TagSet
  <2>. HIDE DEF TagSet
  <2>. QED
    BY <1>1
<1>3. Placed(b, u) /\ ~t.half /\ u.half /\ Follows(line[1], t, u)
  <2>1. Follows(line[2 - 1], tags[2 - 1], tags[2])
    BY <1>1 DEF Tagged
  <2>2. Placed(b, u) /\ ~t.half /\ Follows(line[1], t, u)
    BY <1>1, <2>1 DEF Tagged
  <2>. QED
    BY <1>1, <2>2 DEF Follows, Opens
<1>4. Tagged(line', rest)
  <2>1. ~Opens(b, u)
    BY <1>3 DEF Opens
  <2>2. Tagged(SubSeq(line, 2 + 1, Len(line)), SubSeq(tags, 2 + 1, Len(tags)))
    BY <1>1, <2>1, TaggedRest
  <2>. QED
    BY <1>1, <2>2
<1>5. handled' = NoMessage
  BY <1>1 DEF Store
\* The second half of a pair is not the last byte of a message.
<1>6. u.msg # NoMessage =>
        /\ ~Final(u) /\ u.at \in 1 .. Len(u.msg.data) /\ c = u.msg.data[u.at]
        /\ t.msg # NoMessage /\ u.msg = t.msg /\ u.at = t.at
  <2>. SUFFICES ASSUME u.msg # NoMessage
                PROVE  /\ ~Final(u) /\ u.at \in 1 .. Len(u.msg.data) /\ c = u.msg.data[u.at]
                       /\ t.msg # NoMessage /\ u.msg = t.msg /\ u.at = t.at
    OBVIOUS
  <2>1. u.at \in 1 .. Len(u.msg.data) /\ c = u.msg.data[u.at]
    BY <1>3 DEF Placed, Belongs
  <2>2. Len(u.msg.data) \in Nat /\ u.at \in Nat
    BY <1>2, TagFacts
  <2>3. ~Final(u) /\ u.at # 0
    BY <2>1, <2>2 DEF Final
  <2>4. t.msg # NoMessage /\ u.msg = t.msg /\ u.at = t.at
    BY <1>3, <2>3 DEF Follows
  <2>. QED
    BY <2>1, <2>3, <2>4
<1>7. last' \notin Messages
  <2>1. last' = NoMessage
    BY <1>1, <1>3, <1>6 DEF Placed
  <2>. QED
    BY <2>1, MessageFacts
<1>8. ASSUME line' # << >>
      PROVE  InStep(inbuf, rest[1])'
  <2>. DEFINE v == tags[3]
  <2>1. Len(line) >= 3 /\ 3 \in 2 .. Len(line) /\ 3 - 1 = 2 /\ rest[1] = v
    <3>1. Len(line') >= 1
      <4>1. line' \in Seq(OnLine)
        BY <1>1
      <4>. HIDE DEF OnLine
      <4>. QED
        BY <1>8, <4>1
    <3>2. Len(line) >= 3
      <4>1. Len(line') = Len(line) - 2
        <5>. HIDE DEF OnLine
        <5>. QED
          BY <1>1
      <4>. QED
        BY <1>1, <3>1, <4>1
    <3>3. rest[1] = tags[3]
      <4>. HIDE DEF TagSet
      <4>. QED
        BY <1>1, <3>2
    <3>. QED
      BY <1>1, <3>2, <3>3
  <2>2. v \in TagSet /\ Follows(b, u, v)
    <3>1. v \in TagSet
      <4>. HIDE DEF TagSet
      <4>. QED
        BY <1>1, <2>1
    <3>2. Follows(line[3 - 1], tags[3 - 1], tags[3])
      BY <2>1 DEF Tagged
    <3>. QED
      BY <2>1, <3>1, <3>2
  <2>. SUFFICES ASSUME v.msg # NoMessage, v.at >= 1, ~Swallowed(v.msg.data)'
                PROVE  inbuf' = SubSeq(v.msg.data, 1, v.at - 1)
    BY <2>1 DEF InStep
  <2>3. u.msg # NoMessage /\ v.msg = u.msg /\ v.at = u.at + 1
    <3>1. ~v.half
      BY <1>3, <2>2 DEF Follows, Opens
    <3>2. v.at # 0
      BY <2>2
    <3>. QED
      BY <2>2, <3>1, <3>2 DEF Follows
  <2>4. /\ t.msg # NoMessage /\ u.msg = t.msg /\ u.at = t.at
        /\ t.at \in 1 .. Len(t.msg.data) /\ c = t.msg.data[t.at]
    BY <1>6, <2>3
  <2>5. inbuf' = SubSeq(t.msg.data, 1, t.at)
    <3>1. ~Swallowed(t.msg.data)'
      BY <2>3, <2>4, Zenon
    <3>. QED
      BY <1>1, <1>2, <2>4, <3>1, StoredInStep
  <2>6. v.at - 1 = t.at
    <3>1. t.at \in Nat
      BY <1>2, <2>4, TagFacts
    <3>. QED
      BY <2>3, <2>4, <3>1
  <2>. QED
    BY <2>3, <2>4, <2>5, <2>6
<1>. HIDE DEF rest
<1>9. (\E to : Tagged(line, to) /\ (line # << >> => InStep(inbuf, to[1])))'
  BY <1>4, <1>8, Zenon
<1>10. IntactFrameHandled'
  BY <1>7, Zenon DEF IntactFrameHandled
<1>. QED
  BY <1>9, <1>10, Zenon DEF WholeInv

\* What takes no byte off the line keeps inbuf in step.
LEMMA TurnInStep ==
  ASSUME Inv, NEW tags, Tagged(line, tags), NEW buf,
         line # << >> => InStep(buf, tags[1]), Turn(buf)
  PROVE  WholeInv'
<1>0. verbose' = verbose
  BY DEF Turn
<1>1. CASE Plain(buf)
  BY <1>0, <1>1, PlainInStep DEF Plain
<1>2. CASE EscapedByte(buf)
  <2>1. line # << >>
    <3>1. line \in Seq(OnLine) /\ Len(line) >= 2
      BY <1>2 DEF Inv, TypeOK, OnLine, EscapedByte
    <3>. QED
      BY <3>1
  <2>. QED
    BY <1>0, <1>2, <2>1, PairInStep
<1>3. CASE GiveBack(buf)
  <2>1. line' = line /\ inbuf' = buf /\ last' = NoMessage
    BY <1>3 DEF GiveBack
  <2>2. InStep(buf, tags[1]) => InStep(inbuf, tags[1])'
    BY <1>0, <2>1, SwallowedKept DEF InStep
  <2>3. (\E to : Tagged(line, to) /\ (line # << >> => InStep(inbuf, to[1])))'
    BY <2>1, <2>2, Zenon
  <2>4. last' \notin Messages
    BY <2>1, MessageFacts
  <2>. QED
    BY <2>3, <2>4, Zenon DEF WholeInv, IntactFrameHandled
<1>. QED
  BY <1>1, <1>2, <1>3 DEF Turn

\* A message of which nothing is lost fits: the test at read_more drops
\* nothing of it.
LEMMA RoomInStep ==
  ASSUME Inv, NEW b, NEW t \in TagSet, Placed(b, t), InStep(inbuf, t)
  PROVE  InStep(Room, t)
<1>. SUFFICES ASSUME t.msg # NoMessage, t.at >= 1, ~Swallowed(t.msg.data)
              PROVE  Room = SubSeq(t.msg.data, 1, t.at - 1)
  BY DEF InStep
<1>. DEFINE d == t.msg.data
            k == t.at - 1
<1>1. inbuf = SubSeq(d, 1, k)
  BY DEF InStep
<1>2. d \in Seq(Bytes) /\ Len(d) \in Nat /\ Len(d) < InbufSize /\ t.at \in Nat /\ InbufSize \in Nat
  BY TagFacts, SlipInputAssumption
<1>3. k \in 0 .. Len(d)
  <2>1. t.at \in 1 .. Len(d) \/ t.at = Len(d) + 1
    BY <1>2 DEF Placed, Belongs, Final
  <2>. QED
    BY <1>2, <2>1
<1>4. Len(inbuf) = k
  <2>. HIDE DEF d, k
  <2>. QED
    BY <1>1, <1>2, <1>3
<1>5. Len(inbuf) < InbufSize
  BY <1>2, <1>3, <1>4
<1>. QED
  BY <1>1, <1>5, RoomIsLeft

LEMMA ArrivesInStep ==
  ASSUME Inv, WholeInv, NEW c \in Seq(OnLine), NEW u, Tagged(c, u), c # << >> => Starts(u[1]),
         Arrives(c)
  PROVE  WholeInv'
<1>1. PICK t : Tagged(line, t) /\ (line # << >> => InStep(inbuf, t[1]))
  BY Zenon DEF WholeInv
<1>2. /\ line \in Seq(OnLine) /\ line' = line \o c /\ last' = NoMessage
      /\ inbuf' = inbuf /\ verbose' = verbose
  BY DEF Inv, TypeOK, OnLine, Arrives
<1>3. last' \notin Messages
  BY <1>2, MessageFacts
<1>4. CASE c = << >>
  <2>1. line' = line
    <3>. HIDE DEF OnLine
    <3>. QED
      BY <1>2, <1>4
  <2>2. InStep(inbuf, t[1]) => InStep(inbuf, t[1])'
    BY <1>2, SwallowedKept DEF InStep
  <2>3. (\E to : Tagged(line, to) /\ (line # << >> => InStep(inbuf, to[1])))'
    BY <1>1, <2>1, <2>2, Zenon
  <2>. QED
    BY <1>3, <2>3, Zenon DEF WholeInv, IntactFrameHandled
<1>5. CASE c # << >>
  <2>. DEFINE tu == t \o u
  <2>1. Len(c) >= 1
    <3>. HIDE DEF OnLine
    <3>. QED
      BY <1>5
  <2>2. Tagged(line', tu)
    <3>1. Tagged(line \o c, t \o u)
      <4>. HIDE DEF OnLine
      <4>. QED
        BY <1>1, <1>2, <1>5, <2>1, TaggedConcat
    <3>. QED
      BY <1>2, <3>1
  <2>3. tu[1] = IF line = << >> THEN u[1] ELSE t[1]
    <3>1. /\ t \in Seq(TagSet) /\ u \in Seq(TagSet) /\ Len(t) = Len(line) /\ Len(u) = Len(c)
          /\ Len(line) \in Nat /\ Len(c) \in Nat /\ (line = << >> <=> Len(line) = 0)
      <4>1. Len(line) \in Nat /\ (line = << >> <=> Len(line) = 0) /\ Len(c) \in Nat
        <5>. HIDE DEF OnLine
        <5>. QED
          BY <1>2
      <4>. QED
        BY <1>1, <4>1 DEF Tagged
    <3>2. IsConcat(TagSet, t, u, tu)
      <4>. HIDE DEF TagSet
      <4>. QED
        BY <3>1, ConcatElements
    <3>. HIDE DEF tu, TagSet
    <3>3. CASE line = << >>
      <4>1. 1 \in 1 .. Len(u) /\ Len(t) + 1 = 1
        BY <2>1, <3>1, <3>3
      <4>. QED
        BY <3>2, <3>3, <4>1 DEF IsConcat
    <3>4. CASE line # << >>
      <4>1. 1 \in 1 .. Len(t)
        BY <3>1, <3>4
      <4>. QED
        BY <3>2, <3>4, <4>1 DEF IsConcat
    <3>. QED
      BY <3>3, <3>4
  <2>. HIDE DEF tu
  <2>4. InStep(inbuf, tu[1])'
    <3>1. CASE line = << >>
      <4>1. tu[1].msg = NoMessage \/ tu[1].at = 0
        BY <1>5, <2>3, <3>1 DEF Starts
      <4>. QED
        BY <4>1 DEF InStep
    <3>2. CASE line # << >>
      <4>1. tu[1] = t[1] /\ InStep(inbuf, t[1])
        BY <1>1, <2>3, <3>2
      <4>2. InStep(inbuf, t[1]) => InStep(inbuf, t[1])'
        BY <1>2, SwallowedKept DEF InStep
      <4>. QED
        BY <4>1, <4>2, Zenon
    <3>. QED
      BY <3>1, <3>2
  <2>5. (\E to : Tagged(line, to) /\ (line # << >> => InStep(inbuf, to[1])))'
    BY <2>2, <2>4, Zenon
  <2>. QED
    BY <1>3, <2>5, Zenon DEF WholeInv, IntactFrameHandled
<1>. QED
  BY <1>4, <1>5

\* A message with a byte lost ends with SLIP_END or with what is in front of
\* it: never with the first half of a pair.
LEMMA LosingEnd ==
  ASSUME NEW m \in Messages, NEW i \in DOMAIN Wire(m)
  PROVE  LET w == RemoveAt(Wire(m), i) IN
         w \in Seq(Bytes) /\ (w # << >> => w[Len(w)] # SLIP_ESC)
<1>. DEFINE v == Wire(m)
            N == Len(Body(m))
            p == SubSeq(v, 1, i - 1)
            r == SubSeq(v, i + 1, Len(v))
            w == p \o r
<1>1. /\ v \in Seq(Bytes) /\ Len(v) = N + 1 /\ N \in Nat /\ N >= 1
      /\ v[N + 1] # SLIP_ESC /\ v[N] # SLIP_ESC
  <2>1. SLIP_END # SLIP_ESC /\ (N >= 1 /\ N \in Nat => N \in 1 .. N)
    BY DEF SLIP_END, SLIP_ESC
  <2>. QED
    BY <2>1, BodyFacts
<1>. HIDE DEF v, N
<1>2. i \in 1 .. N + 1
  BY <1>1 DEF v
<1>3. /\ p \in Seq(Bytes) /\ Len(p) = i - 1
      /\ \A j \in 1 .. i - 1 : p[j] = v[j]
  BY <1>1, <1>2
<1>4. /\ r \in Seq(Bytes) /\ Len(r) = N + 1 - i
      /\ \A j \in 1 .. N + 1 - i : r[j] = v[i + j]
  BY <1>1, <1>2, Remainder
<1>5. IsConcat(Bytes, p, r, w)
  <2>. HIDE DEF p, r
  <2>. QED
    BY <1>3, <1>4, ConcatElements
<1>. HIDE DEF p, r, w
<1>6. w \in Seq(Bytes) /\ Len(w) = N
  BY <1>1, <1>2, <1>3, <1>4, <1>5 DEF IsConcat
<1>7. CASE i = N + 1
  <2>1. N \in 1 .. Len(p) /\ N \in 1 .. i - 1
    BY <1>1, <1>3, <1>7
  <2>2. w[N] = p[N] /\ p[N] = v[N]
    BY <1>3, <1>5, <2>1 DEF IsConcat
  <2>. QED
    BY <1>1, <1>6, <2>2 DEF w, v, p, r, RemoveAt
<1>8. CASE i # N + 1
  <2>1. N + 1 - i \in 1 .. Len(r) /\ Len(p) + (N + 1 - i) = N /\ i + (N + 1 - i) = N + 1
    BY <1>1, <1>2, <1>3, <1>4, <1>8
  <2>2. w[N] = r[N + 1 - i] /\ r[N + 1 - i] = v[N + 1]
    BY <1>4, <1>5, <2>1 DEF IsConcat
  <2>. QED
    BY <1>1, <1>6, <2>2 DEF w, v, p, r, RemoveAt
<1>. QED
  BY <1>7, <1>8

LEMMA WholeInvKept == Inv /\ WholeInv /\ [Next]_vars => WholeInv'
<1>. SUFFICES ASSUME Inv, WholeInv, [Next]_vars PROVE WholeInv'
  OBVIOUS
<1>1. PICK t : Tagged(line, t) /\ (line # << >> => InStep(inbuf, t[1]))
  BY Zenon DEF WholeInv
<1>2. ASSUME NEW m \in Messages, Send(m)
      PROVE  WholeInv'
  <2>1. PICK u : Tagged(Marked(Wire(m), m), u) /\ Starts(u[1])
    BY WholeTags
  <2>2. Marked(Wire(m), m) \in Seq(OnLine)
    BY WireIsEscaped, MarkedOnLine
  <2>. QED
    BY <1>2, <2>1, <2>2, ArrivesInStep DEF Send
<1>3. ASSUME NEW m \in Messages, SendLosing(m)
      PROVE  WholeInv'
  <2>1. PICK i \in DOMAIN Wire(m) : Arrives(Marked(RemoveAt(Wire(m), i), NoMessage))
    BY <1>3 DEF SendLosing
  <2>. DEFINE w == RemoveAt(Wire(m), i)
              c == Marked(w, NoMessage)
  <2>2. w \in Seq(Bytes) /\ (w # << >> => w[Len(w)] # SLIP_ESC)
    BY LosingEnd
  <2>. HIDE DEF w
  <2>3. PICK u : Tagged(c, u) /\ (w # << >> => Starts(u[1]))
    BY <2>2, LosingTags
  <2>4. c \in Seq(OnLine) /\ (c # << >> => w # << >>)
    <3>1. c \in Seq(OnLine) /\ Len(c) = Len(w)
      BY <2>2, MarkedOnLine
    <3>. HIDE DEF c, OnLine
    <3>. QED
      BY <2>2, <3>1
  <2>5. Arrives(c)
    BY <2>1 DEF w
  <2>. HIDE DEF c
  <2>. QED
    BY <2>3, <2>4, <2>5, ArrivesInStep
<1>4. ASSUME line # << >>
      PROVE  InStep(Room, t[1])
  <2>1. /\ t \in Seq(TagSet) /\ Len(t) = Len(line) /\ Len(line) \in Nat
        /\ 1 \in 1 .. Len(line)
    <3>1. line \in Seq(OnLine)
      BY DEF Inv, TypeOK, OnLine
    <3>2. Len(line) \in Nat /\ 1 \in 1 .. Len(line)
      <4>. HIDE DEF OnLine
      <4>. QED
        BY <1>4, <3>1
    <3>. QED
      BY <1>1, <3>2 DEF Tagged
  <2>2. t[1] \in TagSet
    <3>. HIDE DEF TagSet
    <3>. QED
      BY <2>1
  <2>3. Placed(line[1], t[1])
    BY <1>1, <2>1 DEF Tagged
  <2>. QED
    BY <1>1, <1>4, <2>2, <2>3, RoomInStep
<1>5. CASE Call
  BY <1>1, <1>5, TurnInStep DEF Call
<1>6. CASE ReadMore
  BY <1>1, <1>4, <1>6, TurnInStep DEF ReadMore
<1>7. CASE EndOfInput
  <2>1. line' = line /\ inbuf' = Room /\ last' = NoMessage /\ verbose' = verbose
    BY <1>7 DEF EndOfInput
  <2>2. InStep(Room, t[1]) => InStep(inbuf, t[1])'
    BY <2>1, SwallowedKept DEF InStep
  <2>3. (\E to : Tagged(line, to) /\ (line # << >> => InStep(inbuf, to[1])))'
    BY <1>1, <1>4, <2>1, <2>2, Zenon
  <2>4. last' \notin Messages
    BY <2>1, MessageFacts
  <2>. QED
    BY <2>3, <2>4, Zenon DEF WholeInv, IntactFrameHandled
<1>8. CASE UNCHANGED vars
  <2>1. /\ line' = line /\ inbuf' = inbuf /\ last' = last /\ handled' = handled
        /\ verbose' = verbose
    BY <1>8 DEF vars
  <2>2. InStep(inbuf, t[1]) => InStep(inbuf, t[1])'
    BY <2>1, SwallowedKept DEF InStep
  <2>3. (\E to : Tagged(line, to) /\ (line # << >> => InStep(inbuf, to[1])))'
    BY <1>1, <2>1, <2>2, Zenon
  <2>4. IntactFrameHandled'
    <3>1. IntactFrameHandled
      BY Zenon DEF WholeInv
    <3>. QED
      BY <2>1, <3>1 DEF IntactFrameHandled, Swallowed, EchoesLines
  <2>. QED
    BY <2>3, <2>4, Zenon DEF WholeInv
<1>. QED
  BY <1>2, <1>3, <1>5, <1>6, <1>7, <1>8 DEF Next, Radio, Host

\* A message of which no byte is lost is handed on as what it is with its
\* last byte, however serial_input is called and whatever the messages
\* around it have lost.
THEOREM Intact == Spec => []IntactFrameHandled
<1>1. Init => WholeInv
  <2>. SUFFICES ASSUME Init PROVE WholeInv
    OBVIOUS
  <2>1. line = << >> /\ last = NoMessage
    BY DEF Init
  <2>2. Tagged(line, << >>)
    <3>1. /\ << >> \in Seq(TagSet) /\ Len(<< >>) = 0
          /\ 1 .. 0 = {} /\ 2 .. 0 = {} /\ ~(0 >= 1)
      <4>. HIDE DEF TagSet
      <4>. QED
        OBVIOUS
    <3>. QED
      BY <2>1, <3>1, Zenon DEF Tagged
  <2>3. last \notin Messages
    BY <2>1, MessageFacts
  <2>. QED
    BY <2>1, <2>2, <2>3, Zenon DEF WholeInv, IntactFrameHandled
<1>2. WholeInv => IntactFrameHandled
  BY Zenon DEF WholeInv
<1>. QED
  BY <1>1, <1>2, InvHolds, WholeInvKept, PTL DEF Spec
=============================================================================
