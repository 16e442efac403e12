-------------------------- MODULE SlipBytesProofs ---------------------------
(***************************************************************************)
(* Facts about sequences put together piece by piece, and about what       *)
(* escaping makes of a packet, for packets of any length.                  *)
(***************************************************************************)
EXTENDS SlipBytes, Induction

(***************************************************************************)
(* Parts of sequences.                                                     *)
(***************************************************************************)

\* What is left of s behind its first k elements.
LEMMA Remainder ==
  ASSUME NEW S, NEW s \in Seq(S), NEW k \in 0 .. Len(s)
  PROVE  /\ SubSeq(s, k + 1, Len(s)) \in Seq(S)
         /\ Len(SubSeq(s, k + 1, Len(s))) = Len(s) - k
         /\ \A i \in 1 .. Len(s) - k : SubSeq(s, k + 1, Len(s))[i] = s[k + i]
<1>1. \A i \in k + 1 .. Len(s) : s[i] \in S
  OBVIOUS
<1>2. /\ SubSeq(s, k + 1, Len(s)) \in Seq(S)
      /\ Len(SubSeq(s, k + 1, Len(s))) = IF k + 1 <= Len(s) THEN Len(s) - (k + 1) + 1 ELSE 0
      /\ \A i \in 1 .. Len(s) - (k + 1) + 1 : SubSeq(s, k + 1, Len(s))[i] = s[k + 1 + i - 1]
  BY <1>1, SubSeqProperties
<1>. QED
  BY <1>2

\* The elements of a concatenation.
IsConcat(S, s, t, st) ==
  /\ st \in Seq(S) /\ Len(st) = Len(s) + Len(t)
  /\ \A i \in 1 .. Len(s) : st[i] = s[i]
  /\ \A i \in 1 .. Len(t) : st[Len(s) + i] = t[i]

LEMMA ConcatElements ==
  ASSUME NEW S, NEW s \in Seq(S), NEW t \in Seq(S)
  PROVE  IsConcat(S, s, t, s \o t)
BY DEF IsConcat

\* What is appended to a concatenation is appended to its second part.
AppendsToSecond(s, t, e) == Append(s \o t, e) = s \o Append(t, e)

LEMMA AppendToConcat ==
  ASSUME NEW S, NEW s \in Seq(S), NEW t \in Seq(S), NEW e \in S
  PROVE  AppendsToSecond(s, t, e)
BY DEF AppendsToSecond

\* With its leading element away, what is shifted by one is in its place.
LEMMA TailOfShifted ==
  ASSUME NEW S, NEW c \in S, NEW f \in Seq(S), NEW t \in Seq(S),
         t # << >>, f \o <<c>> = <<c>> \o t
  PROVE  Tail(f) \in Seq(S) /\ Tail(f) \o <<c>> = t
<1>. DEFINE p == f \o <<c>>
            q == <<c>> \o t
            r == Tail(f) \o <<c>>
<1>1. Len(f) \in Nat /\ Len(t) \in Nat /\ Len(t) >= 1
  OBVIOUS
<1>2. /\ Len(p) = Len(f) + 1 /\ p[Len(f) + 1] = c
      /\ \A i \in 1 .. Len(f) : p[i] = f[i]
  OBVIOUS
<1>3. Len(q) = Len(t) + 1 /\ \A i \in 1 .. Len(t) : q[i + 1] = t[i]
  OBVIOUS
<1>4. p = q
  OBVIOUS
<1>. HIDE DEF p, q
<1>5. Len(f) = Len(t)
  BY <1>1, <1>2, <1>3, <1>4
<1>6. /\ Tail(f) \in Seq(S) /\ Len(Tail(f)) = Len(f) - 1
      /\ \A i \in 1 .. Len(f) - 1 : Tail(f)[i] = f[i + 1]
  <2>1. f # << >>
    BY <1>1, <1>5
  <2>. QED
    BY <2>1, HeadTailProperties
<1>7. /\ r \in Seq(S) /\ Len(r) = Len(f) /\ r[Len(f)] = c
      /\ \A i \in 1 .. Len(f) - 1 : r[i] = f[i + 1]
  BY <1>1, <1>5, <1>6
<1>. HIDE DEF r
<1>8. ASSUME NEW i \in 1 .. Len(r)
      PROVE  r[i] = t[i]
  <2>1. t[i] = p[i + 1] /\ i + 1 \in 1 .. Len(f) + 1
    BY <1>1, <1>3, <1>4, <1>5, <1>7
  <2>2. CASE i = Len(f)
    BY <1>2, <1>7, <2>1, <2>2
  <2>3. CASE i # Len(f)
    <3>1. i \in 1 .. Len(f) - 1 /\ i + 1 \in 1 .. Len(f)
      BY <1>1, <1>5, <1>7, <2>3
    <3>. QED
      BY <1>2, <1>7, <2>1, <3>1
  <2>. QED
    BY <2>2, <2>3
<1>9. r = t
  BY <1>5, <1>7, <1>8, SeqEqual
<1>. QED
  BY <1>6, <1>9 DEF r

(***************************************************************************)
(* FlattenSeq as a walk over the pieces.                                   *)
(***************************************************************************)
IsWalk(g, seqs) ==
  g[0] = << >> /\ \A i \in 1 .. Len(seqs) : g[i] = g[i - 1] \o seqs[i]

LEMMA FlatteningExists ==
  ASSUME NEW S, NEW seqs \in Seq(Seq(S))
  PROVE  \E g \in [0 .. Len(seqs) -> Seq(S)] : IsWalk(g, seqs)
<1>. DEFINE N == Len(seqs)
            step == [p \in (1 .. N) \X Seq(S) |-> p[2] \o seqs[p[1]]]
<1>1. N \in Nat /\ << >> \in Seq(S)
  OBVIOUS
<1>2. \A i \in 1 .. N, s \in Seq(S) : s \o seqs[i] \in Seq(S)
  OBVIOUS
<1>3. IsStep(step, N, Seq(S))
  <2>1. \A p \in (1 .. N) \X Seq(S) : p[2] \o seqs[p[1]] \in Seq(S)
    BY <1>2
  <2>. QED
    BY <2>1, Zenon DEF IsStep
<1>4. \A i \in 1 .. N, s \in Seq(S) : step[<<i, s>>] = s \o seqs[i]
  OBVIOUS
<1>. HIDE DEF step, N
<1>5. PICK g \in Walks(step, N, Seq(S), << >>) : TRUE
  BY <1>1, <1>3, WalkExists
<1>6. /\ g \in [0 .. N -> Seq(S)] /\ g[0] = << >>
      /\ \A i \in 1 .. N : g[i] = step[<<i, g[i - 1]>>]
  BY <1>5 DEF Walks
<1>7. ASSUME NEW i \in 1 .. N
      PROVE  g[i] = g[i - 1] \o seqs[i]
  <2>1. i - 1 \in 0 .. N
    BY <1>1
  <2>2. g[i - 1] \in Seq(S)
    BY <1>6, <2>1
  <2>. QED
    BY <1>4, <1>6, <2>2
<1>. QED
  BY <1>6, <1>7 DEF IsWalk, N

LEMMA FlattenIsWalk ==
  ASSUME NEW S, NEW seqs \in Seq(Seq(S)), NEW g \in [0 .. Len(seqs) -> Seq(S)],
         IsWalk(g, seqs)
  PROVE  FlattenSeq(seqs) = g[Len(seqs)] /\ FlattenSeq(seqs) \in Seq(S)
<1>. DEFINE N == Len(seqs)
            Step(h) == [i \in 1 .. N |-> IF i = 1 THEN seqs[i] ELSE h[i - 1] \o seqs[i]]
            flatten == CHOOSE h : h = Step(h)
            f == [i \in 1 .. N |-> g[i]]
            w == [i \in 0 .. N |-> IF i = 0 THEN << >> ELSE flatten[i]]
<1>1. N \in Nat /\ \A i \in 1 .. N : seqs[i] \in Seq(S)
  OBVIOUS
<1>2. CASE seqs = << >>
  BY <1>2 DEF FlattenSeq, IsWalk
<1>3. CASE seqs # << >>
  <2>1. FlattenSeq(seqs) = flatten[N] /\ N # 0
    BY <1>3 DEF FlattenSeq
  <2>2. f = Step(f)
    <3>1. ASSUME NEW i \in 1 .. N
          PROVE  f[i] = IF i = 1 THEN seqs[i] ELSE f[i - 1] \o seqs[i]
      <4>1. g[i] = g[i - 1] \o seqs[i]
        BY DEF IsWalk
      <4>2. CASE i = 1
        <5>1. i - 1 = 0 /\ g[0] = << >>
          BY <4>2 DEF IsWalk
        <5>2. seqs[i] \in Seq(S) /\ << >> \o seqs[i] = seqs[i]
          BY <1>1, ConcatEmptySeq
        <5>3. g[i - 1] = << >>
          BY <5>1, Zenon
        <5>4. f[i] = g[i]
          OBVIOUS
        <5>. HIDE DEF f
        <5>. QED
          BY <4>1, <4>2, <5>2, <5>3, <5>4, Zenon
      <4>3. CASE i # 1
        <5>1. i - 1 \in 1 .. N
          BY <1>1, <4>3
        <5>. QED
          BY <4>1, <4>3, <5>1
      <4>. QED
        BY <4>2, <4>3
    <3>. QED
      BY <3>1
  <2>3. flatten = Step(flatten)
    <3>. HIDE DEF Step, f
    <3>. QED
      BY <2>2
  <2>4. \A i \in 1 .. N : flatten[i] = IF i = 1 THEN seqs[i] ELSE flatten[i - 1] \o seqs[i]
    <3>. HIDE DEF flatten
    <3>. QED
      BY <2>3
  <2>. HIDE DEF flatten
  <2>5. ASSUME NEW i \in 1 .. N, w[i - 1] = g[i - 1]
        PROVE  w[i] = g[i]
    <3>1. g[i] = g[i - 1] \o seqs[i]
      BY DEF IsWalk
    <3>2. w[i] = flatten[i]
      BY <1>1
    <3>3. CASE i = 1
      <4>1. i - 1 = 0 /\ g[0] = << >>
        BY <3>3 DEF IsWalk
      <4>2. flatten[i] = seqs[i]
        BY <2>4, <3>3
      <4>. QED
        BY <1>1, <3>1, <3>2, <4>1, <4>2
    <3>4. CASE i # 1
      <4>1. flatten[i] = flatten[i - 1] \o seqs[i]
        BY <2>4, <3>4
      <4>2. w[i - 1] = flatten[i - 1]
        BY <1>1, <3>4
      <4>. QED
        BY <2>5, <3>1, <3>2, <4>1, <4>2
    <3>. QED
      BY <3>3, <3>4
  <2>6. w[0] = g[0]
    BY <1>1 DEF IsWalk
  <2>7. \A i \in 0 .. N : w[i] = g[i]
    <3>. HIDE DEF w, N
    <3>1. SameSteps(w, g, N)
      BY <2>5, <2>6 DEF SameSteps
    <3>. QED
      BY <1>1, <3>1, WalksAgree
  <2>8. w[N] = flatten[N]
    BY <1>1, <2>1
  <2>. QED
    BY <1>1, <2>1, <2>7, <2>8
<1>. QED
  BY <1>2, <1>3

LEMMA FlattenInSeq ==
  ASSUME NEW S, NEW seqs \in Seq(Seq(S))
  PROVE  FlattenSeq(seqs) \in Seq(S)
BY FlatteningExists, FlattenIsWalk

LEMMA FlattenAppend ==
  ASSUME NEW S, NEW seqs \in Seq(Seq(S)), NEW s \in Seq(S)
  PROVE  FlattenSeq(Append(seqs, s)) = FlattenSeq(seqs) \o s
<1>. DEFINE N == Len(seqs)
            long == Append(seqs, s)
<1>1. N \in Nat /\ long \in Seq(Seq(S)) /\ Len(long) = N + 1
  OBVIOUS
<1>2. (\A i \in 1 .. N : long[i] = seqs[i]) /\ long[N + 1] = s
  OBVIOUS
<1>. HIDE DEF long
<1>3. PICK g \in [0 .. Len(long) -> Seq(S)] : IsWalk(g, long)
  BY <1>1, FlatteningExists
<1>4. FlattenSeq(long) = g[N + 1]
  BY <1>1, <1>3, FlattenIsWalk
<1>5. g[N + 1] = g[N] \o s
  <2>1. N + 1 \in 1 .. Len(long) /\ (N + 1) - 1 = N
    BY <1>1
  <2>. QED
    BY <1>2, <1>3, <2>1 DEF IsWalk
<1>. DEFINE f == [i \in 0 .. N |-> g[i]]
<1>6. f \in [0 .. N -> Seq(S)]
  BY <1>1, <1>3
<1>7. IsWalk(f, seqs)
  <2>1. ASSUME NEW i \in 1 .. N
        PROVE  f[i] = f[i - 1] \o seqs[i]
    <3>1. i \in 1 .. Len(long) /\ i \in 0 .. N /\ i - 1 \in 0 .. N
      BY <1>1
    <3>2. g[i] = g[i - 1] \o long[i]
      BY <1>3, <3>1 DEF IsWalk
    <3>. QED
      BY <1>2, <3>1, <3>2
  <2>2. f[0] = << >>
    BY <1>1, <1>3 DEF IsWalk
  <2>. QED
    BY <2>1, <2>2 DEF IsWalk
<1>8. f[N] = g[N]
  BY <1>1
<1>9. FlattenSeq(seqs) = f[N]
  <2>. HIDE DEF f
  <2>. QED
    BY <1>6, <1>7, FlattenIsWalk
<1>. QED
  BY <1>4, <1>5, <1>8, <1>9 DEF long

(***************************************************************************)
(* Escaped, byte by byte.                                                  *)
(***************************************************************************)
Codes == {SLIP_ESC, SLIP_ESC_END, SLIP_ESC_ESC}

LEMMA EscapeInSeq ==
  ASSUME NEW S, NEW b \in S
  PROVE  Escape(b) \in Seq(S \cup Codes)
BY DEF Escape, Codes

LEMMA EscapedEmpty == Escaped(<< >>) = << >>
<1>1. [i \in DOMAIN << >> |-> Escape(<< >>[i])] = << >>
  OBVIOUS
<1>2. FlattenSeq(<< >>) = << >>
  BY DEF FlattenSeq
<1>. QED
  BY <1>1, <1>2 DEF Escaped

LEMMA EscapedAppend ==
  ASSUME NEW S, NEW p \in Seq(S), NEW b \in S
  PROVE  /\ Escaped(p) \in Seq(S \cup Codes)
         /\ Escaped(Append(p, b)) = Escaped(p) \o Escape(b)
<1>. DEFINE pieces == [i \in DOMAIN p |-> Escape(p[i])]
            long == [i \in DOMAIN Append(p, b) |-> Escape(Append(p, b)[i])]
            C == Seq(S \cup Codes)
<1>0. Len(p) \in Nat /\ DOMAIN p = 1 .. Len(p) /\ DOMAIN Append(p, b) = 1 .. Len(p) + 1
  OBVIOUS
<1>1. \A i \in 1 .. Len(p) : p[i] \in S /\ Escape(p[i]) \in C
  BY EscapeInSeq
<1>2. Escape(b) \in C
  BY EscapeInSeq
<1>. HIDE DEF C
<1>3. pieces \in Seq(C) /\ Len(pieces) = Len(p)
  BY <1>0, <1>1
<1>4. long = Append(pieces, Escape(b))
  <2>1. \A i \in 1 .. Len(p) : long[i] = pieces[i]
    BY <1>0
  <2>2. long[Len(p) + 1] = Escape(b)
    BY <1>0
  <2>3. long \in Seq(C) /\ Len(long) = Len(p) + 1
    <3>1. \A i \in 1 .. Len(p) + 1 : Escape(Append(p, b)[i]) \in C
      BY <1>1, <1>2
    <3>. QED
      BY <1>0, <3>1
  <2>. HIDE DEF long, pieces
  <2>. QED
    BY <1>2, <1>3, <2>1, <2>2, <2>3
<1>5. FlattenSeq(pieces) \in C /\ FlattenSeq(Append(pieces, Escape(b))) = FlattenSeq(pieces) \o Escape(b)
  <2>. HIDE DEF pieces
  <2>. QED
    BY <1>2, <1>3, FlattenInSeq, FlattenAppend DEF C
<1>. QED
  BY <1>4, <1>5 DEF Escaped, C

LEMMA EscapedInSeq ==
  ASSUME NEW S, NEW p \in Seq(S)
  PROVE  Escaped(p) \in Seq(S \cup Codes)
<1>1. CASE p = << >>
  <2>1. Escaped(p) = << >>
    BY <1>1, EscapedEmpty, Zenon
  <2>. QED
    BY <2>1
<1>2. CASE p # << >>
  <2>1. p[1] \in S
    BY <1>2
  <2>. QED
    BY <2>1, EscapedAppend
<1>. QED
  BY <1>1, <1>2

\* What is escaped has no SLIP_END in it, and a byte at least for each byte
\* of the packet.
LEMMA EscapedHasNoEnd ==
  ASSUME NEW S, NEW p \in Seq(S)
  PROVE  /\ \A i \in 1 .. Len(Escaped(p)) : Escaped(p)[i] # SLIP_END
         /\ Len(Escaped(p)) >= Len(p)
<1>. DEFINE Clean(w) == \A i \in 1 .. Len(w) : w[i] # SLIP_END
            T == {q \in Seq(S) : Clean(Escaped(q)) /\ Len(Escaped(q)) >= Len(q)}
<1>1. << >> \in T
  BY EscapedEmpty
<1>2. ASSUME NEW q \in T, NEW b \in S
      PROVE  Append(q, b) \in T
  <2>. DEFINE w == Escaped(q)
              e == Escape(b)
  <2>1. /\ w \in Seq(S \cup Codes) /\ e \in Seq(S \cup Codes)
        /\ Escaped(Append(q, b)) = w \o e
    BY EscapedAppend, EscapeInSeq
  <2>2. Clean(e) /\ Len(e) >= 1
    BY DEF Escape, SLIP_END, SLIP_ESC, SLIP_ESC_END, SLIP_ESC_ESC
  <2>3. Clean(w) /\ Len(w) >= Len(q) /\ q \in Seq(S)
    OBVIOUS
  <2>. HIDE DEF w, e
  <2>4. Clean(w \o e)
    BY <2>1, <2>2, <2>3
  <2>5. Len(w \o e) >= Len(Append(q, b))
    BY <2>1, <2>2, <2>3
  <2>6. /\ Append(q, b) \in Seq(S)
        /\ Clean(Escaped(Append(q, b)))
        /\ Len(Escaped(Append(q, b))) >= Len(Append(q, b))
    <3>. HIDE DEF Clean
    <3>. QED
      BY <2>1, <2>3, <2>4, <2>5
  <2>. QED
    BY <2>6
<1>. HIDE DEF T
<1>3. T = Seq(S)
  <2>1. T \in SUBSET Seq(S)
    BY DEF T
  <2>. QED
    BY <1>1, <1>2, <2>1, SequenceInduction
<1>4. p \in T
  BY <1>3
<1>. QED
  BY <1>4 DEF T

\* A packet without bytes of SLIP goes out as it is.
LEMMA EscapedIsPlain ==
  ASSUME NEW S, NEW p \in Seq(S), SLIP_END \notin S, SLIP_ESC \notin S
  PROVE  Escaped(p) = p
<1>. DEFINE T == {q \in Seq(S) : Escaped(q) = q}
<1>1. << >> \in T
  BY EscapedEmpty
<1>2. ASSUME NEW q \in T, NEW b \in S
      PROVE  Append(q, b) \in T
  <2>1. Escaped(Append(q, b)) = q \o <<b>>
    <3>1. Escape(b) = <<b>>
      BY DEF Escape
    <3>. QED
      BY <3>1, EscapedAppend
  <2>. QED
    BY <2>1
<1>. HIDE DEF T
<1>3. T = Seq(S)
  <2>1. T \in SUBSET Seq(S)
    BY DEF T
  <2>. QED
    BY <1>1, <1>2, <2>1, SequenceInduction
<1>. QED
  BY <1>3 DEF T
(***************************************************************************)
(* Where in the packet a byte of its escaped form belongs.                 *)
(***************************************************************************)

\* The byte c, read behind prev, codes the byte at k of the packet.
CodedByte(prev, c, k, packet) ==
  /\ k \in 1 .. Len(packet)
  /\ IF prev = SLIP_ESC THEN c # SLIP_ESC /\ Unescape(c) = packet[k]
     ELSE c = SLIP_ESC \/ (c # SLIP_END /\ c = packet[k])

NextAt(c, k) == IF c = SLIP_ESC THEN k ELSE k + 1

\* w is SLIP_END and codes, byte by byte, a beginning of the packet: the byte
\* at j of w belongs to the byte at[j] of the packet.
Coded(w, at, packet) ==
  /\ at \in Seq(Nat) /\ Len(at) = Len(w) /\ Len(w) >= 1
  /\ w[1] = SLIP_END /\ at[1] = 0
  /\ \A j \in 2 .. Len(w) : CodedByte(w[j - 1], w[j], at[j], packet)
  /\ \A j \in 2 .. Len(w) : at[j] = NextAt(w[j - 1], at[j - 1])

LEMMA CodedMore ==
  ASSUME NEW S, NEW w \in Seq(S), NEW at, NEW packet \in Seq(S), Coded(w, at, packet),
         NEW c \in S, CodedByte(w[Len(w)], c, NextAt(w[Len(w)], at[Len(w)]), packet)
  PROVE  Coded(Append(w, c), Append(at, NextAt(w[Len(w)], at[Len(w)])), packet)
<1>. DEFINE N == Len(w)
            k == NextAt(w[N], at[N])
            v == Append(w, c)
            to == Append(at, k)
<1>1. N \in Nat /\ N >= 1 /\ at \in Seq(Nat) /\ Len(at) = N
  BY DEF Coded
<1>2. k \in Nat
  BY <1>1 DEF NextAt
<1>3. Len(v) = N + 1 /\ v[N + 1] = c /\ \A j \in 1 .. N : v[j] = w[j]
  OBVIOUS
<1>4. /\ to \in Seq(Nat) /\ Len(to) = N + 1 /\ to[N + 1] = k
      /\ \A j \in 1 .. N : to[j] = at[j]
  <2>. HIDE DEF k, N
  <2>. QED
    BY <1>1, <1>2
<1>. HIDE DEF v, to, k
<1>5. ASSUME NEW j \in 2 .. N + 1
      PROVE  /\ CodedByte(v[j - 1], v[j], to[j], packet)
             /\ to[j] = NextAt(v[j - 1], to[j - 1])
  <2>1. CASE j = N + 1
    <3>1. j - 1 = N /\ N \in 1 .. N
      BY <1>1, <2>1
    <3>. QED
      BY <1>3, <1>4, <2>1, <3>1 DEF k
  <2>2. CASE j # N + 1
    <3>1. j \in 2 .. N /\ j \in 1 .. N /\ j - 1 \in 1 .. N
      BY <1>1, <2>2
    <3>. QED
      BY <1>3, <1>4, <3>1 DEF Coded
  <2>. QED
    BY <2>1, <2>2
<1>6. v[1] = SLIP_END /\ to[1] = 0
  BY <1>1, <1>3, <1>4 DEF Coded
<1>7. Coded(v, to, packet)
  BY <1>1, <1>3, <1>4, <1>5, <1>6 DEF Coded
<1>. QED
  BY <1>7 DEF v, to, k

LEMMA CodedLonger ==
  ASSUME NEW S, NEW w, NEW at, NEW packet \in Seq(S), NEW b \in S, Coded(w, at, packet)
  PROVE  Coded(w, at, Append(packet, b))
<1>. DEFINE long == Append(packet, b)
<1>1. /\ Len(packet) \in Nat /\ Len(long) = Len(packet) + 1
      /\ \A k \in 1 .. Len(packet) : long[k] = packet[k]
  OBVIOUS
<1>. HIDE DEF long
<1>2. \A k \in 1 .. Len(packet) : k \in 1 .. Len(long)
  BY <1>1
<1>3. \A x, c, k : CodedByte(x, c, k, packet) => CodedByte(x, c, k, long)
  BY <1>1, <1>2, Zenon DEF CodedByte
<1>4. Coded(w, at, long)
  BY <1>3, Zenon DEF Coded
<1>. QED
  BY <1>4 DEF long

\* SLIP_END and the escaped form of the packet code all of it, and the last
\* byte waits for no other.
CodesAll(at, packet) ==
  LET w == <<SLIP_END>> \o Escaped(packet) IN
  Coded(w, at, packet) /\ w[Len(w)] # SLIP_ESC /\ at[Len(w)] = Len(packet)

LEMMA EscapedCodes ==
  ASSUME NEW S, SLIP_END \in S, Codes \subseteq S, NEW packet \in Seq(S)
  PROVE  \E at : CodesAll(at, packet)
<1>. DEFINE T == {p \in Seq(S) : \E at : CodesAll(at, p)}
<1>1. << >> \in T
  <2>. DEFINE w == <<SLIP_END>> \o Escaped(<< >>)
              at == <<0>>
  <2>1. w = <<SLIP_END>>
    <3>1. <<SLIP_END>> \o << >> = <<SLIP_END>>
      OBVIOUS
    <3>. QED
      BY <3>1, EscapedEmpty, Zenon
  <2>2. Coded(w, at, << >>) /\ w[Len(w)] # SLIP_ESC /\ at[Len(w)] = Len(<< >>)
    BY <2>1 DEF Coded, SLIP_END, SLIP_ESC
  <2>3. CodesAll(at, << >>)
    BY <2>2 DEF CodesAll
  <2>. QED
    BY <2>3
<1>2. ASSUME NEW p \in T, NEW b \in S
      PROVE  Append(p, b) \in T
  <2>1. PICK at : CodesAll(at, p)
    OBVIOUS
  <2>. DEFINE w == <<SLIP_END>> \o Escaped(p)
              q == Append(p, b)
              k == Len(p) + 1
              N == Len(w)
  <2>2. /\ p \in Seq(S) /\ Escaped(p) \in Seq(S) /\ Escaped(q) = Escaped(p) \o Escape(b)
        /\ Escape(b) \in Seq(S)
    <3>1. S \cup Codes = S
      OBVIOUS
    <3>. QED
      BY <3>1, EscapedAppend, EscapeInSeq
  <2>3. w \in Seq(S) /\ <<SLIP_END>> \o Escaped(q) = w \o Escape(b)
    BY <2>2
  <2>4. Coded(w, at, p) /\ w[N] # SLIP_ESC /\ at[N] = Len(p)
    BY <2>1 DEF CodesAll
  <2>5. q \in Seq(S) /\ Len(q) = k /\ q[k] = b /\ k \in Nat /\ k \in 1 .. Len(q)
    BY <2>2
  <2>. HIDE DEF w, q
  <2>6. Coded(w, at, q)
    BY <2>2, <2>4, CodedLonger DEF q
  <2>7. NextAt(w[N], at[N]) = k
    BY <2>4 DEF NextAt
  <2>8. N \in Nat /\ N >= 1 /\ at \in Seq(Nat) /\ Len(at) = N
    BY <2>3, <2>6 DEF Coded
  <2>9. CASE Escape(b) = <<b>> /\ b # SLIP_END /\ b # SLIP_ESC
    <3>. DEFINE v == Append(w, b)
                to == Append(at, k)
    <3>1. CodedByte(w[N], b, k, q)
      BY <2>4, <2>5, <2>9 DEF CodedByte
    <3>2. Coded(v, to, q)
      BY <2>3, <2>5, <2>6, <2>7, <3>1, CodedMore
    <3>3. /\ <<SLIP_END>> \o Escaped(q) = v /\ Len(v) = N + 1
          /\ v[N + 1] = b /\ to[N + 1] = k
      BY <2>3, <2>5, <2>8, <2>9
    <3>. HIDE DEF v, to
    <3>4. CodesAll(to, q)
      BY <2>5, <2>9, <3>2, <3>3 DEF CodesAll
    <3>. QED
      BY <2>5, <3>4 DEF q
  <2>10. ASSUME NEW c \in S, Escape(b) = <<SLIP_ESC, c>>, c # SLIP_ESC, Unescape(c) = b
         PROVE  Append(p, b) \in T
    <3>. DEFINE x == Append(w, SLIP_ESC)
                xat == Append(at, k)
                v == Append(x, c)
                to == Append(xat, k)
    <3>0. SLIP_ESC \in S
      BY DEF Codes
    <3>1. CodedByte(w[N], SLIP_ESC, k, q)
      BY <2>4, <2>5 DEF CodedByte
    <3>2. Coded(x, xat, q)
      BY <2>3, <2>5, <2>6, <2>7, <3>0, <3>1, CodedMore
    <3>3. /\ x \in Seq(S) /\ Len(x) = N + 1 /\ x[N + 1] = SLIP_ESC /\ xat[N + 1] = k
          /\ xat \in Seq(Nat) /\ Len(xat) = N + 1
      BY <2>3, <2>5, <2>8, <3>0
    <3>4. <<SLIP_END>> \o Escaped(q) = v
      BY <2>3, <2>10, <3>0
    <3>. HIDE DEF x, xat
    <3>5. NextAt(x[Len(x)], xat[Len(x)]) = k
      BY <3>3 DEF NextAt
    <3>6. CodedByte(x[Len(x)], c, k, q)
      BY <2>5, <2>10, <3>3 DEF CodedByte
    <3>7. Coded(v, to, q)
      BY <2>5, <3>2, <3>3, <3>5, <3>6, CodedMore
    <3>8. Len(v) = N + 2 /\ v[N + 2] = c /\ to[N + 2] = k
      BY <2>5, <2>8, <2>10, <3>3
    <3>. HIDE DEF v, to
    <3>9. CodesAll(to, q)
      BY <2>5, <2>10, <3>4, <3>7, <3>8 DEF CodesAll
    <3>. QED
      BY <2>5, <3>9 DEF q
  <2>11. CASE b = SLIP_END
    <3>1. /\ Escape(b) = <<SLIP_ESC, SLIP_ESC_END>> /\ SLIP_ESC_END \in S
          /\ SLIP_ESC_END # SLIP_ESC /\ Unescape(SLIP_ESC_END) = b
      BY <2>11 DEF Escape, Unescape, Codes, SLIP_ESC_END, SLIP_ESC
    <3>. QED
      BY <2>10, <3>1
  <2>12. CASE b = SLIP_ESC
    <3>1. /\ Escape(b) = <<SLIP_ESC, SLIP_ESC_ESC>> /\ SLIP_ESC_ESC \in S
          /\ SLIP_ESC_ESC # SLIP_ESC /\ Unescape(SLIP_ESC_ESC) = b
      BY <2>12 DEF Escape, Unescape, Codes, SLIP_ESC_ESC, SLIP_ESC, SLIP_END, SLIP_ESC_END
    <3>. QED
      BY <2>10, <3>1
  <2>13. CASE b # SLIP_END /\ b # SLIP_ESC
    <3>1. Escape(b) = <<b>>
      BY <2>13 DEF Escape
    <3>. QED
      BY <2>9, <2>13, <3>1
  <2>. QED
    BY <2>11, <2>12, <2>13
<1>. HIDE DEF T
<1>3. T = Seq(S)
  <2>1. T \in SUBSET Seq(S)
    BY DEF T
  <2>. QED
    BY <1>1, <1>2, <2>1, SequenceInduction
<1>. QED
  BY <1>3 DEF T
=============================================================================
