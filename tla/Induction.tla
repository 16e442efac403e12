----------------------------- MODULE Induction ------------------------------
(***************************************************************************)
(* Facts about numbers that several proofs need, and induction, stated for *)
(* sets: of numbers, of sequences, and of the places of a walk.            *)
(***************************************************************************)
EXTENDS Naturals, SequenceTheorems, WellFoundedInduction, TLAPS

Before == {ss \in Nat \X Nat : ss[1] < ss[2]}

\* A set of numbers that is not empty has a least one: the byte the scan of
\* slip_flushbuf stops at, and the block memb_alloc takes.
LEMMA LeastElement ==
  ASSUME NEW T \in SUBSET Nat, T # {}
  PROVE  \E x \in T : \A y \in T : x <= y
<1>1. IsWellFoundedOn(Before, Nat)
  BY NatLessThanWellFounded DEF OpToRel, Before
<1>2. PICK x \in T : \A y \in T : <<y, x>> \notin Before
  BY <1>1, WFMin
<1>3. ASSUME NEW y \in T, y < x
      PROVE  <<y, x>> \in Before
  <2>. DEFINE ss == <<y, x>>
  <2>1. ss \in Nat \X Nat /\ ss[1] = y /\ ss[2] = x
    OBVIOUS
  <2>2. ss[1] < ss[2]
    BY <1>3, <2>1
  <2>. HIDE DEF ss
  <2>. QED
    BY <2>1, <2>2 DEF Before, ss
<1>4. \A y \in T : ~ (y < x)
  BY <1>2, <1>3, Zenon
<1>. QED
  BY <1>4

LEMMA SetInduction ==
  ASSUME NEW T \in SUBSET Nat, 0 \in T, \A n \in T : n + 1 \in T
  PROVE  T = Nat
<1>1. SUFFICES ASSUME Nat \ T # {}
               PROVE  FALSE
  OBVIOUS
<1>2. PICK x \in Nat \ T : \A y \in Nat \ T : x <= y
  BY <1>1, LeastElement
<1>3. x # 0 /\ x - 1 \in Nat /\ ~(x <= x - 1)
  BY <1>2
<1>4. x - 1 \in T
  BY <1>2, <1>3
<1>5. (x - 1) + 1 = x
  BY <1>2
<1>. QED
  BY <1>2, <1>4, <1>5

\* A set of sequences that has the empty one, and with each sequence those
\* that are longer by one, has them all.
LEMMA SequenceInduction ==
  ASSUME NEW S, NEW T \in SUBSET Seq(S), << >> \in T,
         \A s \in T, e \in S : Append(s, e) \in T
  PROVE  T = Seq(S)
<1>. DEFINE Lengths == {n \in Nat : \A s \in Seq(S) : Len(s) = n => s \in T}
<1>1. 0 \in Lengths
  OBVIOUS
<1>2. ASSUME NEW n \in Lengths
      PROVE  n + 1 \in Lengths
  <2>1. SUFFICES ASSUME NEW s \in Seq(S), Len(s) = n + 1
                 PROVE  s \in T
    OBVIOUS
  <2>2. PICK front \in Seq(S), e \in S : s = Append(front, e)
    <3>1. s # << >>
      BY <2>1
    <3>. QED
      BY <3>1, SequenceEmptyOrAppend
  <2>3. Len(front) = n
    BY <2>1, <2>2
  <2>4. front \in T
    BY <2>3
  <2>. QED
    BY <2>2, <2>4
<1>. HIDE DEF Lengths
<1>3. Lengths = Nat
  <2>1. Lengths \in SUBSET Nat
    BY DEF Lengths
  <2>. QED
    BY <1>1, <1>2, <2>1, SetInduction
<1>4. ASSUME NEW s \in Seq(S)
      PROVE  s \in T
  <2>1. Len(s) \in Lengths
    BY <1>3
  <2>. QED
    BY <2>1 DEF Lengths
<1>. QED
  BY <1>4

(***************************************************************************)
(* A walk over 1 .. N starts with a and does step at every place.          *)
(***************************************************************************)
IsStep(step, N, A) == step \in [(1 .. N) \X A -> A]

Walks(step, N, A, a) ==
  {g \in [0 .. N -> A] : g[0] = a /\ \A i \in 1 .. N : g[i] = step[<<i, g[i - 1]>>]}

LEMMA WalkExists ==
  ASSUME NEW A, NEW a \in A, NEW N \in Nat, NEW step, IsStep(step, N, A)
  PROVE  Walks(step, N, A, a) # {}
<1>. DEFINE Walk(n, g) == g[0] = a /\ \A i \in 1 .. n : g[i] = step[<<i, g[i - 1]>>]
            T == {n \in Nat : n <= N => \E g \in [0 .. n -> A] : Walk(n, g)}
<1>1. 0 \in T
  <2>. DEFINE g == [i \in 0 .. 0 |-> a]
  <2>1. g \in [0 .. 0 -> A] /\ Walk(0, g)
    OBVIOUS
  <2>. QED
    BY <2>1
<1>2. ASSUME NEW n \in T
      PROVE  n + 1 \in T
  <2>1. SUFFICES ASSUME n + 1 <= N
                 PROVE  \E g \in [0 .. n + 1 -> A] : Walk(n + 1, g)
    OBVIOUS
  <2>2. PICK f \in [0 .. n -> A] : Walk(n, f)
    BY <2>1
  <2>3. n \in Nat /\ n + 1 \in 1 .. N /\ f[n] \in A
    BY <2>1
  <2>. DEFINE g == [i \in 0 .. n + 1 |-> IF i = n + 1 THEN step[<<n + 1, f[n]>>] ELSE f[i]]
  <2>4. step[<<n + 1, f[n]>>] \in A
    BY <2>3 DEF IsStep
  <2>5. g \in [0 .. n + 1 -> A]
    BY <2>3, <2>4
  <2>6. g[0] = a
    BY <2>2, <2>3
  <2>7. ASSUME NEW i \in 1 .. n + 1
        PROVE  g[i] = step[<<i, g[i - 1]>>]
    <3>1. CASE i = n + 1
      <4>1. g[i] = step[<<n + 1, f[n]>>]
        BY <2>3, <3>1
      <4>2. g[i - 1] = f[n]
        BY <2>3, <3>1
      <4>. QED
        BY <3>1, <4>1, <4>2
    <3>2. CASE i # n + 1
      <4>1. i \in 1 .. n /\ i - 1 \in 0 .. n
        BY <2>3, <3>2
      <4>2. g[i] = f[i] /\ g[i - 1] = f[i - 1]
        BY <2>3, <3>2, <4>1
      <4>. QED
        BY <2>2, <4>1, <4>2
    <3>. QED
      BY <3>1, <3>2
  <2>. QED
    BY <2>5, <2>6, <2>7
<1>. HIDE DEF T
<1>3. T = Nat
  <2>1. T \in SUBSET Nat
    BY DEF T
  <2>. QED
    BY <1>1, <1>2, <2>1, SetInduction
<1>4. N \in T /\ N <= N
  BY <1>3
<1>. QED
  BY <1>4 DEF T, Walks

\* Two walks that do the same steps agree.
SameSteps(f, g, N) ==
  f[0] = g[0] /\ \A i \in 1 .. N : f[i - 1] = g[i - 1] => f[i] = g[i]

LEMMA WalksAgree ==
  ASSUME NEW N \in Nat, NEW f, NEW g, SameSteps(f, g, N)
  PROVE  \A i \in 0 .. N : f[i] = g[i]
<1>. DEFINE T == {n \in Nat : n <= N => f[n] = g[n]}
<1>1. ASSUME NEW n \in T
      PROVE  n + 1 \in T
  <2>1. SUFFICES ASSUME n + 1 <= N
                 PROVE  f[n + 1] = g[n + 1]
    OBVIOUS
  <2>2. n + 1 \in 1 .. N /\ (n + 1) - 1 = n /\ f[n] = g[n]
    BY <2>1
  <2>. QED
    BY <2>2 DEF SameSteps
<1>. HIDE DEF T
<1>2. 0 \in T /\ T \in SUBSET Nat
  BY DEF T, SameSteps
<1>3. T = Nat
  BY <1>1, <1>2, SetInduction
<1>. QED
  BY <1>3 DEF T
=============================================================================
