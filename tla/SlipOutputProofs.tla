-------------------------- MODULE SlipOutputProofs --------------------------
(***************************************************************************)
(* Theorems about SlipOutput and their proofs, for any packets, any buffer *)
(* size and any way the writes are cut.                                    *)
(*                                                                         *)
(* FrameBoundary is not inductive: slip_flushbuf looks for the end of the  *)
(* next frame from the second byte on, and finds it because no frame is    *)
(* empty and the buffer ends where a frame ends.  Inv adds both.           *)
(***************************************************************************)
EXTENDS SlipOutput, SlipBytesProofs

\* The buffer ends where a frame ends.
Ended(buf) == buf # << >> => buf[Len(buf)] = SLIP_END

\* No frame in the buffer is empty.
NoEmptyFrame(buf) ==
  \A i \in DOMAIN buf : i < Len(buf) /\ buf[i] = SLIP_END => buf[i + 1] # SLIP_END

\* The first frame of buf ends at e.
EndsAt(buf, e) == \A i \in 1 .. e : buf[i] = SLIP_END <=> i = e

Inv == TypeOK /\ FrameBoundary /\ Ended(slip_buf) /\ NoEmptyFrame(slip_buf)

-----------------------------------------------------------------------------
(* Positions and tails of sequences. *)

\* The remainder of a remainder.
LEMMA RemainderTwice ==
  ASSUME NEW S, NEW s \in Seq(S), NEW k \in Nat, NEW n \in Nat, k + n <= Len(s)
  PROVE  SubSeq(SubSeq(s, k + 1, Len(s)), n + 1, Len(SubSeq(s, k + 1, Len(s))))
           = SubSeq(s, k + n + 1, Len(s))
<1>. DEFINE t == SubSeq(s, k + 1, Len(s))
            u == SubSeq(t, n + 1, Len(t))
            v == SubSeq(s, k + n + 1, Len(s))
<1>1. t \in Seq(S) /\ Len(t) = Len(s) - k /\ \A i \in 1 .. Len(s) - k : t[i] = s[k + i]
  BY Remainder
<1>2. v \in Seq(S) /\ Len(v) = Len(s) - (k + n) /\ \A i \in 1 .. Len(s) - (k + n) : v[i] = s[k + n + i]
  <2>. k + n \in 0 .. Len(s)
    OBVIOUS
  <2>. QED
    BY Remainder
<1>. HIDE DEF t
<1>3. u \in Seq(S) /\ Len(u) = Len(t) - n /\ \A i \in 1 .. Len(t) - n : u[i] = t[n + i]
  <2>. n \in 0 .. Len(t)
    BY <1>1
  <2>. QED
    BY <1>1, Remainder
<1>. HIDE DEF u, v
<1>4. Len(u) = Len(v) /\ Len(u) = Len(s) - (k + n)
  BY <1>1, <1>2, <1>3
<1>5. ASSUME NEW i \in 1 .. Len(u)
      PROVE  u[i] = v[i]
  <2>1. n + i \in 1 .. Len(s) - k /\ i \in 1 .. Len(t) - n /\ i \in 1 .. Len(s) - (k + n)
    BY <1>1, <1>4
  <2>2. u[i] = t[n + i] /\ t[n + i] = s[k + (n + i)] /\ v[i] = s[k + n + i]
    BY <1>1, <1>2, <1>3, <2>1
  <2>. QED
    BY <2>1, <2>2
<1>6. u = v
  BY <1>2, <1>3, <1>4, <1>5, SeqEqual
<1>. QED
  BY <1>6 DEF t, u, v

\* Appending commutes with taking the remainder.
LEMMA RemainderAppend ==
  ASSUME NEW S, NEW s \in Seq(S), NEW f \in Seq(S), NEW k \in 0 .. Len(s)
  PROVE  SubSeq(s \o f, k + 1, Len(s \o f)) = SubSeq(s, k + 1, Len(s)) \o f
<1>. DEFINE c == s \o f
            t == SubSeq(s, k + 1, Len(s))
            u == SubSeq(c, k + 1, Len(c))
            v == t \o f
<1>1. /\ c \in Seq(S) /\ Len(c) = Len(s) + Len(f)
      /\ \A i \in 1 .. Len(s) + Len(f) : c[i] = IF i <= Len(s) THEN s[i] ELSE f[i - Len(s)]
  BY ConcatProperties
<1>2. t \in Seq(S) /\ Len(t) = Len(s) - k /\ \A i \in 1 .. Len(s) - k : t[i] = s[k + i]
  BY Remainder
<1>. HIDE DEF c, t
<1>3. u \in Seq(S) /\ Len(u) = Len(c) - k /\ \A i \in 1 .. Len(c) - k : u[i] = c[k + i]
  <2>. k \in 0 .. Len(c)
    BY <1>1
  <2>. QED
    BY <1>1, Remainder
<1>4. /\ v \in Seq(S) /\ Len(v) = Len(t) + Len(f)
      /\ \A i \in 1 .. Len(t) + Len(f) : v[i] = IF i <= Len(t) THEN t[i] ELSE f[i - Len(t)]
  BY <1>2, ConcatProperties
<1>. HIDE DEF u, v
<1>5. Len(u) = Len(v)
  BY <1>1, <1>2, <1>3, <1>4
<1>6. ASSUME NEW i \in 1 .. Len(u)
      PROVE  u[i] = v[i]
  <2>0. /\ Len(u) = Len(s) + Len(f) - k /\ Len(t) + Len(f) = Len(u) /\ Len(c) - k = Len(u)
        /\ Len(u) \in Nat /\ k \in Nat /\ Len(s) \in Nat /\ Len(f) \in Nat
    BY <1>1, <1>2, <1>3
  <2>1. u[i] = c[k + i] /\ k + i \in 1 .. Len(s) + Len(f) /\ i \in 1 .. Len(t) + Len(f)
    <3>1. u[i] = c[k + i]
      BY <1>3, <2>0
    <3>. QED
      BY <2>0, <3>1
  <2>2. CASE k + i <= Len(s)
    <3>1. c[k + i] = s[k + i]
      BY <1>1, <2>1, <2>2
    <3>2. v[i] = t[i] /\ t[i] = s[k + i]
      BY <1>2, <1>4, <2>1, <2>2
    <3>. QED
      BY <2>1, <3>1, <3>2
  <2>3. CASE ~(k + i <= Len(s))
    <3>1. c[k + i] = f[k + i - Len(s)]
      BY <1>1, <2>1, <2>3
    <3>2. v[i] = f[i - Len(t)] /\ i - Len(t) = k + i - Len(s)
      BY <1>2, <1>4, <2>1, <2>3
    <3>. QED
      BY <2>1, <3>1, <3>2
  <2>. QED
    BY <2>2, <2>3
<1>7. u = v
  BY <1>3, <1>4, <1>5, <1>6, SeqEqual
<1>. QED
  BY <1>7 DEF c, t, u, v

-----------------------------------------------------------------------------
(* Frames. *)

\* What write_to_slip makes of a packet has content and ends where its only
\* SLIP_END is: escaping leaves no SLIP_END and no packet becomes empty.
LEMMA FrameFacts ==
  ASSUME NEW p \in Packets
  PROVE  /\ Frame(p) \in Seq(Bytes) /\ Len(Frame(p)) > 1
         /\ \A i \in 1 .. Len(Frame(p)) : Frame(p)[i] = SLIP_END <=> i = Len(Frame(p))
<1>. DEFINE w == Escaped(p)
            S == Range(p) \cup Codes
<1>1. p # << >> /\ p \in Seq(Range(p))
  BY SlipAssumption
<1>2. /\ w \in Seq(S) /\ Len(w) >= Len(p)
      /\ \A i \in 1 .. Len(w) : w[i] # SLIP_END
  BY <1>1, EscapedInSeq, EscapedHasNoEnd
<1>3. Len(p) \in Nat \ {0}
  BY <1>1
<1>4. Frame(p) = Append(w, SLIP_END) /\ Frame(p) \in Seq(S \cup {SLIP_END})
  BY <1>2 DEF Frame
<1>. HIDE DEF w, S
<1>5. /\ Len(Frame(p)) > 1
      /\ \A i \in 1 .. Len(Frame(p)) : Frame(p)[i] = SLIP_END <=> i = Len(Frame(p))
  BY <1>2, <1>3, <1>4
<1>6. Frame(p) \in Seq(Bytes)
  <2>1. Frame(p) \in Seq(Range(Frame(p)))
    BY <1>4, SeqOfRange
  <2>2. Range(Frame(p)) \subseteq Bytes
    BY DEF Bytes
  <2>. QED
    BY <2>1, <2>2, SeqMonotonic
<1>. QED
  BY <1>5, <1>6

\* A frame that is appended keeps the buffer well-formed.
LEMMA AppendFrame ==
  ASSUME NEW buf \in Seq(Bytes), Ended(buf), NoEmptyFrame(buf), NEW p \in Packets
  PROVE  /\ buf \o Frame(p) \in Seq(Bytes)
         /\ Len(buf \o Frame(p)) = Len(buf) + Len(Frame(p))
         /\ \A i \in 1 .. Len(buf) : (buf \o Frame(p))[i] = buf[i]
         /\ Ended(buf \o Frame(p)) /\ NoEmptyFrame(buf \o Frame(p))
<1>. DEFINE f == Frame(p)
            c == buf \o f
<1>1. /\ f \in Seq(Bytes) /\ Len(f) > 1
      /\ \A i \in 1 .. Len(f) : f[i] = SLIP_END <=> i = Len(f)
  BY FrameFacts
<1>. HIDE DEF f
<1>2. /\ c \in Seq(Bytes) /\ Len(c) = Len(buf) + Len(f)
      /\ \A i \in 1 .. Len(buf) + Len(f) : c[i] = IF i <= Len(buf) THEN buf[i] ELSE f[i - Len(buf)]
  BY <1>1, ConcatProperties
<1>0. IsConcat(Bytes, buf, f, c)
  BY <1>1, ConcatElements
<1>. HIDE DEF c
<1>3. \A i \in 1 .. Len(buf) : c[i] = buf[i]
  BY <1>0, Zenon DEF IsConcat
<1>4. \A i \in 1 .. Len(f) : c[Len(buf) + i] = f[i]
  BY <1>0, Zenon DEF IsConcat
<1>5. Ended(c)
  BY <1>1, <1>2, <1>4 DEF Ended
<1>6. ASSUME NEW i \in 1 .. Len(c), i < Len(c), c[i] = SLIP_END
      PROVE  c[i + 1] # SLIP_END
  <2>1. CASE i < Len(buf)
    <3>1. c[i] = buf[i] /\ c[i + 1] = buf[i + 1]
      BY <1>3, <2>1
    <3>. QED
      BY <1>6, <2>1, <3>1 DEF NoEmptyFrame
  <2>2. CASE i = Len(buf)
    <3>1. c[i + 1] = f[1]
      BY <1>1, <1>4, <2>2
    <3>. QED
      BY <1>1, <3>1
  <2>3. CASE i > Len(buf)
    <3>1. i - Len(buf) \in 1 .. Len(f) /\ i = Len(buf) + (i - Len(buf)) /\ i - Len(buf) # Len(f)
      BY <1>1, <1>2, <1>6, <2>3
    <3>2. c[i] = f[i - Len(buf)]
      BY <1>4, <3>1
    <3>. QED
      BY <1>1, <1>6, <3>1, <3>2
  <2>. QED
    BY <1>2, <2>1, <2>2, <2>3
<1>7. NoEmptyFrame(c)
  BY <1>2, <1>6 DEF NoEmptyFrame
<1>. QED
  BY <1>2, <1>3, <1>5, <1>7 DEF c, f

\* The scan from the second byte finds the end of the first frame.
LEMMA ScanFindsEnd ==
  ASSUME NEW buf \in Seq(Bytes), buf # << >>, Ended(buf), buf[1] # SLIP_END
  PROVE  NextFrame(buf) \in 2 .. Len(buf) /\ EndsAt(buf, NextFrame(buf))
<1>. DEFINE T == {i \in 2 .. Len(buf) : buf[i] = SLIP_END}
<1>1. Len(buf) \in T /\ T \subseteq Nat
  BY DEF Ended
<1>2. PICK e \in T : \A j \in T : e <= j
  BY <1>1, LeastElement
<1>3. /\ e \in 2 .. Len(buf) /\ buf[e] = SLIP_END
      /\ \A j \in 2 .. e - 1 : buf[j] # SLIP_END
  BY <1>2
<1>4. /\ NextFrame(buf) \in 2 .. Len(buf) /\ buf[NextFrame(buf)] = SLIP_END
      /\ \A j \in 2 .. NextFrame(buf) - 1 : buf[j] # SLIP_END
  BY <1>3 DEF NextFrame
<1>. QED
  BY <1>4 DEF EndsAt

\* FrameBoundary, in the words of this module.
LEMMA BoundaryIs ==
  FrameBoundary <=>
    IF slip_buf = << >> THEN slip_packet_end = 0
    ELSE slip_begin < slip_packet_end /\ EndsAt(slip_buf, slip_packet_end)
BY DEF FrameBoundary, EndsAt

-----------------------------------------------------------------------------
(* The invariant. *)

LEMMA InitInv == Init => Inv
<1>. SUFFICES ASSUME Init
              PROVE  Inv
  OBVIOUS
<1>1. <<SLIP_END>> \in Seq(Bytes) /\ Len(<<SLIP_END>>) = 1
  <2>. SLIP_END \in Bytes
    BY DEF Bytes
  <2>. QED
    OBVIOUS
<1>2. TypeOK
  <2>1. slip_buf \in Seq(Bytes) /\ Len(slip_buf) = 1 /\ 1 <= BufSize
    BY <1>1, SlipAssumption DEF Init
  <2>2. slip_begin = 0 /\ slip_packet_end = 1
    BY DEF Init
  <2>3. send_delay_timer \in BOOLEAN /\ exited \in BOOLEAN /\ quiet \in BOOLEAN
    BY DEF Init
  <2>. QED
    BY <2>1, <2>2, <2>3, SlipAssumption DEF TypeOK
<1>3. slip_buf # << >> /\ Len(slip_buf) = 1 /\ slip_buf[1] = SLIP_END
  BY DEF Init
<1>4. FrameBoundary
  BY <1>3 DEF Init, FrameBoundary
<1>5. Ended(slip_buf) /\ NoEmptyFrame(slip_buf)
  BY <1>2, <1>3 DEF TypeOK, Ended, NoEmptyFrame
<1>. QED
  BY <1>2, <1>4, <1>5 DEF Inv

\* A buffer that is not empty has a frame to send.
LEMMA EmptyIs ==
  ASSUME Inv
  PROVE  /\ slip_buf = << >> <=> slip_packet_end = 0
         /\ slip_packet_end = 0 => slip_begin = 0
         /\ slip_buf # << >> => slip_begin < slip_packet_end
BY DEF Inv, TypeOK, FrameBoundary

LEMMA WriteToSlipInv ==
  ASSUME Inv, NEW p \in Packets, WriteToSlip(p)
  PROVE  Inv'
<1>. DEFINE f == Frame(p)
<1>1. /\ slip_buf' \in Seq(Bytes) /\ Len(slip_buf') = Len(slip_buf) + Len(f)
      /\ \A i \in 1 .. Len(slip_buf) : slip_buf'[i] = slip_buf[i]
      /\ Ended(slip_buf') /\ NoEmptyFrame(slip_buf')
  BY AppendFrame DEF WriteToSlip, Inv, TypeOK
<1>2. Len(f) \in Nat /\ Len(f) > 1
  BY FrameFacts
<1>. HIDE DEF f
<1>3. slip_buf' # << >> /\ Len(slip_buf') <= BufSize
  BY <1>1, <1>2 DEF WriteToSlip, Fits, Inv, TypeOK, f
<1>4. CASE slip_buf = << >>
  <2>1. slip_packet_end = 0 /\ slip_begin = 0 /\ slip_begin' = 0 /\ Len(slip_buf) = 0
    BY <1>4, EmptyIs DEF WriteToSlip
  <2>2. slip_packet_end' = Len(slip_buf') /\ slip_packet_end' = Len(f)
    BY <1>1, <1>2, <2>1 DEF WriteToSlip
  <2>3. slip_buf' = f
    BY <1>4, FrameFacts, ConcatEmptySeq DEF WriteToSlip, f
  <2>4. EndsAt(slip_buf', slip_packet_end')
    BY <2>2, <2>3, FrameFacts DEF EndsAt, f
  <2>5. FrameBoundary'
    BY <1>2, <1>3, <2>1, <2>2, <2>4 DEF FrameBoundary, EndsAt
  <2>6. TypeOK'
    BY <1>1, <1>2, <1>3, <2>1, <2>2 DEF WriteToSlip, Inv, TypeOK
  <2>. QED
    BY <1>1, <2>5, <2>6 DEF Inv
<1>5. CASE slip_buf # << >>
  <2>1. slip_packet_end' = slip_packet_end /\ slip_begin' = slip_begin
    BY <1>5, EmptyIs DEF WriteToSlip
  <2>2. slip_begin < slip_packet_end /\ EndsAt(slip_buf, slip_packet_end)
        /\ slip_packet_end <= Len(slip_buf) /\ slip_packet_end \in Nat /\ slip_begin \in Nat
    BY <1>5, BoundaryIs DEF Inv, TypeOK
  <2>3. EndsAt(slip_buf', slip_packet_end)
    BY <1>1, <2>2 DEF EndsAt
  <2>4. FrameBoundary'
    BY <1>3, <2>1, <2>2, <2>3 DEF FrameBoundary, EndsAt
  <2>5. slip_packet_end <= Len(slip_buf')
    BY <1>1, <1>2, <2>2 DEF Inv, TypeOK
  <2>6. TypeOK'
    BY <1>1, <1>3, <2>1, <2>2, <2>5 DEF WriteToSlip, Inv, TypeOK
  <2>. QED
    BY <1>1, <2>4, <2>6 DEF Inv
<1>. QED
  BY <1>4, <1>5

\* What slip_flushbuf leaves when the frame has gone out.
LEMMA RestFacts ==
  ASSUME Inv, Writable
  PROVE  /\ Rest \in Seq(Bytes) /\ Len(Rest) = Len(slip_buf) - slip_packet_end
         /\ \A i \in 1 .. Len(Rest) : Rest[i] = slip_buf[slip_packet_end + i]
         /\ Ended(Rest) /\ NoEmptyFrame(Rest)
         /\ Rest # << >> => Rest[1] # SLIP_END
         /\ slip_packet_end \in 1 .. Len(slip_buf) /\ slip_begin < slip_packet_end
<1>1. slip_buf # << >> /\ slip_packet_end \in 1 .. Len(slip_buf) /\ slip_begin < slip_packet_end
  BY EmptyIs DEF Writable, slip_empty, Inv, TypeOK
<1>2. slip_buf[slip_packet_end] = SLIP_END
  BY <1>1, BoundaryIs DEF EndsAt, Inv
<1>3. /\ Rest \in Seq(Bytes) /\ Len(Rest) = Len(slip_buf) - slip_packet_end
      /\ \A i \in 1 .. Len(Rest) : Rest[i] = slip_buf[slip_packet_end + i]
  BY <1>1, Remainder DEF Rest, Inv, TypeOK
<1>. DEFINE r == Rest
<1>. HIDE DEF r
<1>4. /\ r \in Seq(Bytes) /\ Len(r) = Len(slip_buf) - slip_packet_end
      /\ \A i \in 1 .. Len(r) : r[i] = slip_buf[slip_packet_end + i]
  BY <1>3 DEF r
<1>5. r # << >> => r[1] # SLIP_END
  <2>. SUFFICES ASSUME r # << >>
                PROVE  r[1] # SLIP_END
    OBVIOUS
  <2>1. 1 \in 1 .. Len(r) /\ slip_packet_end < Len(slip_buf)
    BY <1>1, <1>4 DEF Inv, TypeOK
  <2>2. slip_buf[slip_packet_end + 1] # SLIP_END
    BY <1>1, <1>2, <2>1 DEF Inv, NoEmptyFrame
  <2>. QED
    BY <1>4, <2>1, <2>2
<1>6. Ended(r)
  <2>. SUFFICES ASSUME r # << >>
                PROVE  r[Len(r)] = SLIP_END
    BY DEF Ended
  <2>1. Len(r) \in 1 .. Len(r) /\ slip_packet_end + Len(r) = Len(slip_buf)
    BY <1>1, <1>4 DEF Inv, TypeOK
  <2>. QED
    BY <1>1, <1>4, <2>1 DEF Inv, Ended
<1>7. NoEmptyFrame(r)
  <2>. SUFFICES ASSUME NEW i \in 1 .. Len(r), i < Len(r), r[i] = SLIP_END
                PROVE  r[i + 1] # SLIP_END
    BY <1>4 DEF NoEmptyFrame
  <2>1. /\ slip_packet_end + i \in 1 .. Len(slip_buf) /\ slip_packet_end + i < Len(slip_buf)
        /\ i + 1 \in 1 .. Len(r) /\ slip_packet_end + (i + 1) = (slip_packet_end + i) + 1
    BY <1>1, <1>4 DEF Inv, TypeOK
  <2>2. r[i] = slip_buf[slip_packet_end + i] /\ r[i + 1] = slip_buf[(slip_packet_end + i) + 1]
    BY <1>4, <2>1
  <2>. QED
    BY <2>1, <2>2 DEF Inv, TypeOK, NoEmptyFrame
<1>. QED
  BY <1>1, <1>3, <1>5, <1>6, <1>7 DEF r

LEMMA FlushLastInv ==
  ASSUME Inv, FlushLast
  PROVE  Inv'
<1>1. /\ slip_buf' \in Seq(Bytes) /\ Len(slip_buf') = Len(slip_buf) - slip_packet_end
      /\ Ended(slip_buf') /\ NoEmptyFrame(slip_buf')
      /\ slip_buf' # << >> => slip_buf'[1] # SLIP_END
      /\ slip_packet_end \in 1 .. Len(slip_buf)
  BY RestFacts DEF FlushLast
<1>2. slip_begin' = 0 /\ slip_packet_end' = NextFrame(slip_buf')
  BY DEF FlushLast
<1>3. send_delay_timer' \in BOOLEAN /\ quiet' \in BOOLEAN /\ exited' \in BOOLEAN
  BY DEF FlushLast, Inv, TypeOK
<1>4. Len(slip_buf') <= BufSize
  BY <1>1, SlipAssumption DEF Inv, TypeOK
<1>5. CASE slip_buf' = << >>
  <2>1. slip_packet_end' = 0 /\ Len(slip_buf') = 0
    BY <1>2, <1>5 DEF NextFrame
  <2>2. FrameBoundary'
    BY <1>5, <2>1 DEF FrameBoundary
  <2>3. TypeOK'
    BY <1>1, <1>2, <1>3, <1>4, <2>1 DEF TypeOK
  <2>. QED
    BY <1>1, <2>2, <2>3 DEF Inv
<1>6. CASE slip_buf' # << >>
  <2>1. slip_packet_end' \in 2 .. Len(slip_buf') /\ EndsAt(slip_buf', slip_packet_end')
    BY <1>1, <1>2, <1>6, ScanFindsEnd
  <2>2. FrameBoundary'
    BY <1>2, <1>6, <2>1 DEF FrameBoundary, EndsAt
  <2>3. TypeOK'
    BY <1>1, <1>2, <1>3, <1>4, <2>1 DEF TypeOK
  <2>. QED
    BY <1>1, <2>2, <2>3 DEF Inv
<1>. QED
  BY <1>5, <1>6

LEMMA NextInv == Inv /\ [Next]_vars => Inv'
<1>. SUFFICES ASSUME Inv, [Next]_vars
              PROVE  Inv'
  OBVIOUS
<1>1. ASSUME NEW p \in Packets, Overflow(p)
      PROVE  Inv'
  BY <1>1 DEF Overflow, Inv, TypeOK, FrameBoundary
<1>2. CASE FlushSome
  <2>1. PICK n \in 1 .. slip_packet_end - slip_begin - 1 : slip_begin' = slip_begin + n
    BY <1>2 DEF FlushSome
  <2>2. slip_begin' \in Nat /\ slip_begin' < slip_packet_end
    BY <2>1 DEF Inv, TypeOK
  <2>. QED
    BY <1>2, <2>2, EmptyIs DEF FlushSome, Writable, slip_empty, Inv, TypeOK, FrameBoundary
<1>3. CASE FlushFails \/ DelayElapses \/ UNCHANGED vars
  BY <1>3 DEF FlushFails, DelayElapses, vars, Inv, TypeOK, FrameBoundary
<1>. QED
  BY <1>1, <1>2, <1>3, WriteToSlipInv, FlushLastInv DEF Next, Flush

LEMMA Inductive == Spec => []Inv
BY InitInv, NextInv, PTL DEF Spec

-----------------------------------------------------------------------------
(* The theorems. *)

\* The indices of the output buffer stay in order and within it.
THEOREM TypeCorrect == Spec => []TypeOK
<1>1. Inv => TypeOK
  BY DEF Inv
<1>. QED
  BY <1>1, Inductive, PTL

\* slip_packet_end is the end of the first frame whenever there is one.
THEOREM Boundary == Spec => []FrameBoundary
<1>1. Inv => FrameBoundary
  BY DEF Inv
<1>. QED
  BY <1>1, Inductive, PTL

-----------------------------------------------------------------------------
(* Refinement. *)

LEMMA UnsentIs ==
  ASSUME Inv
  PROVE  /\ slip_begin \in 0 .. Len(slip_buf)
         /\ Unsent \in Seq(Bytes) /\ Len(Unsent) = Len(slip_buf) - slip_begin
         /\ \A i \in 1 .. Len(slip_buf) - slip_begin : Unsent[i] = slip_buf[slip_begin + i]
<1>1. slip_begin \in 0 .. Len(slip_buf)
  BY DEF Inv, TypeOK
<1>. QED
  BY <1>1, Remainder DEF Unsent, Inv, TypeOK

\* A write of n bytes of the frame is a write of the queue, when the bytes
\* behind them are what remains.
LEMMA WriteIsWrite ==
  ASSUME Inv, Writable, UNCHANGED exited,
         NEW n \in 1 .. slip_packet_end - slip_begin,
         Unsent' = SubSeq(slip_buf, slip_begin + n + 1, Len(slip_buf))
  PROVE  Queue!Write
<1>1. /\ slip_packet_end \in 1 .. Len(slip_buf) /\ slip_begin < slip_packet_end
      /\ slip_begin \in Nat /\ slip_packet_end \in Nat
  BY RestFacts DEF Inv, TypeOK
<1>2. slip_buf # << >>
  BY <1>1
<1>3. \A i \in 1 .. slip_packet_end : slip_buf[i] = SLIP_END <=> i = slip_packet_end
  BY <1>2 DEF Inv, FrameBoundary
<1>4. n \in 1 .. Len(Unsent) /\ n \in Nat /\ slip_begin + n <= Len(slip_buf)
  BY <1>1, UnsentIs DEF Inv, TypeOK
<1>5. ASSUME NEW i \in 1 .. n - 1
      PROVE  Unsent[i] # SLIP_END
  <2>1. /\ i \in 1 .. Len(slip_buf) - slip_begin
        /\ slip_begin + i \in 1 .. slip_packet_end /\ slip_begin + i # slip_packet_end
    BY <1>1
  <2>. QED
    BY <1>3, <2>1, UnsentIs
<1>6. SubSeq(Unsent, n + 1, Len(Unsent)) = SubSeq(slip_buf, slip_begin + n + 1, Len(slip_buf))
  BY <1>1, <1>4, RemainderTwice DEF Unsent, Inv, TypeOK
<1>. QED
  BY <1>4, <1>5, <1>6 DEF Queue!Write, Writable

LEMMA InitQueue == Init => Queue!Init
<1>. SUFFICES ASSUME Init
              PROVE  Unsent = <<SLIP_END>> /\ ~exited
  BY DEF Queue!Init
<1>1. slip_buf \in Seq({SLIP_END}) /\ slip_begin = 0
  BY DEF Init
<1>2. Unsent = slip_buf
  BY <1>1, SubSeqFull DEF Unsent
<1>. QED
  BY <1>2 DEF Init

LEMMA NextQueue == Inv /\ [Next]_vars => [Queue!Next]_(Queue!vars)
<1>. SUFFICES ASSUME Inv, [Next]_vars
              PROVE  Queue!Next \/ (UNCHANGED Unsent /\ UNCHANGED exited)
  BY DEF Queue!vars
<1>1. ASSUME NEW p \in Packets, WriteToSlip(p)
      PROVE  Queue!Put
  <2>1. Frame(p) \in Seq(Bytes)
    BY FrameFacts
  <2>2. Unsent' = Unsent \o Frame(p)
    BY <1>1, <2>1, UnsentIs, RemainderAppend DEF WriteToSlip, Unsent, Inv, TypeOK
  <2>. QED
    BY <1>1, <2>2 DEF WriteToSlip, Queue!Put
<1>2. ASSUME NEW p \in Packets, Overflow(p)
      PROVE  Queue!Stop
  BY <1>2 DEF Overflow, Queue!Stop, Unsent, Inv, TypeOK
<1>3. CASE FlushSome
  <2>1. PICK n \in 1 .. slip_packet_end - slip_begin - 1 : slip_begin' = slip_begin + n
    BY <1>3 DEF FlushSome
  <2>2. n \in 1 .. slip_packet_end - slip_begin
    BY DEF Inv, TypeOK
  <2>3. Unsent' = SubSeq(slip_buf, slip_begin + n + 1, Len(slip_buf))
    BY <1>3, <2>1 DEF FlushSome, Unsent
  <2>4. Writable /\ UNCHANGED exited
    BY <1>3 DEF FlushSome
  <2>. QED
    BY <2>2, <2>3, <2>4, WriteIsWrite DEF Queue!Next
<1>4. CASE FlushLast
  <2>. DEFINE n == slip_packet_end - slip_begin
  <2>1. Writable /\ UNCHANGED exited /\ slip_buf' = Rest /\ slip_begin' = 0
    BY <1>4 DEF FlushLast
  <2>2. n \in 1 .. slip_packet_end - slip_begin /\ slip_begin + n + 1 = slip_packet_end + 1
    BY <2>1, RestFacts DEF Inv, TypeOK
  <2>3. Unsent' = Rest
    <3>1. Rest \in Seq(Bytes) /\ Unsent' = SubSeq(Rest, 1, Len(Rest))
      BY <2>1, RestFacts DEF Unsent
    <3>. QED
      BY <3>1, SubSeqFull
  <2>4. Unsent' = SubSeq(slip_buf, slip_begin + n + 1, Len(slip_buf))
    BY <2>2, <2>3 DEF Rest
  <2>. HIDE DEF n
  <2>. QED
    BY <2>1, <2>2, <2>4, WriteIsWrite DEF Queue!Next
<1>5. CASE FlushFails
  <2>1. exited' /\ ~exited /\ UNCHANGED <<slip_buf, slip_begin>>
    BY <1>5 DEF FlushFails, Writable
  <2>2. Unsent' = Unsent
    BY <2>1 DEF Unsent
  <2>. QED
    BY <2>1, <2>2 DEF Queue!Next, Queue!Stop
<1>6. CASE DelayElapses \/ UNCHANGED vars
  BY <1>6 DEF DelayElapses, vars, Unsent
<1>. QED
  BY <1>1, <1>2, <1>3, <1>4, <1>5, <1>6 DEF Next, Flush, Queue!Next

\* slip_buf with its indices is a queue of bytes that writes whole frames in
\* order: slip_flushbuf loses, repeats and swaps no byte.
THEOREM Refinement == Spec => ImplementsQueue
BY InitQueue, NextQueue, Inductive, PTL DEF Spec, ImplementsQueue, Queue!Spec
=============================================================================
