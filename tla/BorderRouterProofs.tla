------------------------- MODULE BorderRouterProofs -------------------------
(***************************************************************************)
(* Theorems about BorderRouter and its web server, and their proofs, for   *)
(* any number of connections, neighbours, routes, sensors and restarts.    *)
(***************************************************************************)
EXTENDS BorderRouter, Induction, TLAPS

\* A connection is marked with a slot as long as uIP knows it, and the page
\* of the embedded router lists no sensors.
SlotInv ==
  /\ \A c \in Conns : appstate[c] \in Slots <=> tcp[c] # "closed"
  /\ ~build.sensors => \A s \in Slots : at[s] \notin {"shead", "sens"}

TypeInv == TypeOK /\ SlotInv

-----------------------------------------------------------------------------
(* Type correctness. *)

\* What one segment of the page does.
LEMMA Segments ==
  ASSUME TypeOK, NEW pos \in Page, ~build.sensors => pos \notin {"shead", "sens"},
         NEW g \in After(pos)
  PROVE  /\ g.at \in Page \cup {"ended"} /\ g.nbr \in 0 .. NbrCount
         /\ g.r \in 0 .. RouteCount /\ g.i \in Nat /\ g.blen \in Nat
         /\ ~build.sensors => g.at \notin {"shead", "sens"}
         /\ g.at = "end" => g.blen = 6 /\ pos \in {"mid", "routes"}
         /\ g.at = "routes" => pos \in {"mid", "routes"}
         /\ g.at = "routes" => g.r \in 1 .. RouteCount
         /\ g.at \in {"top", "nbrs", "mid"} => pos \in {"top", "nbrs"}
         /\ pos = "mid" => IF RouteCount = 0 THEN g.at = "end" ELSE g.at = "routes" /\ g.r = 1
         /\ pos = "routes" => IF r = RouteCount \/ r = 0 THEN g.at = "end"
                              ELSE g.at = "routes" /\ g.r = r + 1
         /\ \/ g.blen < build.bufSize \/ g.blen = blen
            \/ pos = "end" /\ g.blen = blen + 18 /\ g.at = "shead"
            \/ g.at = "sens"
<1>0. /\ build \in Builds /\ build.bufSize \in Nat /\ build.bufSize >= 128
      /\ nbr \in 0 .. NbrCount /\ r \in 0 .. RouteCount /\ i \in Nat /\ blen \in Nat
      /\ NbrCount \in Nat /\ RouteCount \in Nat /\ sensor_count \in Nat
  BY WebAssumption DEF TypeOK, WebTypeOK
<1>1. /\ NextNbr(nbr) \in 0 .. NbrCount
      /\ (IF NbrCount = 0 THEN 0 ELSE 1) \in 0 .. NbrCount
  BY <1>0 DEF NextNbr
<1>2. ASSUME NEW n \in 0 .. NbrCount, NEW h \in NeighboursFrom(n)
      PROVE  /\ h.at \in {"nbrs", "mid"} /\ h.nbr \in 0 .. NbrCount
             /\ h.r = r /\ h.i = i /\ h.blen \in Nat /\ h.blen < build.bufSize
  BY <1>0, <1>2 DEF NeighboursFrom, Segment
<1>3. ASSUME NEW n \in 0 .. RouteCount, NEW h \in RoutesFrom(n)
      PROVE  /\ h.nbr = nbr /\ h.r = n /\ h.i = i
             /\ IF n = 0 THEN h.at = "end" /\ h.blen = 6 ELSE h.at = "routes" /\ h.blen \in {95, 102}
  BY <1>0, <1>3 DEF RoutesFrom, Segment
<1>4. ASSUME NEW k \in Nat, NEW h \in SensorsFrom(k)
      PROVE  /\ h.nbr = nbr /\ h.r = r /\ h.i = k
             /\ h.blen \in Nat /\ (h.at = "sens" \/ (h.at = "bottom" /\ h.blen = 6))
  <2>1. CASE k < sensor_count
    <3>1. PICK l \in RowLengths : h = Segment("sens", nbr, r, k, l + 1)
      BY <1>4, <2>1 DEF SensorsFrom
    <3>2. l \in Nat
      BY WebAssumption
    <3>. QED
      BY <3>1, <3>2 DEF Segment
  <2>2. CASE ~(k < sensor_count)
    BY <1>4, <2>2 DEF SensorsFrom, Segment
  <2>. QED
    BY <2>1, <2>2
<1>5. ASSUME NEW p, NEW h \in Goes(p)
      PROVE  h.at = p /\ h.nbr = nbr /\ h.r = r /\ h.i = i /\ h.blen = blen
  BY <1>5 DEF Goes, Segment
<1>6. CASE pos = "top"
  <2>1. After(pos) = NeighboursFrom(IF NbrCount = 0 THEN 0 ELSE 1)
    BY <1>6 DEF After, AfterNative, AfterEmbedded
  <2>. QED
    BY <2>1, <1>0, <1>1, <1>2, <1>6 DEF Page
<1>7. CASE pos = "nbrs"
  <2>1. After(pos) = NeighboursFrom(NextNbr(nbr))
    BY <1>7 DEF After, AfterNative, AfterEmbedded
  <2>. QED
    BY <2>1, <1>0, <1>1, <1>2, <1>7 DEF Page
<1>8. CASE pos = "mid"
  <2>1. After(pos) = RoutesFrom(IF RouteCount = 0 THEN 0 ELSE 1)
    BY <1>8 DEF After, AfterNative, AfterEmbedded
  <2>. QED
    BY <2>1, <1>0, <1>3, <1>8 DEF Page
<1>9. CASE pos = "routes"
  <2>1. After(pos) = RoutesFrom(NextRoute(r))
    BY <1>9 DEF After, AfterNative, AfterEmbedded
  <2>2. NextRoute(r) = (IF r = 0 \/ r = RouteCount THEN 0 ELSE r + 1)
    BY DEF NextRoute
  <2>. QED
    BY <2>1, <2>2, <1>0, <1>3, <1>9 DEF Page
<1>10. CASE pos = "end"
  <2>1. \/ After(pos) = Goes("bottom")
        \/ build.sensors /\ After(pos) = {Segment("shead", nbr, r, i, blen + 18)}
    BY <1>10 DEF After, AfterNative, AfterEmbedded
  <2>2. CASE After(pos) = Goes("bottom")
    BY <2>2, <1>0, <1>5, <1>10 DEF Page
  <2>3. CASE build.sensors /\ After(pos) = {Segment("shead", nbr, r, i, blen + 18)}
    BY <2>3, <1>0, <1>10 DEF Page, Segment
  <2>. QED
    BY <2>1, <2>2, <2>3
<1>11. CASE pos = "shead"
  <2>1. build.sensors /\ After(pos) = SensorsFrom(0)
    BY <1>11 DEF After, AfterNative
  <2>. QED
    BY <2>1, <1>0, <1>4, <1>11 DEF Page
<1>12. CASE pos = "sens"
  <2>1. build.sensors /\ After(pos) = SensorsFrom(i + 1)
    BY <1>12 DEF After, AfterNative
  <2>. QED
    BY <2>1, <1>0, <1>4, <1>12 DEF Page
<1>13. CASE pos = "bottom"
  <2>1. After(pos) = Goes("ended")
    BY <1>13 DEF After, AfterNative, AfterEmbedded
  <2>. QED
    BY <2>1, <1>0, <1>5, <1>13 DEF Page
<1>. QED
  BY <1>6, <1>7, <1>8, <1>9, <1>10, <1>11, <1>12, <1>13 DEF Page

LEMMA FreshType == WebFresh /\ build \in Builds => WebTypeOK /\ SlotInv
<1>. SUFFICES ASSUME WebFresh, build \in Builds
              PROVE  WebTypeOK /\ SlotInv
  OBVIOUS
<1>1. /\ << >> \in Seq(1 .. RouteCount)
      /\ 0 \in 0 .. NbrCount /\ 0 \in 0 .. RouteCount /\ 0 \in 0 .. MaxSensors /\ 0 \in Nat
  BY WebAssumption
<1>2. WebTypeOK
  BY <1>1 DEF WebFresh, WebTypeOK, TcpStates, NoSlot
<1>3. SlotInv
  BY WebAssumption DEF WebFresh, SlotInv, Slots, NoSlot
<1>. QED
  BY <1>2, <1>3

LEMMA InitType == Init => TypeInv
<1>. SUFFICES ASSUME Init PROVE TypeInv
  OBVIOUS
<1>1. build \in Builds /\ WebTypeOK /\ SlotInv
  BY FreshType DEF Init, WebInit
<1>2. Embedded \in BOOLEAN /\ 0 \in 0 .. MaxReboots
  BY <1>1, WebAssumption, RebootAssumption DEF Embedded
<1>3. /\ radio \in {"off", "on"} /\ prefix_set \in BOOLEAN
      /\ asked \in BOOLEAN /\ answered \in BOOLEAN /\ reboots \in 0 .. MaxReboots
  BY <1>2 DEF Init
<1>. QED
  BY <1>1, <1>3 DEF TypeInv, TypeOK

\* The router starts anew.
LEMMA ResetType ==
  ASSUME TypeInv, Reboot
  PROVE  TypeInv'
<1>1. /\ << >> \in Seq(1 .. RouteCount)
      /\ 0 \in 0 .. NbrCount /\ 0 \in 0 .. RouteCount /\ 0 \in 0 .. MaxSensors /\ 0 \in Nat
  BY WebAssumption
<1>2. WebTypeOK'
  BY <1>1 DEF TypeInv, TypeOK, Reboot, WebReset, WebTypeOK, TcpStates, NoSlot
<1>3. SlotInv'
  BY WebAssumption DEF Reboot, WebReset, SlotInv, Slots, NoSlot
<1>4. reboots' \in 0 .. MaxReboots
  BY RebootAssumption DEF TypeInv, TypeOK, Reboot
<1>5. TypeOK'
  BY <1>2, <1>4 DEF TypeInv, TypeOK, Reboot
<1>. QED
  BY <1>3, <1>5 DEF TypeInv

LEMMA ReleaseType ==
  ASSUME TypeInv, NEW c \in Conns, tcp[c] # "closed", Release(c)
  PROVE  /\ used' \subseteq Slots /\ orphans' \subseteq Slots /\ strayed' \in BOOLEAN
         /\ at' \in [Slots -> Page \cup {"reading", "ended"}]
         /\ \A s \in Slots : at'[s] \in {at[s], "reading"}
         /\ expired' \in [Slots -> BOOLEAN] /\ lone' \in [Slots -> BOOLEAN]
         /\ listed' \in [Slots -> Seq(1 .. RouteCount)]
<1>1. appstate[c] \in Slots
  BY DEF TypeInv, SlotInv
<1>2. << >> \in Seq(1 .. RouteCount)
  OBVIOUS
<1>. QED
  BY <1>1, <1>2 DEF TypeInv, TypeOK, WebTypeOK, Release, Shared

LEMMA GoneType ==
  ASSUME TypeInv, NEW c \in Conns, Gone(c)
  PROVE  /\ tcp' \in [Conns -> TcpStates] /\ appstate' \in [Conns -> Slots \cup {NoSlot}]
         /\ \A d \in Conns : appstate'[d] \in Slots <=> tcp'[d] # "closed"
  BY WebAssumption DEF TypeInv, TypeOK, WebTypeOK, SlotInv, Gone, TcpStates, Slots, NoSlot

LEMMA BeginType ==
  ASSUME TypeInv, NEW c \in Conns, tcp[c] # "closed", BeginPage(c)
  PROVE  /\ tcp' \in [Conns -> TcpStates]
         /\ \A d \in Conns : tcp'[d] = "closed" <=> tcp[d] = "closed"
         /\ at' \in [Slots -> Page \cup {"reading", "ended"}]
         /\ \A s \in Slots : at'[s] \in {at[s], "top"}
         /\ lone' \in [Slots -> BOOLEAN] /\ listed' \in [Slots -> Seq(1 .. RouteCount)]
<1>1. << >> \in Seq(1 .. RouteCount)
  OBVIOUS
<1>. QED
  BY <1>1 DEF TypeInv, TypeOK, WebTypeOK, BeginPage, TcpStates, Page

\* memb_alloc finds a free block if there is one.
LEMMA FreeSlot ==
  ASSUME NEW F \in SUBSET Slots, F # {}
  PROVE  (CHOOSE s \in F : \A q \in F : s <= q) \in F
<1>1. \E s \in F : \A q \in F : s <= q
  BY LeastElement, WebAssumption DEF Slots
<1>. QED
  BY <1>1

\* The steps of the web server, one by one.
LEMMA WebType ==
  ASSUME TypeInv, WebNext
  PROVE  (WebTypeOK /\ SlotInv)'
<1>. USE WebAssumption
<1>0. /\ WebTypeOK /\ SlotInv /\ TypeOK
      /\ Slots \subseteq Nat /\ NoSlot \notin Slots
  BY DEF TypeInv, TypeOK, Slots, NoSlot
<1>1. ASSUME NEW c \in Conns, Connected(c)
      PROVE  (WebTypeOK /\ SlotInv)'
  <2>. DEFINE s == CHOOSE s \in Slots \ used : \A q \in Slots \ used : s <= q
  <2>1. CASE used = Slots
    BY <1>0, <1>1, <2>1 DEF WebTypeOK, SlotInv, Connected, statics, histories
  <2>2. CASE used # Slots
    <3>1. s \in Slots
      BY <1>0, <2>2, FreeSlot DEF WebTypeOK
    <3>2. /\ appstate' = [appstate EXCEPT ![c] = s]
          /\ tcp' = [tcp EXCEPT ![c] = "open"] /\ used' = used \cup {s}
          /\ at' = [at EXCEPT ![s] = "reading"]
          /\ expired' = [expired EXCEPT ![s] = FALSE]
          /\ UNCHANGED <<build, statics, sensor_count, histories>>
      BY <1>1, <2>2 DEF Connected
    <3>. HIDE DEF s
    <3>3. WebTypeOK'
      BY <1>0, <3>1, <3>2 DEF WebTypeOK, TcpStates, statics, histories
    <3>4. SlotInv'
      BY <1>0, <3>1, <3>2 DEF WebTypeOK, SlotInv
    <3>. QED
      BY <3>3, <3>4
  <2>. QED
    BY <2>1, <2>2
<1>2. ASSUME NEW c \in Conns, ReadsRequest(c) \/ PageAgain(c)
      PROVE  (WebTypeOK /\ SlotInv)'
  <2>1. /\ BeginPage(c) /\ tcp[c] # "closed" /\ Restarted(c)
        /\ UNCHANGED <<build, appstate, used, statics, sensor_count, strayed, orphans, overlong>>
    BY <1>2 DEF ReadsRequest, PageAgain
  <2>2. WebTypeOK'
    BY <1>0, <2>1, BeginType DEF WebTypeOK, Restarted, statics
  <2>3. SlotInv'
    BY <1>0, <2>1, BeginType DEF SlotInv
  <2>. QED
    BY <2>2, <2>3
<1>3. ASSUME NEW c \in Conns, ReadsOther(c) \/ ReadsMore(c) \/ AckedShared(c)
      PROVE  (WebTypeOK /\ SlotInv)'
  <2>1. /\ tcp[c] # "closed" /\ Restarted(c)
        /\ \E t \in {"fin", "open", tcp[c]} : tcp' = [tcp EXCEPT ![c] = t]
        /\ UNCHANGED <<build, appstate, used, at, statics, sensor_count, histories>>
    BY <1>0, <1>3 DEF ReadsOther, ReadsMore, AckedShared, WebTypeOK
  <2>2. WebTypeOK'
    BY <1>0, <2>1 DEF WebTypeOK, Restarted, TcpStates, statics, histories
  <2>3. SlotInv'
    BY <1>0, <2>1 DEF WebTypeOK, SlotInv, TcpStates
  <2>. QED
    BY <2>2, <2>3
<1>4. ASSUME NEW c \in Conns, Acked(c)
      PROVE  (WebTypeOK /\ SlotInv)'
  <2>. DEFINE s == appstate[c]
  <2>1. s \in Slots /\ at[s] \in Page /\ tcp[c] = "sent"
    BY <1>0, <1>4 DEF SlotInv, Acked
  <2>2. PICK g \in After(at[s]) :
          /\ at' = [at EXCEPT ![s] = g.at]
          /\ nbr' = g.nbr /\ r' = g.r /\ i' = g.i /\ blen' = g.blen
          /\ tcp' = IF g.at = "ended" THEN [tcp EXCEPT ![c] = "fin"] ELSE tcp
          /\ listed' = IF g.at = "routes" /\ lone[s]
                       THEN [listed EXCEPT ![s] = Append(@, g.r)] ELSE listed
          /\ overlong' = (overlong \/ (g.at = "sens" /\ g.blen >= build.bufSize))
    BY <1>4 DEF Acked
  <2>3. /\ Restarted(c)
        /\ UNCHANGED <<build, appstate, used, sensor_count, strayed, orphans, lone>>
    BY <1>4 DEF Acked
  <2>4. /\ g.at \in Page \cup {"ended"} /\ g.nbr \in 0 .. NbrCount
        /\ g.r \in 0 .. RouteCount /\ g.i \in Nat /\ g.blen \in Nat
        /\ ~build.sensors => g.at \notin {"shead", "sens"}
    BY <1>0, <2>1, Segments DEF SlotInv
  <2>5. g.at = "routes" => g.r \in 1 .. RouteCount
    BY <1>0, <2>1, Segments DEF SlotInv
  <2>. HIDE DEF s
  <2>6. listed' \in [Slots -> Seq(1 .. RouteCount)]
    BY <1>0, <2>1, <2>2, <2>5 DEF WebTypeOK
  <2>7. overlong' \in BOOLEAN
    BY <2>2
  <2>8. tcp' \in [Conns -> TcpStates] /\ \A d \in Conns : tcp'[d] = "closed" <=> tcp[d] = "closed"
    BY <1>0, <2>1, <2>2 DEF WebTypeOK, TcpStates
  <2>9. WebTypeOK'
    BY <1>0, <2>1, <2>2, <2>3, <2>4, <2>6, <2>8, <2>7 DEF WebTypeOK, Restarted
  <2>10. SlotInv'
    BY <1>0, <2>1, <2>2, <2>3, <2>4, <2>8 DEF WebTypeOK, SlotInv
  <2>. QED
    BY <2>9, <2>10
<1>5. ASSUME NEW c \in Conns, PollTimeout(c) \/ Noticed(c)
      PROVE  (WebTypeOK /\ SlotInv)'
  <2>1. /\ tcp[c] # "closed" /\ Gone(c) /\ Release(c)
        /\ UNCHANGED <<build, statics, sensor_count, overlong>>
    BY <1>5 DEF PollTimeout, Noticed
  <2>2. WebTypeOK'
    BY <1>0, <2>1, GoneType, ReleaseType DEF WebTypeOK, statics
  <2>3. SlotInv'
    BY <1>0, <2>1, GoneType, ReleaseType DEF SlotInv
  <2>. QED
    BY <2>2, <2>3
<1>6. ASSUME NEW c \in Conns, ClientCloses(c)
      PROVE  (WebTypeOK /\ SlotInv)'
  <2>1. /\ tcp[c] # "closed" /\ Release(c) /\ tcp' = [tcp EXCEPT ![c] = "over"]
        /\ UNCHANGED <<build, appstate, statics, sensor_count, overlong>>
    BY <1>6 DEF ClientCloses
  <2>2. WebTypeOK'
    BY <1>0, <2>1, ReleaseType DEF WebTypeOK, TcpStates, statics
  <2>3. SlotInv'
    BY <1>0, <2>1, ReleaseType DEF WebTypeOK, SlotInv
  <2>. QED
    BY <2>2, <2>3
<1>7. ASSUME NEW c \in Conns, Forgotten(c)
      PROVE  (WebTypeOK /\ SlotInv)'
  <2>1. WebTypeOK'
    BY <1>0, <1>7, GoneType DEF WebTypeOK, Forgotten, statics
  <2>2. SlotInv'
    BY <1>0, <1>7, GoneType DEF SlotInv, Forgotten
  <2>. QED
    BY <2>1, <2>2
<1>8. ASSUME NEW c \in Conns, PollTimeoutShared(c)
      PROVE  (WebTypeOK /\ SlotInv)'
  <2>1. tcp[c] # "closed" /\ Gone(c)
    BY <1>8 DEF PollTimeoutShared
  <2>2. WebTypeOK'
    BY <1>0, <1>8, <2>1, GoneType DEF WebTypeOK, PollTimeoutShared, statics, Page
  <2>3. SlotInv'
    BY <1>0, <1>8, <2>1, GoneType DEF WebTypeOK, SlotInv, PollTimeoutShared
  <2>. QED
    BY <2>2, <2>3
<1>9. ASSUME NEW s \in Slots, TimerExpires(s)
      PROVE  (WebTypeOK /\ SlotInv)'
  BY <1>0, <1>9 DEF WebTypeOK, SlotInv, TimerExpires, statics, histories
<1>10. ASSUME SensorData
      PROVE  (WebTypeOK /\ SlotInv)'
  BY <1>0, <1>10 DEF WebTypeOK, SlotInv, SensorData, statics, histories
<1>. QED
  BY <1>1, <1>2, <1>3, <1>4, <1>5, <1>6, <1>7, <1>8, <1>9, <1>10 DEF WebNext

LEMMA InvType == TypeInv /\ [Next]_vars => TypeInv'
<1>. SUFFICES ASSUME TypeInv, [Next]_vars
              PROVE  TypeInv'
  OBVIOUS
<1>. USE DEF TypeInv, TypeOK
<1>1. CASE Web
  <2>1. (WebTypeOK /\ SlotInv)'
    BY <1>1, WebType DEF Web
  <2>. QED
    BY <1>1, <2>1 DEF Web, bootVars
<1>2. CASE Reboot
  BY <1>2, ResetType
<1>3. ASSUME UNCHANGED webVars
      PROVE  (WebTypeOK /\ SlotInv)'
  BY <1>3 DEF WebTypeOK, SlotInv, webVars, statics, histories
<1>4. CASE SecondPasses
  BY <1>3, <1>4 DEF SecondPasses
<1>5. CASE SetPrefix
  BY <1>3, <1>5 DEF SetPrefix, set_prefix_64
<1>6. CASE BridgeAnswers
  BY <1>3, <1>6 DEF BridgeAnswers
<1>7. CASE LineLoses
  <2>1. asked' \in BOOLEAN /\ answered' \in BOOLEAN
    BY <1>7 DEF LineLoses
  <2>. QED
    BY <1>3, <1>7, <2>1 DEF LineLoses
<1>8. CASE UNCHANGED vars
  BY <1>3, <1>8 DEF vars, bootVars
<1>. QED
  BY <1>1, <1>2, <1>4, <1>5, <1>6, <1>7, <1>8 DEF Next, Boot

LEMMA TypesHold == Spec => []TypeInv
BY InitType, InvType, PTL DEF Spec

\* The variables of the web server and of the boot keep their types, for any
\* number of connections and blocks: a page never passes the end of its lists
\* of neighbours and routes.
THEOREM TypeCorrect == Spec => []TypeOK
<1>1. TypeInv => TypeOK
  BY DEF TypeInv
<1>. QED
  BY <1>1, TypesHold, PTL

-----------------------------------------------------------------------------
(* The blocks of the connections. *)

\* A block is released.
LEMMA ReleaseBlocks ==
  ASSUME TypeInv, BlocksExclusive, NEW c \in Conns, tcp[c] # "closed", Release(c),
         tcp' \in {[tcp EXCEPT ![c] = "closed"], [tcp EXCEPT ![c] = "over"]},
         \A d \in Conns \ {c} : appstate'[d] = appstate[d]
  PROVE  BlocksExclusive'
<1>. SUFFICES ASSUME ~strayed'
              PROVE  /\ \A d, e \in Conns : d # e /\ Live(d)' /\ Live(e)' => appstate'[d] # appstate'[e]
                     /\ used' = {appstate'[d] : d \in {d \in Conns : Live(d)'}} \cup orphans'
  BY DEF BlocksExclusive
<1>1. ~strayed /\ ~Shared(c) /\ used' = used \ {appstate[c]} /\ orphans' = orphans \ {appstate[c]}
  BY DEF Release
<1>2. \A d \in Conns : Live(d)' <=> d # c /\ Live(d)
  BY DEF Live, TypeInv, TypeOK, WebTypeOK
<1>3. \A d \in Conns \ {c} : Live(d) => appstate[d] # appstate[c]
  BY <1>1 DEF Shared
<1>4. /\ \A d, e \in Conns : d # e /\ Live(d) /\ Live(e) => appstate[d] # appstate[e]
      /\ used = {appstate[d] : d \in {d \in Conns : Live(d)}} \cup orphans
  BY <1>1 DEF BlocksExclusive
<1>5. used' = {appstate'[d] : d \in {d \in Conns : Live(d)'}} \cup orphans'
  BY <1>1, <1>2, <1>3, <1>4
<1>. QED
  BY <1>2, <1>4, <1>5

\* Nothing that matters to the blocks changes.
LEMMA SameBlocks ==
  ASSUME BlocksExclusive, \A c \in Conns : Live(c)' <=> Live(c),
         UNCHANGED <<appstate, used, strayed, orphans>>
  PROVE  BlocksExclusive'
BY DEF BlocksExclusive

LEMMA WebBlocks ==
  ASSUME TypeInv, BlocksExclusive, WebNext
  PROVE  BlocksExclusive'
<1>0. /\ tcp \in [Conns -> TcpStates] /\ used \subseteq Slots /\ at \in [Slots -> Page \cup {"reading", "ended"}]
      /\ appstate \in [Conns -> Slots \cup {NoSlot}]
      /\ \A c \in Conns : appstate[c] \in Slots <=> tcp[c] # "closed"
  BY DEF TypeInv, TypeOK, WebTypeOK, SlotInv
<1>1. ASSUME NEW c \in Conns, Connected(c)
      PROVE  BlocksExclusive'
  <2>. DEFINE s == CHOOSE s \in Slots \ used : \A q \in Slots \ used : s <= q
  <2>1. CASE used = Slots
    BY <1>1, <2>1, SameBlocks DEF Connected, histories, Live
  <2>2. CASE used # Slots
    <3>1. s \in Slots \ used
      BY <1>0, <2>2, FreeSlot
    <3>2. /\ appstate' = [appstate EXCEPT ![c] = s]
          /\ tcp' = [tcp EXCEPT ![c] = "open"] /\ used' = used \cup {s}
          /\ tcp[c] = "closed" /\ UNCHANGED <<strayed, orphans>>
      BY <1>1, <2>2 DEF Connected, histories
    <3>. HIDE DEF s
    <3>3. \A d \in Conns : Live(d)' <=> d = c \/ Live(d)
      BY <1>0, <3>2 DEF Live
    <3>4. ~Live(c)
      BY <3>2 DEF Live
    <3>5. \A d \in Conns : appstate'[d] = IF d = c THEN s ELSE appstate[d]
      BY <1>0, <3>2
    <3>. QED
      BY <3>1, <3>2, <3>3, <3>4, <3>5 DEF BlocksExclusive
  <2>. QED
    BY <2>1, <2>2
<1>2. ASSUME NEW c \in Conns,
             ReadsRequest(c) \/ PageAgain(c) \/ ReadsOther(c) \/ ReadsMore(c)
               \/ Acked(c) \/ AckedShared(c)
      PROVE  BlocksExclusive'
  <2>1. /\ Live(c) /\ \E t \in {"open", "sent", "fin"} : tcp' = [tcp EXCEPT ![c] = t]
        /\ UNCHANGED <<appstate, used, strayed, orphans>>
    <3>1. CASE ReadsRequest(c) \/ PageAgain(c)
      BY <1>0, <3>1 DEF ReadsRequest, PageAgain, BeginPage, Live
    <3>2. CASE ReadsOther(c) \/ ReadsMore(c) \/ AckedShared(c)
      BY <1>0, <3>2 DEF ReadsOther, ReadsMore, AckedShared, Live, histories
    <3>3. CASE Acked(c)
      BY <1>0, <3>3 DEF Acked, Live
    <3>. QED
      BY <1>2, <3>1, <3>2, <3>3
  <2>2. \A d \in Conns : Live(d)' <=> Live(d)
    BY <1>0, <2>1 DEF Live
  <2>. QED
    BY <2>1, <2>2, SameBlocks
<1>3. ASSUME NEW c \in Conns, PollTimeout(c) \/ Noticed(c) \/ ClientCloses(c)
      PROVE  BlocksExclusive'
  <2>1. /\ tcp[c] # "closed" /\ Release(c)
        /\ tcp' \in {[tcp EXCEPT ![c] = "closed"], [tcp EXCEPT ![c] = "over"]}
        /\ \A d \in Conns \ {c} : appstate'[d] = appstate[d]
    BY <1>0, <1>3 DEF PollTimeout, Noticed, ClientCloses, Gone
  <2>. QED
    BY <2>1, ReleaseBlocks
<1>4. ASSUME NEW c \in Conns, Forgotten(c)
      PROVE  BlocksExclusive'
  <2>1. /\ \A d \in Conns : Live(d)' <=> d # c /\ Live(d)
        /\ \A d \in Conns \ {c} : appstate'[d] = appstate[d]
        /\ UNCHANGED <<used, strayed>>
        /\ orphans' = IF Live(c) THEN orphans \cup (used \cap {appstate[c]}) ELSE orphans
    BY <1>0, <1>4 DEF Forgotten, Gone, Live
  <2>. QED
    BY <1>0, <2>1 DEF BlocksExclusive
<1>5. ASSUME (\E s \in Slots : TimerExpires(s)) \/ SensorData
      PROVE  BlocksExclusive'
  BY <1>5, SameBlocks DEF TimerExpires, SensorData, histories, Live
<1>6. ASSUME NEW c \in Conns, PollTimeoutShared(c)
      PROVE  BlocksExclusive'
  BY <1>6 DEF PollTimeoutShared, BlocksExclusive
<1>. QED
  BY <1>1, <1>2, <1>3, <1>4, <1>5, <1>6 DEF WebNext

LEMMA InitBlocks == Init => BlocksExclusive
BY DEF Init, WebInit, WebFresh, BlocksExclusive, Live

LEMMA InvBlocks == TypeInv /\ BlocksExclusive /\ [Next]_vars => BlocksExclusive'
<1>. SUFFICES ASSUME TypeInv, BlocksExclusive, [Next]_vars
              PROVE  BlocksExclusive'
  OBVIOUS
<1>1. CASE Web
  BY <1>1, WebBlocks DEF Web
<1>2. CASE Reboot
  BY <1>2 DEF Reboot, WebReset, BlocksExclusive, Live
<1>3. ASSUME UNCHANGED webVars
      PROVE  BlocksExclusive'
  BY <1>3, SameBlocks DEF webVars, histories, Live
<1>4. CASE SecondPasses \/ SetPrefix \/ BridgeAnswers \/ LineLoses \/ UNCHANGED vars
  <2>1. UNCHANGED webVars
    BY <1>4, Zenon DEF SecondPasses, SetPrefix, BridgeAnswers, LineLoses, vars
  <2>. QED
    BY <2>1, <1>3
<1>. QED
  BY <1>1, <1>2, <1>4 DEF Next, Boot

LEMMA BlocksHold == Spec => []BlocksExclusive
BY InitBlocks, InvBlocks, TypesHold, PTL DEF Spec

\* No two connections share a block of the pool and none is lost but with a
\* connection uIP has forgotten, until a late notice (the acknowledgment of
\* the last FIN) releases a block that is already somebody else's:
\* httpd_appcall frees what its connection is marked with, each time it is
\* called with uip_closed, uip_aborted or uip_timedout.
THEOREM Exclusive == Spec => []BlocksExclusive
BY BlocksHold

-----------------------------------------------------------------------------
(* The buffer of the pages. *)

\* Two pages that have both come to "end" have left no more in buf than the
\* last </pre>: the one that goes on first may add the heading of the sensors.
BufInv ==
  ~overlong =>
    /\ \A s \in Slots : at[s] = "end" => blen < build.bufSize
    /\ \A s, q \in Slots : s # q /\ at[s] = "end" /\ at[q] = "end" => blen <= 6

LEMMA BufSame ==
  ASSUME BufInv, UNCHANGED <<build, blen, overlong>>,
         \A s \in Slots : at'[s] = "end" => at[s] = "end"
  PROVE  BufInv'
BY DEF BufInv

LEMMA WebBuf ==
  ASSUME CONNS <= 2, TypeInv, BufInv, WebNext
  PROVE  BufInv'
<1>0. /\ at \in [Slots -> Page \cup {"reading", "ended"}]
      /\ \A c \in Conns : tcp[c] # "closed" => appstate[c] \in Slots
      /\ build \in Builds /\ build.bufSize \in Nat /\ build.bufSize >= 128 /\ blen \in Nat
  BY WebAssumption DEF TypeInv, TypeOK, WebTypeOK, SlotInv
<1>1. ASSUME NEW c \in Conns, Acked(c)
      PROVE  BufInv'
  <2>. DEFINE s == appstate[c]
  <2>1. s \in Slots /\ at[s] \in Page
    BY <1>0, <1>1 DEF Acked
  <2>2. PICK g \in After(at[s]) :
          /\ at' = [at EXCEPT ![s] = g.at] /\ blen' = g.blen
          /\ overlong' = (overlong \/ (g.at = "sens" /\ g.blen >= build.bufSize))
    BY <1>1 DEF Acked
  <2>3. /\ g.at \in Page \cup {"ended"} /\ g.blen \in Nat
        /\ g.at = "end" => g.blen = 6 /\ at[s] \in {"mid", "routes"}
        /\ \/ g.blen < build.bufSize \/ g.blen = blen
           \/ at[s] = "end" /\ g.blen = blen + 18 /\ g.at = "shead"
           \/ g.at = "sens"
    BY <2>1, Segments DEF TypeInv, SlotInv
  <2>4. build' = build
    BY <1>1 DEF Acked
  <2>. HIDE DEF s
  <2>5. \A q \in Slots : at'[q] = IF q = s THEN g.at ELSE at[q]
    BY <1>0, <2>1, <2>2
  <2>6. \A p, q \in Slots : p # s /\ q # s => p = q
    BY <2>1, WebAssumption DEF Slots
  <2>7. SUFFICES ASSUME ~overlong'
                 PROVE  BufInv'
    BY DEF BufInv
  <2>8. ~overlong /\ (g.at = "sens" => g.blen < build.bufSize)
    <3>1. ~overlong /\ ~(g.at = "sens" /\ g.blen >= build.bufSize)
      BY <2>2, <2>7, Zenon
    <3>. QED
      BY <1>0, <2>3, <3>1
  <2>9. ASSUME NEW q \in Slots, at'[q] = "end"
        PROVE  blen' < build.bufSize
    <3>1. CASE q = s
      BY <1>0, <2>2, <2>3, <2>5, <2>9, <3>1
    <3>2. CASE q # s
      <4>1. at[q] = "end" /\ blen < build.bufSize /\ (at[s] = "end" => blen <= 6)
        BY <2>1, <2>5, <2>9, <2>8, <3>2 DEF BufInv
      <4>. QED
        BY <1>0, <2>2, <2>3, <2>8, <4>1
    <3>. QED
      BY <3>1, <3>2
  <2>10. ASSUME NEW p \in Slots, NEW q \in Slots, p # q, at'[p] = "end", at'[q] = "end"
        PROVE  blen' <= 6
    BY <2>2, <2>3, <2>5, <2>6, <2>10
  <2>. QED
    BY <2>4, <2>9, <2>10 DEF BufInv
<1>2. ASSUME NEW c \in Conns, ReadsRequest(c) \/ PageAgain(c)
      PROVE  BufInv'
  BY <1>0, <1>2, BufSame DEF ReadsRequest, PageAgain, BeginPage, statics
<1>3. ASSUME NEW c \in Conns, PollTimeout(c) \/ Noticed(c) \/ ClientCloses(c)
      PROVE  BufInv'
  BY <1>0, <1>3, BufSame DEF PollTimeout, Noticed, ClientCloses, Release, statics
<1>4. ASSUME NEW c \in Conns, Connected(c)
      PROVE  BufInv'
  BY <1>0, <1>4, BufSame DEF Connected, statics, histories
<1>5. ASSUME NEW c \in Conns, PollTimeoutShared(c)
      PROVE  BufInv'
  BY <1>0, <1>5, BufSame DEF PollTimeoutShared, statics
<1>6. ASSUME NEW c \in Conns, ReadsOther(c) \/ ReadsMore(c) \/ AckedShared(c) \/ Forgotten(c)
      PROVE  BufInv'
  BY <1>6, BufSame DEF ReadsOther, ReadsMore, AckedShared, Forgotten, statics, histories
<1>7. ASSUME (\E s \in Slots : TimerExpires(s)) \/ SensorData
      PROVE  BufInv'
  BY <1>7, BufSame DEF TimerExpires, SensorData, statics, histories
<1>. QED
  BY <1>1, <1>2, <1>3, <1>4, <1>5, <1>6, <1>7 DEF WebNext

LEMMA InvBuf == CONNS <= 2 /\ TypeInv /\ BufInv /\ [Next]_vars => BufInv'
<1>. SUFFICES ASSUME CONNS <= 2, TypeInv, BufInv, [Next]_vars
              PROVE  BufInv'
  OBVIOUS
<1>1. CASE Web
  BY <1>1, WebBuf DEF Web
<1>2. CASE Reboot
  BY <1>2 DEF Reboot, WebReset, BufInv
<1>3. CASE SecondPasses \/ SetPrefix \/ BridgeAnswers \/ LineLoses \/ UNCHANGED vars
  <2>1. UNCHANGED webVars
    BY <1>3, Zenon DEF SecondPasses, SetPrefix, BridgeAnswers, LineLoses, vars
  <2>. QED
    BY <2>1, BufSame DEF webVars, statics, histories
<1>. QED
  BY <1>1, <1>2, <1>3 DEF Next, Boot

\* With the two blocks of WEBSERVER_CONF_CFS_CONNS (three would not do) ADD
\* never begins behind the end of buf, however two pages overlap, until a row
\* of sensors as long as buf has been printed: the page of the native router
\* adds the heading of its sensors behind a blen that may be the other
\* page's (native/host/border-router.c:187), and the length of a row is
\* nowhere looked at.
THEOREM BufBounded == CONNS <= 2 /\ Spec => []BufInBounds
<1>1. Init => BufInv
  BY DEF Init, WebInit, WebFresh, BufInv
<1>2. TypeInv /\ BufInv => BufInBounds
  BY WebAssumption DEF TypeInv, TypeOK, WebTypeOK, BufInv, BufInBounds
<1>3. CASE CONNS <= 2
  <2>1. TypeInv /\ BufInv /\ [Next]_vars => BufInv'
    BY <1>3, InvBuf
  <2>. QED
    BY <1>1, <1>2, <2>1, TypesHold, PTL DEF Spec
<1>. QED
  BY <1>3

-----------------------------------------------------------------------------
(* The routes of a page that runs alone. *)

Counted(n) == [k \in 1 .. n |-> k]

\* What the page in slot s has listed so far.
ListedInv(s) ==
  /\ at[s] \in {"top", "nbrs", "mid"} => listed[s] = << >>
  /\ at[s] = "routes" => r \in 1 .. RouteCount /\ listed[s] = Counted(r)
  /\ at[s] = "end" => listed[s] = Counted(RouteCount)

WholeInv ==
  ~strayed =>
    \A c \in Conns :
      tcp[c] = "sent" /\ lone[appstate[c]]
        => /\ \A d \in Conns \ {c} : tcp[d] # "sent"
           /\ ListedInv(appstate[c])

\* The page of c is as it was.
LEMMA WholeSame ==
  ASSUME TypeInv, WholeInv, r' = r, strayed' = FALSE => strayed = FALSE,
         \A c \in Conns : tcp'[c] = "sent" /\ lone'[appstate'[c]] /\ ~strayed' =>
           /\ tcp[c] = "sent" /\ appstate'[c] = appstate[c]
           /\ lone'[appstate[c]] = lone[appstate[c]] /\ at'[appstate[c]] = at[appstate[c]]
           /\ listed'[appstate[c]] = listed[appstate[c]],
         \A d \in Conns : tcp'[d] = "sent" => tcp[d] = "sent"
  PROVE  WholeInv'
<1>. SUFFICES ASSUME ~strayed', NEW c \in Conns, tcp'[c] = "sent", lone'[appstate'[c]]
              PROVE  /\ \A d \in Conns \ {c} : tcp'[d] # "sent"
                     /\ ListedInv(appstate[c])' /\ appstate'[c] = appstate[c]
  BY DEF WholeInv, ListedInv
<1>1. ~strayed
  BY DEF TypeInv, TypeOK, WebTypeOK
<1>2. /\ \A d \in Conns \ {c} : tcp[d] # "sent"
      /\ ListedInv(appstate[c])
  BY <1>1 DEF WholeInv
<1>3. ListedInv(appstate[c])'
  BY <1>2 DEF ListedInv
<1>. QED
  BY <1>2, <1>3

LEMMA CountOn ==
  ASSUME NEW n \in Nat
  PROVE  Append(Counted(n), n + 1) = Counted(n + 1)
<1>1. Counted(n) \in Seq(Nat) /\ Len(Counted(n)) = n
  BY DEF Counted
<1>2. /\ Append(Counted(n), n + 1) \in Seq(Nat) /\ Len(Append(Counted(n), n + 1)) = n + 1
      /\ \A k \in 1 .. n + 1 : Append(Counted(n), n + 1)[k] = IF k <= n THEN Counted(n)[k] ELSE n + 1
  BY <1>1
<1>3. Counted(n + 1) \in Seq(Nat) /\ Len(Counted(n + 1)) = n + 1
  BY DEF Counted
<1>4. \A k \in 1 .. n + 1 : Append(Counted(n), n + 1)[k] = Counted(n + 1)[k]
  BY <1>2 DEF Counted
<1>. QED
  BY <1>2, <1>3, <1>4

LEMMA WebWhole ==
  ASSUME TypeInv, BlocksExclusive, WholeInv, WebNext
  PROVE  WholeInv'
<1>0. /\ at \in [Slots -> Page \cup {"reading", "ended"}]
      /\ tcp \in [Conns -> TcpStates] /\ appstate \in [Conns -> Slots \cup {NoSlot}]
      /\ lone \in [Slots -> BOOLEAN] /\ listed \in [Slots -> Seq(1 .. RouteCount)]
      /\ strayed \in BOOLEAN /\ r \in 0 .. RouteCount /\ RouteCount \in Nat
      /\ \A c \in Conns : tcp[c] # "closed" => appstate[c] \in Slots
  BY WebAssumption DEF TypeInv, TypeOK, WebTypeOK, SlotInv
<1>1. \A c, d \in Conns : ~strayed /\ c # d /\ Live(c) /\ Live(d) => appstate[c] # appstate[d]
  BY DEF BlocksExclusive
<1>2. ASSUME NEW c \in Conns, Acked(c)
      PROVE  WholeInv'
  <2>. DEFINE s == appstate[c]
  <2>1. s \in Slots /\ at[s] \in Page /\ tcp[c] = "sent"
    BY <1>0, <1>2 DEF Acked
  <2>2. PICK g \in After(at[s]) :
          /\ at' = [at EXCEPT ![s] = g.at] /\ r' = g.r
          /\ tcp' = IF g.at = "ended" THEN [tcp EXCEPT ![c] = "fin"] ELSE tcp
          /\ listed' = IF g.at = "routes" /\ lone[s]
                       THEN [listed EXCEPT ![s] = Append(@, g.r)] ELSE listed
    BY <1>2 DEF Acked
  <2>3. UNCHANGED <<appstate, strayed, lone>>
    BY <1>2 DEF Acked
  <2>4. /\ g.r \in 0 .. RouteCount
        /\ g.at = "end" => at[s] \in {"mid", "routes"}
        /\ g.at = "routes" => at[s] \in {"mid", "routes"} /\ g.r \in 1 .. RouteCount
        /\ g.at \in {"top", "nbrs", "mid"} => at[s] \in {"top", "nbrs"}
        /\ at[s] = "mid" => IF RouteCount = 0 THEN g.at = "end" ELSE g.at = "routes" /\ g.r = 1
        /\ at[s] = "routes" => IF r = RouteCount \/ r = 0 THEN g.at = "end"
                               ELSE g.at = "routes" /\ g.r = r + 1
    BY <2>1, Segments DEF TypeInv, SlotInv
  <2>5. /\ at'[s] = g.at
        /\ listed'[s] = IF g.at = "routes" /\ lone[s] THEN Append(listed[s], g.r) ELSE listed[s]
        /\ \A d \in Conns : tcp'[d] = "sent" => tcp[d] = "sent"
    BY <1>0, <2>1, <2>2
  <2>6. ASSUME ~strayed, lone[s]
        PROVE  ListedInv(s)' /\ \A d \in Conns \ {c} : tcp[d] # "sent"
    <3>1. ListedInv(s) /\ \A d \in Conns \ {c} : tcp[d] # "sent"
      BY <2>1, <2>6 DEF WholeInv
    <3>2. Append(<< >>, 1) = Counted(1) /\ << >> = Counted(0)
      BY DEF Counted
    <3>3. g.at \in {"top", "nbrs", "mid"} => listed'[s] = << >>
      BY <2>4, <2>5, <3>1 DEF ListedInv
    <3>4. g.at = "routes" => g.r \in 1 .. RouteCount /\ listed'[s] = Counted(g.r)
      <4>. SUFFICES ASSUME g.at = "routes" PROVE listed'[s] = Counted(g.r)
        BY <2>4
      <4>1. CASE at[s] = "mid"
        BY <2>4, <2>5, <2>6, <3>1, <3>2, <4>1 DEF ListedInv
      <4>2. CASE at[s] = "routes"
        <5>1. r \in Nat /\ listed[s] = Counted(r) /\ g.r = r + 1
          BY <2>4, <3>1, <4>2 DEF ListedInv
        <5>. QED
          BY <2>5, <2>6, <5>1, CountOn
      <4>. QED
        BY <2>4, <4>1, <4>2
    <3>5. g.at = "end" => listed'[s] = Counted(RouteCount)
      BY <1>0, <2>4, <2>5, <3>1, <3>2 DEF ListedInv
    <3>6. ListedInv(s)'
      BY <2>2, <2>3, <2>5, <3>3, <3>4, <3>5 DEF ListedInv
    <3>. QED
      BY <3>1, <3>6
  <2>7. ASSUME ~strayed, NEW d \in Conns, d # c, tcp[d] = "sent", lone[appstate[d]]
        PROVE  FALSE
    BY <2>1, <2>7 DEF WholeInv
  <2>8. ASSUME ~strayed', NEW d \in Conns, tcp'[d] = "sent", lone'[appstate'[d]]
        PROVE  (\A e \in Conns \ {d} : tcp'[e] # "sent") /\ ListedInv(appstate[d])'
    <3>1. ~strayed /\ tcp[d] = "sent" /\ lone[appstate[d]]
      BY <2>3, <2>5, <2>8
    <3>2. d = c
      BY <2>7, <3>1
    <3>3. \A e \in Conns \ {d} : tcp'[e] # "sent"
      BY <2>5, <2>6, <3>1, <3>2
    <3>. QED
      BY <2>6, <3>1, <3>2, <3>3
  <2>. QED
    BY <2>8 DEF WholeInv
<1>3. ASSUME NEW c \in Conns, ReadsRequest(c) \/ PageAgain(c)
      PROVE  WholeInv'
  <2>. DEFINE s == appstate[c]
  <2>1. /\ BeginPage(c) /\ Live(c) /\ s \in Slots /\ UNCHANGED <<appstate, strayed>>
    BY <1>0, <1>3 DEF ReadsRequest, PageAgain, Live
  <2>. SUFFICES ASSUME ~strayed, NEW d \in Conns, tcp'[d] = "sent", lone'[appstate[d]]
                PROVE  (\A e \in Conns \ {d} : tcp'[e] # "sent") /\ ListedInv(appstate[d])'
    BY <2>1 DEF WholeInv, ListedInv
  <2>2. \A e \in Conns \ {c} : tcp'[e] = tcp[e]
    BY <1>0, <2>1 DEF BeginPage
  <2>3. appstate[d] = s /\ Waiting \subseteq {s}
    <3>1. appstate[d] \in Slots
      BY <1>0, <2>1, <2>2 DEF Live
    <3>2. lone'[appstate[d]] = IF appstate[d] = s THEN Waiting \subseteq {s} ELSE FALSE
      BY <2>1, <3>1 DEF BeginPage
    <3>. QED
      BY <3>2
  <2>4. \A e \in Conns \ {c} : tcp[e] # "sent"
    BY <1>1, <2>1, <2>3 DEF Waiting, Live
  <2>5. d = c
    BY <2>2, <2>4
  <2>6. at'[s] = "top" /\ listed'[s] = << >>
    BY <1>0, <2>1 DEF BeginPage
  <2>7. ListedInv(appstate[d])'
    BY <2>1, <2>5, <2>6 DEF ListedInv
  <2>. QED
    BY <2>2, <2>4, <2>5, <2>7
<1>4. ASSUME NEW c \in Conns, PollTimeout(c) \/ Noticed(c) \/ ClientCloses(c)
      PROVE  WholeInv'
  <2>1. /\ tcp[c] # "closed" /\ Release(c) /\ tcp'[c] # "sent" /\ r' = r
        /\ \A d \in Conns \ {c} : tcp'[d] = tcp[d] /\ appstate'[d] = appstate[d]
    BY <1>0, <1>4 DEF PollTimeout, Noticed, ClientCloses, Gone, statics
  <2>2. ASSUME NEW d \in Conns \ {c}, tcp[d] = "sent", ~strayed'
        PROVE  /\ at'[appstate[d]] = at[appstate[d]] /\ lone'[appstate[d]] = lone[appstate[d]]
               /\ listed'[appstate[d]] = listed[appstate[d]]
    <3>1. ~Shared(c) /\ appstate[d] # appstate[c] /\ appstate[c] \in Slots /\ appstate[d] \in Slots
      BY <1>0, <2>1, <2>2 DEF Release, Shared, Live
    <3>. QED
      BY <1>0, <2>1, <3>1 DEF Release
  <2>3. strayed' = FALSE => strayed = FALSE
    BY <1>0, <2>1 DEF Release
  <2>. QED
    BY <2>1, <2>2, <2>3, WholeSame
<1>5. ASSUME NEW c \in Conns, Connected(c)
      PROVE  WholeInv'
  <2>. DEFINE s == CHOOSE s \in Slots \ used : \A q \in Slots \ used : s <= q
  <2>1. CASE used = Slots
    BY <1>0, <1>5, <2>1, WholeSame DEF Connected, histories, statics
  <2>2. CASE used # Slots
    <3>1. s \in Slots \ used
      BY <2>2, FreeSlot DEF TypeInv, TypeOK, WebTypeOK
    <3>2. /\ appstate' = [appstate EXCEPT ![c] = s] /\ tcp' = [tcp EXCEPT ![c] = "open"]
          /\ at' = [at EXCEPT ![s] = "reading"]
          /\ UNCHANGED <<r, strayed, lone, listed>>
      BY <1>5, <2>2 DEF Connected, histories, statics
    <3>. HIDE DEF s
    <3>3. ASSUME ~strayed, NEW d \in Conns, tcp[d] = "sent"
          PROVE  appstate[d] # s
      BY <3>1, <3>3 DEF BlocksExclusive, Live
    <3>4. \A d \in Conns : tcp'[d] = "sent" => tcp[d] = "sent" /\ appstate'[d] = appstate[d]
      BY <1>0, <3>2
    <3>5. \A q \in Slots : q # s => at'[q] = at[q]
      BY <1>0, <3>2
    <3>. QED
      BY <1>0, <3>2, <3>3, <3>4, <3>5, WholeSame
  <2>. QED
    BY <2>1, <2>2
<1>6. ASSUME NEW c \in Conns, ReadsOther(c) \/ ReadsMore(c) \/ AckedShared(c)
      PROVE  WholeInv'
  <2>1. /\ UNCHANGED <<appstate, at, r, strayed, lone, listed>>
        /\ \A d \in Conns : tcp'[d] = "sent" => tcp[d] = "sent"
    BY <1>0, <1>6 DEF ReadsOther, ReadsMore, AckedShared, statics, histories
  <2>. QED
    BY <2>1, WholeSame
<1>7. ASSUME NEW c \in Conns, Forgotten(c)
      PROVE  WholeInv'
  <2>1. /\ UNCHANGED <<at, r, strayed, lone, listed>>
        /\ \A d \in Conns : tcp'[d] = "sent" => tcp[d] = "sent" /\ appstate'[d] = appstate[d]
    BY <1>0, <1>7 DEF Forgotten, Gone, statics
  <2>. QED
    BY <2>1, WholeSame
<1>8. ASSUME NEW c \in Conns, PollTimeoutShared(c)
      PROVE  WholeInv'
  BY <1>8 DEF PollTimeoutShared, WholeInv
<1>9. ASSUME (\E s \in Slots : TimerExpires(s)) \/ SensorData
      PROVE  WholeInv'
  <2>1. UNCHANGED <<tcp, appstate, at, r, strayed, lone, listed>>
    BY <1>9 DEF TimerExpires, SensorData, statics, histories
  <2>. QED
    BY <2>1, WholeSame
<1>. QED
  BY <1>2, <1>3, <1>4, <1>5, <1>6, <1>7, <1>8, <1>9 DEF WebNext

LEMMA InvWhole == TypeInv /\ BlocksExclusive /\ WholeInv /\ [Next]_vars => WholeInv'
<1>. SUFFICES ASSUME TypeInv, BlocksExclusive, WholeInv, [Next]_vars
              PROVE  WholeInv'
  OBVIOUS
<1>1. CASE Web
  BY <1>1, WebWhole DEF Web
<1>2. CASE Reboot
  BY <1>2 DEF Reboot, WebReset, WholeInv
<1>3. CASE SecondPasses \/ SetPrefix \/ BridgeAnswers \/ LineLoses \/ UNCHANGED vars
  <2>1. UNCHANGED webVars
    BY <1>3, Zenon DEF SecondPasses, SetPrefix, BridgeAnswers, LineLoses, vars
  <2>. QED
    BY <2>1, WholeSame DEF webVars, statics, histories
<1>. QED
  BY <1>1, <1>2, <1>3 DEF Next, Boot

\* A page that runs alone has, before its last </pre>, listed every route
\* once and in order, whatever the other connections do meanwhile: the
\* static iterator r moves only with that page.
THEOREM AllRoutes == Spec => []PageWhole
<1>1. Init => WholeInv
  BY DEF Init, WebInit, WebFresh, WholeInv
<1>2. WholeInv => PageWhole
  BY DEF WholeInv, ListedInv, Counted, PageWhole
<1>. QED
  BY <1>1, <1>2, InvWhole, TypesHold, BlocksHold, PTL DEF Spec
=============================================================================
