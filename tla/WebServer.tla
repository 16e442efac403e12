----------------------------- MODULE WebServer ------------------------------
(***************************************************************************)
(* The web server of the border routers: httpd-simple.c, whose two copies  *)
(* are the same, and the page of routes, generate_routes, of which the     *)
(* native router (native/host/border-router.c) and the embedded one        *)
(* (border-router.c) have their own.  build says which router it is; it is *)
(* chosen in the first state.                                              *)
(*                                                                         *)
(* Every event of the TCP stack runs httpd_appcall to its end: a page goes *)
(* on to its next SEND_STRING and waits there until the data is            *)
(* acknowledged.  What a page keeps over such a wait are static variables, *)
(* shared by all connections: buf, of which blen characters are filled,    *)
(* and the neighbour, the route and the sensor it has come to.  Of the     *)
(* text only the lengths are kept, of a line the longest it can have, of a  *)
(* row of sensors any of RowLengths.                                       *)
(* The neighbours and the routes do not change.                            *)
(*                                                                         *)
(* uIP is not part of the repository: what is said of it (when it calls    *)
(* the server, and for what) is marked external in the map.                *)
(***************************************************************************)
EXTENDS Naturals, Sequences, FiniteSets

CONSTANTS
  Builds,       \* records [bufSize, sensors]: sizeof(buf), whether sensors are listed
  Conns,        \* the connections of uIP
  CONNS,        \* the blocks of memb conns
  NbrCount, RouteCount, MaxSensors,
  RowLengths    \* what a row of sensors may print as: of 32 characters, but
                \* nothing makes it end within them

ASSUME WebAssumption ==
  /\ CONNS \in Nat \ {0}
  /\ NbrCount \in Nat /\ RouteCount \in Nat /\ MaxSensors \in Nat
  /\ RowLengths \subseteq Nat
  /\ \A b \in Builds : b.bufSize \in Nat /\ b.bufSize >= 128 /\ b.sensors \in BOOLEAN

Slots == 1 .. CONNS
NoSlot == 0

\* The SEND_STRING at which a page waits.  Sends in a row with nothing done
\* between them are one: the headers and TOP, the last </pre> and BOTTOM.
Page == {"top", "nbrs", "mid", "routes", "end", "shead", "sens", "bottom"}

VARIABLES
  build,          \* which router this is
  tcp,            \* per connection: what uIP makes of it
  appstate,       \* per connection: the slot it is marked with
  used,           \* the slots allocated in conns
  at,             \* per slot: "reading" in STATE_WAITING, in STATE_OUTPUT where
                  \* its page waits, "ended" behind it
  expired,        \* per slot: the 10 s of its timer have passed
  nbr, r, i,      \* statics of generate_routes; 0 is NULL for nbr and r
  blen,           \* how much of buf is filled
  sensor_count,
  strayed,        \* the slot of a live connection has been released for another (history)
  orphans,        \* slots whose connection uIP has forgotten (history)
  overlong,       \* a row as long as buf has been printed (history)
  lone,           \* per slot: no other page has run beside this one (history)
  listed          \* per slot: the routes a lone page has listed (history)

statics == <<nbr, r, i, blen>>
histories == <<strayed, orphans, overlong, lone, listed>>
webVars == <<build, tcp, appstate, used, at, expired, statics, sensor_count, histories>>

\* "open": established, nothing outstanding; "sent": data waits for its
\* acknowledgment; "fin": closed by the server (FIN_WAIT); "over": the client
\* has closed too (LAST_ACK or TIME_WAIT).
TcpStates == {"closed", "open", "sent", "fin", "over"}

WebTypeOK ==
  /\ build \in Builds
  /\ tcp \in [Conns -> TcpStates] /\ appstate \in [Conns -> Slots \cup {NoSlot}]
  /\ used \subseteq Slots /\ at \in [Slots -> Page \cup {"reading", "ended"}]
  /\ expired \in [Slots -> BOOLEAN]
  /\ nbr \in 0 .. NbrCount /\ r \in 0 .. RouteCount /\ i \in Nat
  /\ blen \in Nat /\ sensor_count \in 0 .. MaxSensors
  /\ strayed \in BOOLEAN /\ orphans \subseteq Slots /\ overlong \in BOOLEAN
  /\ lone \in [Slots -> BOOLEAN] /\ listed \in [Slots -> Seq(1 .. RouteCount)]

\* httpd_init, with statics that are zero.
WebFresh ==
  /\ tcp = [c \in Conns |-> "closed"] /\ appstate = [c \in Conns |-> NoSlot]
  /\ used = {}
  /\ at = [s \in Slots |-> "reading"] /\ expired = [s \in Slots |-> FALSE]
  /\ nbr = 0 /\ r = 0 /\ i = 0 /\ blen = 0 /\ sensor_count = 0
  /\ strayed = FALSE /\ orphans = {} /\ overlong = FALSE
  /\ lone = [s \in Slots |-> FALSE] /\ listed = [s \in Slots |-> << >>]

WebInit == build \in Builds /\ WebFresh

\* The router starts anew.
WebReset ==
  /\ tcp' = [c \in Conns |-> "closed"] /\ appstate' = [c \in Conns |-> NoSlot]
  /\ used' = {}
  /\ at' = [s \in Slots |-> "reading"] /\ expired' = [s \in Slots |-> FALSE]
  /\ nbr' = 0 /\ r' = 0 /\ i' = 0 /\ blen' = 0 /\ sensor_count' = 0
  /\ strayed' = FALSE /\ orphans' = {} /\ overlong' = FALSE
  /\ lone' = [s \in Slots |-> FALSE] /\ listed' = [s \in Slots |-> << >>]
  /\ UNCHANGED build

(***************************************************************************)
(* generate_routes, from one SEND_STRING to the next: where the page then  *)
(* waits, and the statics.                                                 *)
(***************************************************************************)
Segment(pos, n, route, sensor, length) ==
  [at |-> pos, nbr |-> n, r |-> route, i |-> sensor, blen |-> length]

\* nbr_table_next goes on at the head after NULL.
NextNbr(n) == IF n = NbrCount THEN 0 ELSE n + 1

\* Mutant: the last route is never reached.
NextRouteShort(n) == IF n = 0 \/ n + 1 >= RouteCount THEN 0 ELSE n + 1

\* Mutant: the loop over the routes does not end.
NextRouteWraps(n) == IF n = 0 THEN 0 ELSE IF n = RouteCount THEN 1 ELSE n + 1

\* Mutant: the list has no end.
NextRoutePast(n) == IF n = 0 THEN 0 ELSE n + 1

\* uip_ds6_route_next
NextRoute(n) == IF n = 0 \/ n = RouteCount THEN 0 ELSE n + 1

\* Mutant: a line is added as long as there are 20 characters left.
NeighboursFromTight(n) ==
  {Segment("nbrs", k, r, i, build.bufSize - 20 + 40) : k \in {k \in 1 .. NbrCount : 0 < n /\ n <= k}}
    \cup {Segment("mid", 0, r, i, build.bufSize - 20 + 17)}

\* A line has at most 40 characters.  Any line may be the one that passes the
\* limit of 45 left, and is sent with what was before it; behind the last one
\* the heading of the routes is added.
NeighboursFrom(n) ==
  {Segment("nbrs", k, r, i, build.bufSize - 45 + 40) : k \in {k \in 1 .. NbrCount : 0 < n /\ n <= k}}
    \cup {Segment("mid", 0, r, i, build.bufSize - 45 + 17)}

\* Only the native router prints no long lifetimes.
RoutesFrom(n) ==
  {IF n = 0 THEN Segment("end", nbr, 0, i, 6)
            ELSE Segment("routes", nbr, n, i, IF build.sensors THEN 95 ELSE 102)}

\* snprintf returns the length of the row, also when buf has no room for it.
SensorsFrom(k) ==
  IF k < sensor_count THEN {Segment("sens", nbr, r, k, l + 1) : l \in RowLengths}
                      ELSE {Segment("bottom", nbr, r, k, 6)}

Goes(pos) == {Segment(pos, nbr, r, i, blen)}

\* The page of the embedded router.
AfterEmbedded(pos) ==
  CASE pos = "top" -> NeighboursFrom(IF NbrCount = 0 THEN 0 ELSE 1)
    [] pos = "nbrs" -> NeighboursFrom(NextNbr(nbr))
    [] pos = "mid" -> RoutesFrom(IF RouteCount = 0 THEN 0 ELSE 1)
    [] pos = "routes" -> RoutesFrom(NextRoute(r))
    [] pos = "end" -> Goes("bottom")
    [] pos = "bottom" -> Goes("ended")

\* The page of the native router goes on with its sensors, and adds their
\* heading behind whatever blen says: it is not set to 0 after "end".
AfterNative(pos) ==
  CASE pos = "end" -> IF sensor_count > 0 THEN {Segment("shead", nbr, r, i, blen + 18)}
                      ELSE Goes("bottom")
    [] pos = "shead" -> SensorsFrom(0)
    [] pos = "sens" -> SensorsFrom(i + 1)
    [] pos \notin {"end", "shead", "sens"} -> AfterEmbedded(pos)

After(pos) == IF build.sensors THEN AfterNative(pos) ELSE AfterEmbedded(pos)

(***************************************************************************)
(* httpd_appcall.                                                          *)
(***************************************************************************)
Live(c) == tcp[c] \in {"open", "sent", "fin"}

\* The slots whose page waits.
Waiting == {appstate[c] : c \in {c \in Conns : tcp[c] = "sent"}}

Shared(c) == \E d \in Conns \ {c} : Live(d) /\ appstate[d] = appstate[c]

\* memb_free, which does nothing to a block that is free.  What is in a block
\* nobody is marked with any more does not matter.
Release(c) ==
  LET s == appstate[c] IN
  /\ used' = used \ {s}
  /\ orphans' = orphans \ {s}
  /\ strayed' = (strayed \/ Shared(c))
  /\ IF Shared(c) THEN UNCHANGED <<at, expired, lone, listed>>
     ELSE /\ at' = [at EXCEPT ![s] = "reading"]
          /\ expired' = [expired EXCEPT ![s] = FALSE]
          /\ lone' = [lone EXCEPT ![s] = FALSE]
          /\ listed' = [listed EXCEPT ![s] = << >>]

\* What uIP knows of the connection is forgotten with it.
Gone(c) ==
  /\ tcp' = [tcp EXCEPT ![c] = "closed"]
  /\ appstate' = [appstate EXCEPT ![c] = NoSlot]

\* The page begins: s->script, and the headers.
BeginPage(c) ==
  LET s == appstate[c] IN
  /\ at' = [at EXCEPT ![s] = "top"]
  /\ tcp' = [tcp EXCEPT ![c] = "sent"]
  /\ lone' = [q \in Slots |-> IF q = s THEN Waiting \subseteq {s} ELSE FALSE]
  /\ listed' = [q \in Slots |-> << >>]

\* A block for the connection, or a reset.
Connected(c) ==
  /\ tcp[c] = "closed"
  /\ IF used = Slots
     THEN UNCHANGED <<tcp, appstate, used, at, expired>>
     ELSE LET s == CHOOSE s \in Slots \ used : \A q \in Slots \ used : s <= q IN
          /\ appstate' = [appstate EXCEPT ![c] = s]
          /\ tcp' = [tcp EXCEPT ![c] = "open"]
          /\ used' = used \cup {s}
          /\ at' = [at EXCEPT ![s] = "reading"]
          /\ expired' = [expired EXCEPT ![s] = FALSE]
  /\ UNCHANGED <<build, statics, sensor_count, histories>>

Restarted(c) == expired' = [expired EXCEPT ![appstate[c]] = FALSE]

\* handle_input has read "GET /".
ReadsRequest(c) ==
  /\ tcp[c] = "open" /\ at[appstate[c]] = "reading"
  /\ BeginPage(c) /\ Restarted(c)
  /\ UNCHANGED <<build, appstate, used, statics, sensor_count, strayed, orphans, overlong>>

\* Anything else: PSOCK_CLOSE_EXIT.
ReadsOther(c) ==
  /\ tcp[c] = "open" /\ at[appstate[c]] = "reading"
  /\ tcp' = [tcp EXCEPT ![c] = "fin"]
  /\ Restarted(c)
  /\ UNCHANGED <<build, appstate, used, at, statics, sensor_count, histories>>

\* Part of a request, or the lines that follow it.
ReadsMore(c) ==
  /\ tcp[c] = "open" /\ at[appstate[c]] # "ended"
  /\ Restarted(c)
  /\ UNCHANGED <<build, tcp, appstate, used, at, statics, sensor_count, histories>>

\* The heading of the sensors would be added behind the end of buf.
Spills(s) ==
  build.sensors /\ sensor_count > 0 /\ at[s] = "end" /\ blen >= build.bufSize

\* handle_output goes on when what it has sent is acknowledged.  What a page
\* does that spills is not followed.
Acked(c) ==
  LET s == appstate[c] IN
  /\ tcp[c] = "sent" /\ at[s] \in Page /\ ~Spills(s)
  /\ \E g \in After(at[s]) :
       /\ at' = [at EXCEPT ![s] = g.at]
       /\ nbr' = g.nbr /\ r' = g.r /\ i' = g.i /\ blen' = g.blen
       /\ tcp' = IF g.at = "ended" THEN [tcp EXCEPT ![c] = "fin"] ELSE tcp
       /\ listed' = IF g.at = "routes" /\ lone[s]
                    THEN [listed EXCEPT ![s] = Append(@, g.r)] ELSE listed
       /\ overlong' = (overlong \/ (g.at = "sens" /\ g.blen >= build.bufSize))
  /\ Restarted(c)
  /\ UNCHANGED <<build, appstate, used, sensor_count, strayed, orphans, lone>>

\* Only with a slot that two connections share: the page has ended for one
\* and begins again for the other, or there is nothing to send yet.
AckedShared(c) ==
  /\ tcp[c] = "sent" /\ at[appstate[c]] = "reading"
  /\ tcp' = [tcp EXCEPT ![c] = "open"]
  /\ Restarted(c)
  /\ UNCHANGED <<build, appstate, used, at, statics, sensor_count, histories>>

PageAgain(c) ==
  /\ tcp[c] \in {"open", "sent"} /\ at[appstate[c]] = "ended"
  /\ BeginPage(c) /\ Restarted(c)
  /\ UNCHANGED <<build, appstate, used, statics, sensor_count, strayed, orphans, overlong>>

\* A timer that expires while data is outstanding is set again before it is
\* looked at.
TimerExpires(s) ==
  /\ ~expired[s] /\ \E c \in Conns : tcp[c] = "open" /\ appstate[c] = s
  /\ expired' = [expired EXCEPT ![s] = TRUE]
  /\ UNCHANGED <<build, tcp, appstate, used, at, statics, sensor_count, histories>>

\* Mutant: the reset leaves the block allocated.
PollTimeoutKeeps(c) ==
  /\ tcp[c] = "open" /\ expired[appstate[c]] /\ at[appstate[c]] = "reading"
  /\ Gone(c)
  /\ UNCHANGED <<build, used, at, expired, statics, sensor_count, histories>>

\* uip_poll of a connection that has been silent for 10 s: uip_abort.
\* handle_connection, which runs all the same, has nothing to read; it begins
\* a page that has ended anew (PageAgain), which matters only to another
\* connection with the same slot.
PollTimeout(c) ==
  /\ tcp[c] = "open" /\ expired[appstate[c]]
  /\ at[appstate[c]] = "reading" \/ (at[appstate[c]] = "ended" /\ ~Shared(c))
  /\ Gone(c) /\ Release(c)
  /\ UNCHANGED <<build, statics, sensor_count, overlong>>

\* The other connection goes on with the page that was begun.  Were its page
\* waiting, handle_connection would call s->script, just set to NULL: that is
\* not followed.
PollTimeoutShared(c) ==
  LET s == appstate[c] IN
  /\ tcp[c] = "open" /\ expired[s] /\ at[s] = "ended" /\ Shared(c)
  /\ Gone(c)
  /\ used' = used \ {s} /\ orphans' = orphans \ {s} /\ strayed' = TRUE
  /\ at' = [at EXCEPT ![s] = "top"] /\ lone' = [lone EXCEPT ![s] = FALSE]
  /\ UNCHANGED <<build, expired, listed, statics, sensor_count, overlong>>

(***************************************************************************)
(* uip_closed, uip_aborted and uip_timedout: the block is released.        *)
(***************************************************************************)

\* The client's FIN, which uIP takes only when nothing is outstanding.
ClientCloses(c) ==
  /\ tcp[c] \in {"open", "fin"}
  /\ tcp' = [tcp EXCEPT ![c] = "over"]
  /\ Release(c)
  /\ UNCHANGED <<build, appstate, statics, sensor_count, overlong>>

\* A reset or too many retransmissions; or, of a connection that is over, the
\* acknowledgment of uIP's own FIN in LAST_ACK, which is a second notice.
Noticed(c) ==
  /\ tcp[c] # "closed"
  /\ Gone(c) /\ Release(c)
  /\ UNCHANGED <<build, statics, sensor_count, overlong>>

\* FIN_WAIT_2 and TIME_WAIT end without a notice.
Forgotten(c) ==
  /\ tcp[c] \in {"fin", "over"}
  /\ Gone(c)
  /\ orphans' = IF tcp[c] = "fin" THEN orphans \cup (used \cap {appstate[c]}) ELSE orphans
  /\ UNCHANGED <<build, used, at, expired, statics, sensor_count, strayed, overlong, lone, listed>>

\* border_router_set_sensors
SensorData ==
  /\ build.sensors
  /\ sensor_count' \in 1 .. MaxSensors
  /\ UNCHANGED <<build, tcp, appstate, used, at, expired, statics, histories>>

WebNext ==
  \/ \E c \in Conns :
       \/ Connected(c) \/ ReadsRequest(c) \/ ReadsOther(c) \/ ReadsMore(c)
       \/ Acked(c) \/ AckedShared(c) \/ PageAgain(c)
       \/ PollTimeout(c) \/ PollTimeoutShared(c)
       \/ ClientCloses(c) \/ Noticed(c) \/ Forgotten(c)
  \/ \E s \in Slots : TimerExpires(s)
  \/ SensorData

\* What has been sent is acknowledged at last, or given up.
WebFair == \A c \in Conns : WF_webVars(Acked(c) \/ AckedShared(c) \/ PageAgain(c) \/ Noticed(c))

(***************************************************************************)
(* Properties.                                                             *)
(***************************************************************************)

\* As long as no late notice has released the block of somebody else, a
\* block belongs to one connection, none is lost but with a connection uIP
\* has forgotten, and none is used that is not allocated.
BlocksExclusive ==
  ~strayed =>
    /\ \A c, d \in Conns : c # d /\ Live(c) /\ Live(d) => appstate[c] # appstate[d]
    /\ used = {appstate[c] : c \in {c \in Conns : Live(c)}} \cup orphans

\* As long as no row of sensors as long as buf has been printed, ADD never
\* begins behind the end of buf, where sizeof(buf) - blen is a very large
\* unsigned number: also when blen was left by the other page.
BufInBounds == ~overlong => \A s \in Slots : at[s] = "end" => blen < build.bufSize

\* A page that runs alone lists every route, once and in order, whatever
\* else connects, waits, times out and closes meanwhile.
PageWhole ==
  \A c \in Conns :
    tcp[c] = "sent" /\ at[appstate[c]] = "end" /\ lone[appstate[c]] /\ ~strayed
      => listed[appstate[c]] = [k \in 1 .. RouteCount |-> k]

\* A page ends when from some time on no other one runs beside it.  (Pages
\* that go on beginning set the shared route back and keep it from its end.)
PageEnds ==
  \A c \in Conns : []<>(tcp[c] # "sent" \/ \E d \in Conns \ {c} : tcp[d] = "sent")
=============================================================================
