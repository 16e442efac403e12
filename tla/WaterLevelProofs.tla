-------------------------- MODULE WaterLevelProofs --------------------------
(***************************************************************************)
(* Proofs about WaterLevel, for every value of its constants: any          *)
(* thresholds, any width of the counter, any lamps behind LEDS_YELLOW.     *)
(***************************************************************************)
EXTENDS WaterLevel, TLAPS

(***************************************************************************)
(* The kernel's queue.                                                     *)
(***************************************************************************)
Queues == {q \in Seq(Messages) : Len(q) <= NumEvents}

\* What a post makes of a queue is a queue.
LEMMA PostedIsQueue ==
  ASSUME NEW q \in Queues, NEW to, NEW ev, [to |-> to, ev |-> ev] \in Messages,
         NEW r \in Posted(q, to, ev)
  PROVE  r \in Queues
<1>1. Len(q) \in Nat /\ NumEvents \in Nat
  BY PlatformAssumption DEF Queues
<1>2. CASE r = q
  BY <1>2
<1>3. CASE r # q
  <2>1. Accepts(q) /\ r = Append(q, [to |-> to, ev |-> ev])
    BY <1>3 DEF Posted, process_post
  <2> QED  BY <1>1, <2>1 DEF Queues, Accepts
<1> QED  BY <1>2, <1>3

\* So is what a delivery makes of it.
LEMMA TailIsQueue ==
  ASSUME NEW q \in Queues, q # << >>
  PROVE  Tail(q) \in Queues
BY PlatformAssumption DEF Queues

\* The members of Messages the processes post.
LEMMA MessageTypes ==
  /\ [to |-> "all", ev |-> "sensors_event"] \in Messages
  /\ [to |-> "all", ev |-> "press_exceeded"] \in Messages
  /\ [to |-> "buzzer", ev |-> "Y"] \in Messages
  /\ [to |-> "buzzer", ev |-> "R"] \in Messages
  /\ [to |-> "mqtt", ev |-> "sLevel"] \in Messages
BY DEF Messages

(***************************************************************************)
(* Types.                                                                  *)
(***************************************************************************)

\* lvl_process leaves a queue, whatever it posts and wherever it finds room.
LEMMA ReportType ==
  ASSUME NEW q \in Queues, Report(q)
  PROVE  queue' \in Queues
BY PostedIsQueue, MessageTypes DEF Report

LEMMA CommandType ==
  ASSUME NEW q \in Queues, NEW ev \in {"Y", "R"}, Command(q, ev)
  PROVE  queue' \in Queues /\ dropped' \in BOOLEAN
<1>1. PICK r \in Posted(q, "buzzer", ev) : dropped' = (r = q) /\ Report(r)
  BY DEF Command
<1>2. r \in Queues
  BY PostedIsQueue, MessageTypes
<1> QED  BY <1>1, <1>2, ReportType

\* The lamps stay lamps.
LEMMA LampTypes ==
  ASSUME leds \subseteq Lamps, NEW n \in Nat
  PROVE  LampsUp(n) \subseteq Lamps /\ LampsDown(n) \subseteq Lamps
<1> USE PlatformAssumption DEF leds_on, leds_off, LEDS_GREEN, LEDS_RED, Lamps
<1>1. LampsUp(n) \subseteq Lamps
  BY LevelAssumption DEF LampsUp
<1>2. LampsDown(n) \subseteq Lamps
  BY LevelAssumption DEF LampsDown
<1> QED  BY <1>1, <1>2

\* The counter wraps inside its width.
LEMMA CounterType ==
  ASSUME NEW c \in 0 .. LevelModulus - 1
  PROVE  /\ (c + 1) % LevelModulus = IF c = LevelModulus - 1 THEN 0 ELSE c + 1
         /\ (c + LevelModulus - 1) % LevelModulus = IF c = 0 THEN LevelModulus - 1 ELSE c - 1
BY LevelAssumption

LEMMA InitTypes == Init => TypeOK
<1> SUFFICES ASSUME Init PROVE TypeOK
  OBVIOUS
<1>1. queue \in Queues
  <2>1. << >> \in Queues
    BY PlatformAssumption DEF Queues
  <2>2. queue \in Posted(<< >>, "buzzer", "Y")
    BY DEF Init, Posted, process_post
  <2> QED  BY <2>1, <2>2, PostedIsQueue, MessageTypes
<1>2. lvl_counter \in 0 .. LevelModulus - 1
  BY LevelAssumption DEF Init
<1>3. leds \subseteq Lamps
  BY DEF Init
<1> QED  BY <1>1, <1>2, <1>3 DEF Init, TypeOK, Queues

LEMMA NextTypes == TypeOK /\ [Next]_vars => TypeOK'
<1> SUFFICES ASSUME TypeOK, [Next]_vars PROVE TypeOK'
  OBVIOUS
<1> USE LevelAssumption
<1>0. queue \in Queues /\ (queue # << >> => Tail(queue) \in Queues)
  BY TailIsQueue DEF TypeOK, Queues
<1>1. CASE HandlePress
  <2> DEFINE n == (lvl_counter + 1) % LevelModulus
  <2>1. n \in 0 .. LevelModulus - 1
    BY CounterType DEF TypeOK
  <2>2. LampsUp(n) \subseteq Lamps
    BY <2>1, LampTypes DEF TypeOK
  <2>3. Tail(queue) \in Queues
    BY <1>0, <1>1 DEF HandlePress, Delivers
  <2>4. queue' \in Queues /\ dropped' \in BOOLEAN
    BY <1>1, <2>3, CommandType, ReportType DEF HandlePress, LevelUp, TypeOK
  <2> QED  BY <1>1, <2>1, <2>2, <2>4 DEF HandlePress, LevelUp, TypeOK, Queues
<1>2. CASE HandleRelease
  <2>1. queue' \in Queues
    BY <1>0, <1>2, ReportType DEF HandleRelease, Delivers
  <2> QED  BY <1>2, <2>1 DEF HandleRelease, TypeOK, Queues
<1>3. CASE HandleHold
  <2> DEFINE n == (lvl_counter + LevelModulus - 1) % LevelModulus
  <2>1. n \in 0 .. LevelModulus - 1
    BY CounterType DEF TypeOK
  <2>2. LampsDown(n) \subseteq Lamps
    BY <2>1, LampTypes DEF TypeOK
  <2>3. Tail(queue) \in Queues
    BY <1>0, <1>3 DEF HandleHold, Delivers
  <2>4. queue' \in Queues /\ dropped' \in BOOLEAN
    BY <1>3, <2>3, CommandType, ReportType DEF HandleHold, LevelDown, TypeOK
  <2> QED  BY <1>3, <2>1, <2>2, <2>4 DEF HandleHold, LevelDown, TypeOK, Queues
<1>4. CASE HandleCommand
  BY <1>0, <1>4 DEF HandleCommand, Delivers, TypeOK, Queues
<1>5. CASE HandleReport
  BY <1>0, <1>5 DEF HandleReport, Delivers, TypeOK, Queues
<1>6. CASE ButtonMoves
  <2>1. queue' \in Queues
    BY <1>0, <1>6, PostedIsQueue, MessageTypes DEF ButtonMoves
  <2> QED  BY <1>6, <2>1 DEF ButtonMoves, TypeOK, Queues
<1>7. CASE HoldLasts
  <2>1. queue' \in Queues
    BY <1>0, <1>7, PostedIsQueue, MessageTypes DEF HoldLasts
  <2> QED  BY <1>7, <2>1 DEF HoldLasts, TypeOK, Queues
<1>8. CASE UNCHANGED vars
  BY <1>8 DEF vars, TypeOK
<1>9. CASE Others
  <2>1. leds' \subseteq Lamps /\ touched' \subseteq Lamps
    BY <1>9 DEF Others, FsmLights, publish_led_off, pub_handler, Switch, TypeOK,
                leds_on, leds_off, LEDS_GREEN, LEDS_RED, Lamps
  <2>2. ct' \in BOOLEAN
    BY <1>9 DEF Others, FsmLights, publish_led_off, pub_handler, TypeOK
  <2>3. UNCHANGED <<queue, lvl_counter, button, pin, dropped, wrapped>>
    BY <1>9 DEF Others, FsmLights, publish_led_off, pub_handler, Switch
  <2> QED  BY <2>1, <2>2, <2>3 DEF TypeOK
<1> QED  BY <1>1, <1>2, <1>3, <1>4, <1>5, <1>6, <1>7, <1>8, <1>9 DEF Next, Dispatch

\* The variables of both processes keep their types: the counter stays within
\* its width, the queue within its capacity.
THEOREM TypeCorrect == Spec => []TypeOK
<1> QED  BY InitTypes, NextTypes, PTL DEF Spec

(***************************************************************************)
(* The lamps, whoever switches them.                                       *)
(***************************************************************************)
\* What LampsShowLevel says of the lamps l, those of t left out, at level n.
Shows(l, t, n) ==
  \A lamp \in Lamps \ t :
    /\ lamp \in l => lamp \in ZoneLamps(n)
    /\ n >= YELLOW_TRESHOLD /\ lamp \in ZoneLamps(n) => lamp \in l

\* The lamps follow the level one step up: in every zone it comes to it writes
\* all that are not right already ...
LEMMA LampsFollowUp ==
  ASSUME NEW n \in Nat, Shows(leds, touched, n)
  PROVE  Shows(LampsUp(n + 1), touched \ WrittenUp(n + 1), n + 1)
<1>. USE LevelAssumption DEF Shows, ZoneLamps, LampsUp, WrittenUp, leds_on, leds_off,
                             LEDS_GREEN, LEDS_RED
<1>1. CASE n + 1 >= RED_TRESHOLD
  BY <1>1
<1>2. CASE n + 1 \in YELLOW_TRESHOLD .. RED_TRESHOLD - 1
  BY <1>2
<1>3. CASE n + 1 < YELLOW_TRESHOLD
  BY <1>3
<1>. QED
  BY <1>1, <1>2, <1>3

\* ... and one step down.
LEMMA LampsFollowDown ==
  ASSUME NEW n \in Nat, n > 0, Shows(leds, touched, n)
  PROVE  Shows(LampsDown(n - 1), touched \ WrittenDown(n - 1), n - 1)
<1>. USE LevelAssumption DEF Shows, ZoneLamps, LampsDown, WrittenDown, leds_on, leds_off,
                             LEDS_GREEN, LEDS_RED
<1>1. CASE n - 1 >= RED_TRESHOLD
  BY <1>1
<1>2. CASE n - 1 \in YELLOW_TRESHOLD .. RED_TRESHOLD - 1
  BY <1>2
<1>3. CASE n - 1 < YELLOW_TRESHOLD
  BY <1>3
<1>. QED
  BY <1>1, <1>2, <1>3

\* Whoever else switches lamps has touched them.
LEMMA LampsTouched ==
  ASSUME TypeOK, Others, Shows(leds, touched, lvl_counter)
  PROVE  Shows(leds', touched', lvl_counter)
BY DEF Others, FsmLights, publish_led_off, pub_handler, Switch, Shows, leds_on, leds_off

LEMMA NextLamps == TypeOK /\ LampsShowLevel /\ [Next]_vars => LampsShowLevel'
<1> SUFFICES ASSUME TypeOK, ~wrapped => Shows(leds, touched, lvl_counter), [Next]_vars, ~wrapped'
             PROVE  Shows(leds', touched', lvl_counter')
  BY DEF LampsShowLevel, Shows, ZoneLamps
<1> USE LevelAssumption
<1>1. CASE HandlePress
  <2> DEFINE n == (lvl_counter + 1) % LevelModulus
  <2>1. /\ ~wrapped /\ n # 0 /\ lvl_counter' = n
        /\ leds' = LampsUp(n) /\ touched' = touched \ WrittenUp(n)
    BY <1>1 DEF HandlePress, LevelUp
  <2>2. n = lvl_counter + 1 /\ lvl_counter \in Nat
    BY <2>1, CounterType DEF TypeOK
  <2> HIDE DEF n
  <2> QED  BY <2>1, <2>2, LampsFollowUp
<1>2. CASE HandleHold
  <2> DEFINE n == (lvl_counter + LevelModulus - 1) % LevelModulus
  <2>1. /\ ~wrapped /\ lvl_counter # 0 /\ lvl_counter' = n
        /\ leds' = LampsDown(n) /\ touched' = touched \ WrittenDown(n)
    BY <1>2 DEF HandleHold, LevelDown
  <2>2. n = lvl_counter - 1
    BY <2>1, CounterType DEF TypeOK
  <2> HIDE DEF n
  <2>3. lvl_counter \in Nat /\ lvl_counter > 0
    BY <2>1 DEF TypeOK
  <2> QED  BY <2>1, <2>2, <2>3, LampsFollowDown
<1>3. CASE HandleRelease \/ HandleCommand \/ HandleReport
  BY <1>3 DEF HandleRelease, HandleCommand, HandleReport
<1>4. CASE ButtonMoves \/ HoldLasts
  BY <1>4 DEF ButtonMoves, HoldLasts
<1>5. CASE UNCHANGED vars
  BY <1>5 DEF vars
<1>6. CASE Others
  <2>1. PICK lit, mask : Switch(lit, mask)
    BY <1>6, Zenon DEF Others, FsmLights, publish_led_off, pub_handler
  <2>2. wrapped' = wrapped /\ lvl_counter' = lvl_counter
    BY <2>1 DEF Switch
  <2>3. ~wrapped
    BY <2>2, Zenon
  <2>4. Shows(leds, touched, lvl_counter)
    BY <2>3
  <2>5. Shows(leds', touched', lvl_counter)
    BY <1>6, <2>4, LampsTouched
  <2> QED  BY <2>2, <2>5
<1> QED  BY <1>1, <1>2, <1>3, <1>4, <1>5, <1>6 DEF Next, Dispatch

\* Until the counter wraps every lamp tells the zone of the level but for those
\* that the state machine, its ctimer or the cloud have switched since the
\* level last did, for all thresholds and every set of lamps LEDS_YELLOW drives.
THEOREM LampsShow == Spec => []LampsShowLevel
<1>1. Init => LampsShowLevel
  BY LevelAssumption DEF Init, LampsShowLevel, ZoneLamps
<1> QED  BY <1>1, NextLamps, TypeCorrect, PTL DEF Spec

(***************************************************************************)
(* The alarm.                                                              *)
(***************************************************************************)

\* A post that is not for the buzzer leaves the last command what it was.
LEMMA LastAfterPost ==
  ASSUME NEW q \in Queues, NEW to, to # "buzzer", NEW ev, NEW r \in Posted(q, to, ev),
         NEW p, NEW c, LastCommand(q, p, c)
  PROVE  LastCommand(r, p, c)
<1>1. CASE r = q
  BY <1>1
<1>2. CASE r # q
  <2>1. r = Append(q, [to |-> to, ev |-> ev]) /\ q \in Seq(Messages)
    BY <1>2 DEF Posted, process_post, Queues
  <2>2. Len(q) \in Nat /\ DOMAIN q = 1 .. Len(q) /\ DOMAIN r = 1 .. Len(q) + 1
    BY <2>1
  <2>3. r[Len(q) + 1].to # "buzzer" /\ \A i \in DOMAIN q : r[i] = q[i]
    BY <2>1
  <2> QED  BY <2>2, <2>3 DEF LastCommand
<1> QED  BY <1>1, <1>2

\* A command the queue takes is the last one.
LEMMA LastAfterCommand ==
  ASSUME NEW q \in Queues, NEW c, NEW r \in Posted(q, "buzzer", c), r # q, NEW p
  PROVE  LastCommand(r, p, c)
<1>1. r = Append(q, [to |-> "buzzer", ev |-> c]) /\ q \in Seq(Messages)
  BY DEF Posted, process_post, Queues
<1>2. Len(q) \in Nat /\ DOMAIN r = 1 .. Len(q) + 1
  BY <1>1
<1>3. r[Len(q) + 1] = [to |-> "buzzer", ev |-> c]
  BY <1>1
<1> QED  BY <1>2, <1>3 DEF LastCommand

\* Delivering an event that is not for the buzzer leaves it what it was.
LEMMA LastAfterOther ==
  ASSUME NEW q \in Queues, q # << >>, Head(q).to # "buzzer", NEW p, NEW c,
         LastCommand(q, p, c)
  PROVE  LastCommand(Tail(q), p, c)
<1>1. /\ Len(q) \in Nat /\ DOMAIN q = 1 .. Len(q) /\ DOMAIN Tail(q) = 1 .. Len(q) - 1
      /\ q[1].to # "buzzer"
      /\ \A i \in DOMAIN Tail(q) : Tail(q)[i] = q[i + 1]
  BY DEF Queues
<1>2. ASSUME NEW i \in DOMAIN q, q[i] = [to |-> "buzzer", ev |-> c],
             \A j \in DOMAIN q : j > i => q[j].to # "buzzer"
      PROVE  LastCommand(Tail(q), p, c)
  <2>1. i - 1 \in DOMAIN Tail(q) /\ Tail(q)[i - 1] = [to |-> "buzzer", ev |-> c]
    BY <1>1, <1>2
  <2>2. \A j \in DOMAIN Tail(q) : j > i - 1 => Tail(q)[j].to # "buzzer"
    BY <1>1, <1>2
  <2> QED  BY <2>1, <2>2 DEF LastCommand
<1>3. CASE (\A i \in DOMAIN q : q[i].to # "buzzer") /\ p = (IF c = "R" THEN "high" ELSE "low")
  BY <1>1, <1>3 DEF LastCommand
<1> QED  BY <1>2, <1>3 DEF LastCommand

\* So does obeying a command: it was the last, or the last is behind it.
LEMMA LastAfterObeyed ==
  ASSUME NEW q \in Queues, NEW ev, Delivers(q, "buzzer", ev), NEW p, NEW c,
         LastCommand(q, p, c)
  PROVE  LastCommand(Tail(q), IF ev = "R" THEN "high" ELSE "low", c)
<1>1. /\ Len(q) \in Nat /\ DOMAIN q = 1 .. Len(q) /\ DOMAIN Tail(q) = 1 .. Len(q) - 1
      /\ q # << >> /\ q[1] = [to |-> "buzzer", ev |-> ev]
      /\ \A i \in DOMAIN Tail(q) : Tail(q)[i] = q[i + 1]
  BY DEF Queues, Delivers
<1>2. 1 \in DOMAIN q /\ q[1].to = "buzzer"
  BY <1>1
<1>3. PICK i \in DOMAIN q : /\ q[i] = [to |-> "buzzer", ev |-> c]
                            /\ \A j \in DOMAIN q : j > i => q[j].to # "buzzer"
  BY <1>2 DEF LastCommand
<1>4. CASE i = 1
  <2>1. ev = c
    BY <1>1, <1>3, <1>4
  <2>2. \A j \in DOMAIN Tail(q) : Tail(q)[j].to # "buzzer"
    BY <1>1, <1>3, <1>4
  <2> QED  BY <2>1, <2>2 DEF LastCommand
<1>5. CASE i # 1
  <2>1. i - 1 \in DOMAIN Tail(q) /\ Tail(q)[i - 1] = [to |-> "buzzer", ev |-> c]
    BY <1>1, <1>3, <1>5
  <2>2. \A j \in DOMAIN Tail(q) : j > i - 1 => Tail(q)[j].to # "buzzer"
    BY <1>1, <1>3
  <2> QED  BY <2>1, <2>2 DEF LastCommand
<1> QED  BY <1>4, <1>5

\* What AlarmFollowsLevel says of the queue q and the pin p at level n.
Follows(q, p, n) ==
  /\ n >= RED_TRESHOLD => LastCommand(q, p, "R")
  /\ n < YELLOW_TRESHOLD => LastCommand(q, p, "Y")

\* A step of lvl_process that gives no command may neither reach the red
\* threshold from below nor leave the yellow one downwards.
LEMMA FollowsAfterReport ==
  ASSUME NEW q \in Queues, NEW p, NEW n, Follows(q, p, n), Report(q)
  PROVE  Follows(queue', p, n)
BY LastAfterPost DEF Follows, Report

\* A command that is not dropped settles what the alarm is to do.
LEMMA FollowsAfterCommand ==
  ASSUME NEW q \in Queues, NEW p, NEW c \in {"Y", "R"}, Command(q, c), ~dropped',
         NEW n \in Nat,
         n >= RED_TRESHOLD => c = "R", n < YELLOW_TRESHOLD => c = "Y"
  PROVE  Follows(queue', p, n)
<1>1. PICK r \in Posted(q, "buzzer", c) : dropped' = (r = q) /\ Report(r)
  BY DEF Command
<1>2. r \in Queues
  BY PostedIsQueue, MessageTypes
<1>3. LastCommand(r, p, c)
  BY <1>1, LastAfterCommand
<1>4. LastCommand(queue', p, c)
  BY <1>1, <1>2, <1>3, LastAfterPost DEF Report
<1> QED  BY <1>4, LevelAssumption DEF Follows

LEMMA NextAlarm == TypeOK /\ AlarmFollowsLevel /\ [Next]_vars => AlarmFollowsLevel'
<1> SUFFICES ASSUME TypeOK, ~dropped /\ ~wrapped => Follows(queue, pin, lvl_counter),
                    [Next]_vars, ~dropped', ~wrapped'
             PROVE  Follows(queue', pin', lvl_counter')
  BY DEF AlarmFollowsLevel, Commanded, Follows
<1> USE LevelAssumption
<1>0. queue \in Queues /\ (queue # << >> => Tail(queue) \in Queues) /\ lvl_counter \in Nat
  BY TailIsQueue DEF TypeOK, Queues
\* Behind an event of the button the alarm still follows the level.
<1>1. ASSUME NEW ev, Delivers(queue, "all", ev), ~dropped, ~wrapped
      PROVE  Tail(queue) \in Queues /\ Follows(Tail(queue), pin, lvl_counter)
  BY <1>0, <1>1, LastAfterOther DEF Delivers, Follows
<1>2. CASE HandlePress
  <2> DEFINE n == (lvl_counter + 1) % LevelModulus
  <2>1. /\ Delivers(queue, "all", "sensors_event") /\ pin' = pin /\ ~wrapped
        /\ n # 0 /\ lvl_counter' = n
        /\ IF n >= RED_TRESHOLD THEN Command(Tail(queue), "R")
                                ELSE Report(Tail(queue)) /\ UNCHANGED dropped
    BY <1>2 DEF HandlePress, LevelUp
  <2>2. n = lvl_counter + 1
    BY <2>1, CounterType DEF TypeOK
  <2> HIDE DEF n
  <2>3. Tail(queue) \in Queues
    BY <1>0, <2>1 DEF Delivers
  <2>4. CASE n >= RED_TRESHOLD
    BY <1>0, <2>1, <2>2, <2>3, <2>4, FollowsAfterCommand
  <2>5. CASE ~(n >= RED_TRESHOLD)
    <3>1. ~dropped /\ Report(Tail(queue))
      BY <2>1, <2>5
    <3>2. Follows(Tail(queue), pin, n)
      BY <1>0, <1>1, <2>1, <2>2, <2>5, <3>1 DEF Follows
    <3> QED  BY <2>1, <2>3, <3>1, <3>2, FollowsAfterReport
  <2> QED  BY <2>4, <2>5
<1>3. CASE HandleHold
  <2> DEFINE n == (lvl_counter + LevelModulus - 1) % LevelModulus
  <2>1. /\ Delivers(queue, "all", "press_exceeded") /\ pin' = pin /\ ~wrapped
        /\ lvl_counter # 0 /\ lvl_counter' = n
        /\ IF n < YELLOW_TRESHOLD THEN Command(Tail(queue), "Y")
                                  ELSE Report(Tail(queue)) /\ UNCHANGED dropped
    BY <1>3 DEF HandleHold, LevelDown
  <2>2. n = lvl_counter - 1 /\ n \in Nat
    BY <1>0, <2>1, CounterType DEF TypeOK
  <2> HIDE DEF n
  <2>3. Tail(queue) \in Queues
    BY <1>0, <2>1 DEF Delivers
  <2>4. CASE n < YELLOW_TRESHOLD
    BY <2>1, <2>2, <2>3, <2>4, FollowsAfterCommand
  <2>5. CASE ~(n < YELLOW_TRESHOLD)
    <3>1. ~dropped /\ Report(Tail(queue))
      BY <2>1, <2>5
    <3>2. Follows(Tail(queue), pin, n)
      BY <1>0, <1>1, <2>1, <2>2, <2>5, <3>1 DEF Follows
    <3> QED  BY <2>1, <2>3, <3>1, <3>2, FollowsAfterReport
  <2> QED  BY <2>4, <2>5
<1>4. CASE HandleRelease
  <2>1. /\ Delivers(queue, "all", "sensors_event") /\ ~dropped /\ ~wrapped
        /\ Report(Tail(queue)) /\ pin' = pin /\ lvl_counter' = lvl_counter
    BY <1>4 DEF HandleRelease
  <2> QED  BY <1>1, <2>1, FollowsAfterReport
<1>5. CASE HandleCommand
  <2>1. PICK ev \in {"Y", "R"} : /\ Delivers(queue, "buzzer", ev)
                                 /\ queue' = Tail(queue)
                                 /\ pin' = IF ev = "R" THEN "high" ELSE "low"
    BY <1>5 DEF HandleCommand
  <2>2. ~dropped /\ ~wrapped /\ lvl_counter' = lvl_counter
    BY <1>5 DEF HandleCommand
  <2> QED  BY <1>0, <2>1, <2>2, LastAfterObeyed DEF Follows
<1>6. CASE HandleReport
  BY <1>0, <1>6, LastAfterOther DEF HandleReport, Delivers, Follows
<1>7. CASE ButtonMoves
  BY <1>0, <1>7, LastAfterPost DEF ButtonMoves, Follows
<1>8. CASE HoldLasts
  BY <1>0, <1>8, LastAfterPost DEF HoldLasts, Follows
<1>9. CASE Others \/ UNCHANGED vars
  BY <1>9 DEF Others, FsmLights, publish_led_off, pub_handler, Switch, vars
<1> QED  BY <1>2, <1>3, <1>4, <1>5, <1>6, <1>7, <1>8, <1>9 DEF Next, Dispatch

\* From the red threshold on the buzzer is on or will be once the queue is
\* served, below the yellow one it is off or will be, unless the queue was
\* full or the counter has wrapped: for all thresholds and every capacity.
THEOREM Alarm == Spec => []AlarmFollowsLevel
<1>1. Init => AlarmFollowsLevel
  <2> SUFFICES ASSUME Init PROVE AlarmFollowsLevel
    OBVIOUS
  <2>1. queue = << [to |-> "buzzer", ev |-> "Y"] >>
    BY PlatformAssumption DEF Init, process_post, Accepts
  <2>2. Commanded("Y")
    BY <2>1 DEF Commanded, LastCommand
  <2>3. lvl_counter = NORMAL_LEVEL
    BY DEF Init
  <2> QED  BY <2>2, <2>3, LevelAssumption DEF AlarmFollowsLevel
<1> QED  BY <1>1, NextAlarm, TypeCorrect, PTL DEF Spec
=============================================================================
