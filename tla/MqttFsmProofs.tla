--------------------------- MODULE MqttFsmProofs ---------------------------
(***************************************************************************)
(* Proofs about MqttFsm, for every value of its constants.                 *)
(***************************************************************************)
EXTENDS MqttFsm, TLAPS

(***************************************************************************)
(* The kernel's queue.                                                     *)
(***************************************************************************)
Message == [to : {"mqtt"}, ev : Signals \cup {"TIMER"}]

\* Delivering the head of the queue leaves a shorter queue of messages.
LEMMA TailOfQueue ==
  ASSUME NEW q \in Seq(Message), q # << >>
  PROVE  Tail(q) \in Seq(Message) /\ Len(Tail(q)) = Len(q) - 1
OBVIOUS

\* A post leaves a queue of messages within the capacity.
LEMMA PostToQueue ==
  ASSUME NEW q \in Seq(Message), Len(q) <= NumEvents,
         NEW ev \in Signals \cup {"TIMER"}
  PROVE  /\ process_post(q, "mqtt", ev) \in Seq(Message)
         /\ Len(process_post(q, "mqtt", ev)) <= NumEvents
<1>1. [to |-> "mqtt", ev |-> ev] \in Message
  BY DEF Message
<1>2. Len(q) \in Nat /\ NumEvents \in Nat
  BY PlatformAssumption
<1>3. CASE Accepts(q)
  <2>1. process_post(q, "mqtt", ev) = Append(q, [to |-> "mqtt", ev |-> ev])
    BY <1>3 DEF process_post
  <2>2. Len(q) + 1 <= NumEvents
    BY <1>2, <1>3 DEF Accepts
  <2> QED  BY <1>1, <1>2, <2>1, <2>2
<1>4. CASE ~Accepts(q)
  BY <1>4 DEF process_post
<1> QED  BY <1>3, <1>4

(***************************************************************************)
(* Types.                                                                  *)
(***************************************************************************)
FsmTypes ==
  /\ state \in States
  /\ connect_attempt \in 0 .. AttemptModulus - 1
  /\ etimer \in Intervals
  /\ conn \in ConnStates
  /\ out \in {"none", "queued", "unacked"}
  /\ subscribed \in BOOLEAN
  /\ app_buffer \in [Signals -> Values]
  /\ leds \subseteq Lamps
  /\ ct \in BOOLEAN
  /\ tries \in Nat

\* Every wait before an attempt is one of the intervals of the timer.
LEMMA BackoffType ==
  ASSUME NEW n \in Nat
  PROVE  Backoff(n) \in Intervals
<1>1. CASE n < 3
  BY <1>1 DEF Backoffs, Intervals
<1>2. CASE ~(n < 3)
  <2>1. Backoff(n) = Backoff(3)
    BY <1>2 DEF Backoff
  <2> QED  BY <2>1 DEF Backoffs, Intervals
<1> QED  BY <1>1, <1>2

\* One run of state_machine() keeps the types of what it writes.
LEMMA StepTypes ==
  ASSUME FsmTypes, stable \in BOOLEAN, addr \in BOOLEAN,
         NEW values \in [Signals -> Values], state_machine(values)
  PROVE  FsmTypes'
<1> USE FsmAssumption, PlatformAssumption
<1>1. NET_CONNECT_PERIODIC \in Intervals /\ STATE_MACHINE_PERIODIC \in Intervals
      /\ PUB_INTERVAL \in Intervals
  BY DEF Intervals
<1>2. 0 \in 0 .. AttemptModulus - 1 /\ 1 \in 0 .. AttemptModulus - 1
  OBVIOUS
<1>3. leds_on(leds, LEDS_GREEN) \subseteq Lamps
  BY DEF leds_on, LEDS_GREEN, Lamps, FsmTypes
<1>4. Registered(1) \/ Registered(connect_attempt) => FsmTypes'
  <2> SUFFICES ASSUME NEW attempt \in 0 .. AttemptModulus - 1, Registered(attempt)
               PROVE  FsmTypes'
    BY <1>2 DEF FsmTypes
  <2>1. CASE ConnectToBroker
    BY <1>1, <2>1 DEF FsmTypes, Registered, ConnectToBroker, Tried, mqtt_connect, States,
                      ConnStates
  <2>2. CASE WaitForAddress
    BY <1>1, <1>3, <2>2 DEF FsmTypes, Registered, WaitForAddress, Blip, States
  <2> QED  BY <2>1, <2>2 DEF Registered
<1>5. CASE StepInit
  BY <1>4, <1>5 DEF StepInit
<1>6. CASE StepRegistered
  BY <1>4, <1>6 DEF StepRegistered
<1>7. CASE StepConnecting
  BY <1>1, <1>3, <1>7 DEF StepConnecting, Blip, FsmTypes
<1>8. CASE StepSubscribe
  BY <1>1, <1>2, <1>8 DEF StepSubscribe, RenewAttempts, subscribe, Request, FsmTypes, States,
                          mqtt_ready
<1>9. CASE StepPublish(values)
  BY <1>1, <1>2, <1>3, <1>9 DEF StepPublish, RenewAttempts, publish, Request, Blip, FsmTypes
<1>10. CASE StepInFlight
  BY <1>1, <1>2, <1>10 DEF StepInFlight, RenewAttempts, FsmTypes
<1>11. CASE StepBackoff
  <2>1. connect_attempt' \in 0 .. AttemptModulus - 1
    BY <1>11 DEF StepBackoff, FsmTypes
  <2>2. etimer' \in Intervals
    BY <1>11, <2>1, BackoffType DEF StepBackoff
  <2> QED  BY <1>11, <2>1, <2>2 DEF StepBackoff, FsmTypes, mqtt_disconnect, ConnStates, States
<1>12. CASE StepGiveUp
  BY <1>1, <1>12 DEF StepGiveUp, FsmTypes, States
<1>13. CASE StepConfigError
  BY <1>13 DEF StepConfigError, fsmVars, FsmTypes
<1>14. CASE StepError
  BY <1>3, <1>14 DEF StepError, FsmTypes
<1> QED
  BY <1>5, <1>6, <1>7, <1>8, <1>9, <1>10, <1>11, <1>12, <1>13, <1>14 DEF state_machine

\* The types hold when the mote has booted.
LEMMA InitTypes == Init => TypeOK
<1> SUFFICES ASSUME Init PROVE TypeOK
  OBVIOUS
<1> USE FsmAssumption, PlatformAssumption
<1>1. state \in States
  BY DEF Init, update_config, States
<1>2. etimer \in Intervals
  BY DEF Init, Intervals
<1>3. /\ sample \in [Signals -> Values]
      /\ val \in [Signals -> Values]
      /\ app_buffer \in [Signals -> Values]
  BY DEF Init
<1>4. queue \in Seq(Message) /\ Len(queue) <= NumEvents
  BY DEF Init
<1>5. connect_attempt \in 0 .. AttemptModulus - 1 /\ tries \in Nat
  BY DEF Init
<1>6. conn \in ConnStates /\ leds \subseteq Lamps /\ untold \subseteq Signals
  BY DEF Init, ConnStates
<1> QED  BY <1>1, <1>2, <1>3, <1>4, <1>5, <1>6 DEF Init, TypeOK, Message

\* Every step keeps the types.
LEMMA NextTypes == TypeOK /\ [Next]_vars => TypeOK'
<1> SUFFICES ASSUME TypeOK, [Next]_vars PROVE TypeOK'
  OBVIOUS
<1> USE FsmAssumption, PlatformAssumption
<1>0. FsmTypes /\ queue \in Seq(Message) /\ Len(queue) <= NumEvents
  BY DEF TypeOK, FsmTypes, Message
<1>1. CASE HandlePoll
  <2>1. FsmTypes'
    BY <1>0, <1>1, StepTypes DEF HandlePoll, TypeOK
  <2> QED  BY <1>1, <2>1 DEF HandlePoll, TypeOK, FsmTypes
<1>2. CASE HandleTimer
  <2>1. FsmTypes'
    BY <1>0, <1>2, StepTypes DEF HandleTimer, TypeOK
  <2>2. (queue \in Seq(Message) /\ Len(queue) <= NumEvents)'
    BY <1>0, <1>2, TailOfQueue DEF HandleTimer, Delivers
  <2> QED  BY <1>2, <2>1, <2>2 DEF HandleTimer, TypeOK, FsmTypes, Message
<1>3. ASSUME NEW s \in Signals, HandleSignal(s)
      PROVE  TypeOK'
  <2>1. val' \in [Signals -> Values]
    BY <1>3 DEF HandleSignal, TypeOK
  <2>2. FsmTypes'
    BY <1>0, <1>3, <2>1, StepTypes DEF HandleSignal, TypeOK
  <2>3. (queue \in Seq(Message) /\ Len(queue) <= NumEvents)'
    BY <1>0, <1>3, TailOfQueue DEF HandleSignal, Delivers
  <2> QED  BY <1>3, <2>1, <2>2, <2>3 DEF HandleSignal, TypeOK, FsmTypes, Message
<1>4. ASSUME NEW s \in Signals, Sample(s)
      PROVE  TypeOK'
  <2>1. (queue \in Seq(Message) /\ Len(queue) <= NumEvents)'
    BY <1>0, <1>4, PostToQueue DEF Sample
  <2>2. sample' \in [Signals -> Values] /\ untold' \subseteq Signals
    BY <1>4 DEF Sample, TypeOK
  <2> QED  BY <1>4, <2>1, <2>2 DEF Sample, TypeOK, fsmVars, Message
<1>5. CASE TimerExpires
  <2>1. (queue \in Seq(Message) /\ Len(queue) <= NumEvents)'
    BY <1>0, <1>5, PostToQueue DEF TimerExpires
  <2> QED  BY <1>5, <2>1 DEF TimerExpires, TypeOK, Intervals, Message
<1>6. CASE publish_led_off
  BY <1>6 DEF publish_led_off, TypeOK, leds_off
<1>7. CASE ConnectionStable
  BY <1>7 DEF ConnectionStable, TypeOK, fsmVars
<1>8. CASE AddressChanges
  BY <1>8 DEF AddressChanges, TypeOK, fsmVars
<1>9. CASE BrokerAccepts
  BY <1>9 DEF BrokerAccepts, TypeOK, States, ConnStates
<1>10. CASE BrokerRefuses
  BY <1>10 DEF BrokerRefuses, TypeOK, ConnStates
<1>11. CASE ConnectionLost
  BY <1>11 DEF ConnectionLost, TypeOK, States, ConnStates
<1>12. CASE BrokerPublishes
  <2>1. leds' \subseteq Lamps
    BY <1>12 DEF BrokerPublishes, pub_handler, leds_on, leds_off, LEDS_RED, Lamps, TypeOK
  <2> QED  BY <1>12, <2>1 DEF BrokerPublishes, TypeOK
<1>13. CASE PacketSent
  BY <1>13 DEF PacketSent, TypeOK
<1>14. CASE Ping
  BY <1>14 DEF Ping, TypeOK
<1>15. CASE PacketAcked
  BY <1>15 DEF PacketAcked, TypeOK
<1>16. CASE UNCHANGED vars
  BY <1>16 DEF vars, fsmVars, TypeOK
<1> QED
  BY <1>1, <1>2, <1>3, <1>4, <1>5, <1>6, <1>7, <1>8, <1>9, <1>10, <1>11, <1>12, <1>13, <1>14,
     <1>15, <1>16 DEF Next, Process, Dispatch, Mote, Engine

\* Every variable of the process keeps its type: connect_attempt stays in its
\* byte however often the node reconnects, the timer runs for one of the
\* intervals of add-on.h, the queue holds at most its capacity.
THEOREM TypeCorrect == Spec => []TypeOK
<1>1. Init => TypeOK
  BY InitTypes
<1>2. TypeOK /\ [Next]_vars => TypeOK'
  BY NextTypes
<1> QED  BY <1>1, <1>2, PTL DEF Spec

(***************************************************************************)
(* The FSM and the connection.                                             *)
(***************************************************************************)

\* The FSM's view of the connection and its subscription are inductive: the
\* callbacks write state and conn together, and of the cases only the one
\* that calls mqtt_connect changes conn.
ConnectionInv == FsmMatchesConnection /\ SubscribedWhilePublishing

\* One run of state_machine() keeps them.
LEMMA StepConnectionInv ==
  ASSUME ConnectionInv, NEW values, state_machine(values)
  PROVE  ConnectionInv'
<1> USE DEF ConnectionInv, FsmMatchesConnection, SubscribedWhilePublishing
<1>1. CASE StepInit
  BY <1>1 DEF StepInit, Registered, ConnectToBroker, WaitForAddress, mqtt_connect
<1>2. CASE StepRegistered
  BY <1>2 DEF StepRegistered, Registered, ConnectToBroker, WaitForAddress, mqtt_connect
<1>3. CASE StepConnecting
  BY <1>3 DEF StepConnecting
<1>4. CASE StepSubscribe
  BY <1>4 DEF StepSubscribe, subscribe
<1>5. CASE StepPublish(values)
  BY <1>5 DEF StepPublish
<1>6. CASE StepInFlight
  BY <1>6 DEF StepInFlight
<1>7. CASE StepBackoff
  BY <1>7 DEF StepBackoff, mqtt_disconnect
<1>8. CASE StepGiveUp
  BY <1>8 DEF StepGiveUp
<1>9. CASE StepConfigError \/ StepError
  BY <1>9 DEF StepConfigError, StepError, fsmVars
<1> QED
  BY <1>1, <1>2, <1>3, <1>4, <1>5, <1>6, <1>7, <1>8, <1>9 DEF state_machine

\* Every step keeps them.
LEMMA NextConnectionInv == ConnectionInv /\ [Next]_vars => ConnectionInv'
<1> SUFFICES ASSUME ConnectionInv, [Next]_vars PROVE ConnectionInv'
  OBVIOUS
<1>1. CASE Process
  BY <1>1, StepConnectionInv DEF Process, Dispatch, HandlePoll, HandleTimer, HandleSignal
<1> USE DEF ConnectionInv, FsmMatchesConnection, SubscribedWhilePublishing
<1>2. CASE Mote
  BY <1>2 DEF Mote, Sample, TimerExpires, publish_led_off, ConnectionStable, AddressChanges,
              fsmVars
<1>3. CASE BrokerAccepts
  BY <1>3 DEF BrokerAccepts
<1>4. CASE BrokerRefuses
  BY <1>4 DEF BrokerRefuses
<1>5. CASE ConnectionLost
  BY <1>5 DEF ConnectionLost
<1>6. CASE BrokerPublishes \/ PacketSent \/ Ping \/ PacketAcked
  BY <1>6 DEF BrokerPublishes, PacketSent, Ping, PacketAcked
<1>7. CASE UNCHANGED vars
  BY <1>7 DEF vars, fsmVars
<1> QED  BY <1>1, <1>2, <1>3, <1>4, <1>5, <1>6, <1>7 DEF Next, Engine

LEMMA ConnectionInvHolds == Spec => []ConnectionInv
<1>1. Init => ConnectionInv
  BY DEF Init, update_config, ConnectionInv, FsmMatchesConnection, SubscribedWhilePublishing
<1> QED  BY <1>1, NextConnectionInv, PTL DEF Spec

\* The FSM of the mote and the MQTT engine always agree on whether there is a
\* connection, whatever order events, polls and callbacks come in.
THEOREM Agreement == Spec => []FsmMatchesConnection
<1>1. ConnectionInv => FsmMatchesConnection
  BY DEF ConnectionInv
<1> QED  BY <1>1, ConnectionInvHolds, PTL

\* No connection publishes without a subscription of its own, although
\* subscribe() is called in one place and nobody looks at its result.
THEOREM Subscribed == Spec => []SubscribedWhilePublishing
<1>1. ConnectionInv => SubscribedWhilePublishing
  BY DEF ConnectionInv
<1> QED  BY <1>1, ConnectionInvHolds, PTL

(***************************************************************************)
(* The FSM always has something to wake it.                                *)
(***************************************************************************)

\* A wait before an attempt is a wait.
LEMMA BackoffRuns ==
  ASSUME NEW n \in Nat
  PROVE  Backoff(n) # Off
<1>1. CASE n < 3
  <2>1. n \in {0, 1, 2}
    BY <1>1
  <2> QED  BY <2>1 DEF Backoff, Off, RECONNECT_INTERVAL
<1>2. CASE ~(n < 3)
  BY <1>2 DEF Backoff, Off, RECONNECT_INTERVAL
<1> QED  BY <1>1, <1>2

\* One run of state_machine() sets the timer, or the FSM has given up.
LEMMA StepSetsTimer ==
  ASSUME TypeOK, TypeOK', NEW values, state_machine(values)
  PROVE  etimer' # Off \/ state' \in {"ERROR", "CONFIG_ERROR"}
<1>1. CASE StepBackoff
  <2>1. connect_attempt' \in Nat
    BY FsmAssumption DEF TypeOK
  <2> QED  BY <1>1, <2>1, BackoffRuns DEF StepBackoff
<1>2. CASE StepConfigError \/ StepError
  BY <1>2 DEF StepConfigError, StepError, fsmVars
<1> QED
  BY <1>1, <1>2 DEF state_machine, StepInit, StepRegistered, Registered, StepConnecting,
     StepSubscribe, StepPublish, StepInFlight, StepGiveUp, NET_CONNECT_PERIODIC,
     STATE_MACHINE_PERIODIC, PUB_INTERVAL, Off

\* An event that waits still waits after a post.
LEMMA WaitingAfterPost ==
  ASSUME NEW q \in Seq(Message), NEW ev, NEW other, Waiting(q, "mqtt", ev)
  PROVE  Waiting(process_post(q, "mqtt", other), "mqtt", ev)
<1>1. PICK i \in DOMAIN q : q[i] = [to |-> "mqtt", ev |-> ev]
  BY DEF Waiting
<1>2. CASE Accepts(q)
  <2> DEFINE r == Append(q, [to |-> "mqtt", ev |-> other])
  <2>1. i \in DOMAIN r /\ r[i] = q[i]
    BY <1>1
  <2>2. process_post(q, "mqtt", other) = r
    BY <1>2 DEF process_post
  <2> QED  BY <1>1, <2>1, <2>2 DEF Waiting
<1>3. CASE ~Accepts(q)
  BY <1>3 DEF process_post
<1> QED  BY <1>2, <1>3

\* An event just posted to a queue that accepts it waits.
LEMMA WaitingOncePosted ==
  ASSUME NEW q \in Seq(Message), NEW ev, Accepts(q)
  PROVE  Waiting(process_post(q, "mqtt", ev), "mqtt", ev)
<1> DEFINE r == Append(q, [to |-> "mqtt", ev |-> ev])
<1>1. Len(q) + 1 \in DOMAIN r /\ r[Len(q) + 1] = [to |-> "mqtt", ev |-> ev]
  OBVIOUS
<1> QED  BY <1>1 DEF process_post, Waiting

\* An event that waits behind another still waits once that is delivered.
LEMMA WaitingAfterDelivery ==
  ASSUME NEW q \in Seq(Message), NEW ev, NEW other, ev # other,
         Waiting(q, "mqtt", ev), Delivers(q, "mqtt", other)
  PROVE  Waiting(Tail(q), "mqtt", ev)
<1>1. PICK i \in DOMAIN q : q[i] = [to |-> "mqtt", ev |-> ev]
  BY DEF Waiting
<1>2. q # << >> /\ q[1] = [to |-> "mqtt", ev |-> other]
  BY DEF Delivers
<1>3. i # 1
  BY <1>1, <1>2
<1>4. i - 1 \in DOMAIN Tail(q) /\ Tail(q)[i - 1] = q[i]
  BY <1>1, <1>2, <1>3
<1> QED  BY <1>1, <1>4 DEF Waiting

\* Every step keeps a wake-up pending.
LEMMA NextWakeup ==
  TypeOK /\ TypeOK' /\ ConnectionInv /\ WakeupPending /\ [Next]_vars => WakeupPending'
<1> SUFFICES ASSUME TypeOK, TypeOK', ConnectionInv, WakeupPending, [Next]_vars
             PROVE  WakeupPending'
  OBVIOUS
<1>0. queue \in Seq(Message)
  BY DEF TypeOK, Message
<1>1. CASE Process
  BY <1>1, StepSetsTimer
     DEF Process, Dispatch, HandlePoll, HandleTimer, HandleSignal, WakeupPending
<1>2. ASSUME NEW s \in Signals, Sample(s)
      PROVE  WakeupPending'
  BY <1>0, <1>2, WaitingAfterPost DEF Sample, fsmVars, WakeupPending
<1>3. CASE TimerExpires
  BY <1>0, <1>3, WaitingOncePosted DEF TimerExpires, WakeupPending
<1> USE DEF WakeupPending, Waiting
<1>4. CASE publish_led_off \/ ConnectionStable \/ AddressChanges
  BY <1>4 DEF publish_led_off, ConnectionStable, AddressChanges, fsmVars
<1>5. CASE BrokerAccepts
  BY <1>5 DEF BrokerAccepts, ConnectionInv, FsmMatchesConnection
<1>6. CASE ConnectionLost
  BY <1>6 DEF ConnectionLost
<1>7. CASE BrokerRefuses \/ BrokerPublishes \/ PacketSent \/ Ping \/ PacketAcked
  BY <1>7 DEF BrokerRefuses, BrokerPublishes, PacketSent, Ping, PacketAcked
<1>8. CASE UNCHANGED vars
  BY <1>8 DEF vars, fsmVars
<1> QED
  BY <1>1, <1>2, <1>3, <1>4, <1>5, <1>6, <1>7, <1>8 DEF Next, Mote, Engine

\* Until it has given up the FSM never waits for nothing: its timer runs, or
\* an event of that timer or a poll is on its way, whatever happens between.
THEOREM NeverAsleep == Spec => []WakeupPending
<1>1. Init => WakeupPending
  BY DEF Init, update_config, WakeupPending, ASAP, Off
<1> QED  BY <1>1, NextWakeup, TypeCorrect, ConnectionInvHolds, PTL DEF Spec

(***************************************************************************)
(* The attempts to connect.                                                *)
(***************************************************************************)

\* What relates connect_attempt, the FSM and the calls of mqtt_connect: the
\* counter is one ahead while the next attempt is still to be made.
AttemptInv ==
  IF RetryForever THEN state # "ERROR" /\ tries = 0
  ELSE /\ connect_attempt <= ReconnectAttempts
       /\ state = "INIT" => tries = 0
       /\ state = "CONFIG_ERROR" => tries = 0
       /\ state = "REGISTERED" => connect_attempt = tries + 1
       /\ state \in {"CONNECTING", "CONNECTED", "PUBLISHING", "DISCONNECTED"}
            => connect_attempt = tries
       /\ state = "ERROR" => tries = ReconnectAttempts

\* One run of state_machine() keeps it.
LEMMA StepAttemptInv ==
  ASSUME TypeOK, AttemptInv, NEW values, state_machine(values)
  PROVE  AttemptInv'
<1> USE FsmAssumption DEF AttemptInv, RetryForever, RETRY_FOREVER
<1>0. connect_attempt \in Nat /\ tries \in Nat /\ state \in States
  BY DEF TypeOK
<1>1. CASE StepInit
  BY <1>0, <1>1 DEF StepInit, Registered, ConnectToBroker, WaitForAddress, Tried
<1>2. CASE StepRegistered
  BY <1>0, <1>2 DEF StepRegistered, Registered, ConnectToBroker, WaitForAddress, Tried
<1>3. CASE StepConnecting
  BY <1>0, <1>3 DEF StepConnecting
<1>4. CASE StepSubscribe
  BY <1>0, <1>4 DEF StepSubscribe, RenewAttempts
<1>5. CASE StepPublish(values)
  BY <1>0, <1>5 DEF StepPublish, RenewAttempts
<1>6. CASE StepInFlight
  BY <1>0, <1>6 DEF StepInFlight, RenewAttempts
<1>7. CASE StepBackoff
  <2>1. CASE RetryForever
    BY <1>7, <2>1 DEF StepBackoff
  <2>2. CASE ~RetryForever
    <3>1. connect_attempt < ReconnectAttempts
      BY <1>7, <2>2 DEF StepBackoff, AttemptsLeft
    <3>2. connect_attempt' = connect_attempt + 1
      BY <1>0, <1>7, <2>2, <3>1 DEF StepBackoff
    <3> QED  BY <1>0, <1>7, <2>2, <3>1, <3>2 DEF StepBackoff
  <2> QED  BY <2>1, <2>2
<1>8. CASE StepGiveUp
  BY <1>0, <1>8 DEF StepGiveUp, AttemptsLeft
<1>9. CASE StepConfigError \/ StepError
  BY <1>0, <1>9 DEF StepConfigError, StepError, fsmVars
<1> QED
  BY <1>1, <1>2, <1>3, <1>4, <1>5, <1>6, <1>7, <1>8, <1>9 DEF state_machine

\* Every step keeps it.
LEMMA NextAttemptInv == TypeOK /\ ConnectionInv /\ AttemptInv /\ [Next]_vars => AttemptInv'
<1> SUFFICES ASSUME TypeOK, ConnectionInv, AttemptInv, [Next]_vars PROVE AttemptInv'
  OBVIOUS
<1>0. state \in States
  BY DEF TypeOK
<1>1. CASE Process
  BY <1>1, StepAttemptInv DEF Process, Dispatch, HandlePoll, HandleTimer, HandleSignal
<1> USE DEF AttemptInv, RetryForever, RETRY_FOREVER
<1>2. CASE Mote
  BY <1>2 DEF Mote, Sample, TimerExpires, publish_led_off, ConnectionStable, AddressChanges,
              fsmVars
<1>3. CASE BrokerAccepts
  BY <1>0, <1>3 DEF BrokerAccepts, ConnectionInv, FsmMatchesConnection, States
<1>4. CASE BrokerRefuses
  BY <1>4 DEF BrokerRefuses
<1>5. CASE ConnectionLost
  BY <1>0, <1>5 DEF ConnectionLost, ConnectionInv, FsmMatchesConnection, States
<1>6. CASE BrokerPublishes \/ PacketSent \/ Ping \/ PacketAcked
  BY <1>6 DEF BrokerPublishes, PacketSent, Ping, PacketAcked
<1>7. CASE UNCHANGED vars
  BY <1>7 DEF vars, fsmVars
<1> QED  BY <1>1, <1>2, <1>3, <1>4, <1>5, <1>6, <1>7 DEF Next, Engine

LEMMA AttemptInvHolds == Spec => []AttemptInv
<1>1. Init => AttemptInv
  BY FsmAssumption DEF Init, update_config, AttemptInv, RetryForever, RETRY_FOREVER
<1> QED  BY <1>1, NextAttemptInv, TypeCorrect, ConnectionInvHolds, PTL DEF Spec

\* A limited node calls mqtt_connect RECONNECT_ATTEMPTS times, at boot and
\* after it has seen a stable connection, before it gives up, and never more;
\* one that retries for ever never gives up, also when connect_attempt wraps.
THEOREM Budget == Spec => []AttemptBudget
<1>1. Spec => []AttemptInv
  BY AttemptInvHolds
<1>2. TypeOK /\ AttemptInv => AttemptBudget
  BY FsmAssumption DEF TypeOK, States, AttemptInv, AttemptBudget, RetryForever, RETRY_FOREVER
<1> QED  BY <1>1, <1>2, TypeCorrect, PTL

(***************************************************************************)
(* The samples, the lamp and the payload.                                  *)
(***************************************************************************)

\* Every step keeps the samples known.
LEMMA NextSamples == TypeOK /\ LastSampleKnown /\ [Next]_vars => LastSampleKnown'
<1> SUFFICES ASSUME TypeOK, LastSampleKnown, [Next]_vars, NEW t \in Signals
             PROVE  (val[t] = sample[t] \/ Waiting(queue, "mqtt", t) \/ t \in untold)'
  BY DEF LastSampleKnown
<1>0. /\ queue \in Seq(Message)
      /\ val[t] = sample[t] \/ Waiting(queue, "mqtt", t) \/ t \in untold
  BY DEF TypeOK, Message, LastSampleKnown
<1>1. CASE HandlePoll
  BY <1>0, <1>1 DEF HandlePoll
<1>2. CASE HandleTimer
  BY <1>0, <1>2, WaitingAfterDelivery, FsmAssumption DEF HandleTimer
<1>3. ASSUME NEW s \in Signals, HandleSignal(s)
      PROVE  (val[t] = sample[t] \/ Waiting(queue, "mqtt", t) \/ t \in untold)'
  <2>1. CASE s = t
    BY <1>3, <2>1 DEF HandleSignal, TypeOK
  <2>2. CASE s # t
    BY <1>0, <1>3, <2>2, WaitingAfterDelivery DEF HandleSignal, TypeOK
  <2> QED  BY <2>1, <2>2
<1>4. ASSUME NEW s \in Signals, Sample(s)
      PROVE  (val[t] = sample[t] \/ Waiting(queue, "mqtt", t) \/ t \in untold)'
  <2>1. CASE s = t
    BY <1>0, <1>4, <2>1, WaitingOncePosted DEF Sample
  <2>2. CASE s # t
    BY <1>0, <1>4, <2>2, WaitingAfterPost DEF Sample, TypeOK
  <2> QED  BY <2>1, <2>2
<1>5. CASE TimerExpires
  BY <1>0, <1>5, WaitingAfterPost DEF TimerExpires
<1>6. CASE publish_led_off \/ ConnectionStable \/ AddressChanges
  BY <1>0, <1>6 DEF publish_led_off, ConnectionStable, AddressChanges, fsmVars
<1>7. CASE Engine
  BY <1>0, <1>7 DEF Engine, BrokerAccepts, BrokerRefuses, ConnectionLost, BrokerPublishes,
                    PacketSent, Ping, PacketAcked
<1>8. CASE UNCHANGED vars
  BY <1>0, <1>8 DEF vars, fsmVars
<1> QED
  BY <1>1, <1>2, <1>3, <1>4, <1>5, <1>6, <1>7, <1>8 DEF Next, Process, Dispatch, Mote

\* What publish() sends is the last sample of every sensor that has posted one
\* since boot, but for samples whose event is queued or was dropped: no event loop, no pointer read late,
\* leaves an old value behind once the queue is empty.
THEOREM Samples == Spec => []LastSampleKnown
<1>1. Init => LastSampleKnown
  BY DEF Init, LastSampleKnown
<1> QED  BY <1>1, NextSamples, TypeCorrect, PTL DEF Spec

\* Every step keeps the lamp a blip.
LEMMA NextLamp == ConnectionInv /\ LampIsBlip /\ [Next]_vars => LampIsBlip'
<1> SUFFICES ASSUME ConnectionInv, LampIsBlip, [Next]_vars PROVE LampIsBlip'
  OBVIOUS
<1> USE DEF LampIsBlip
<1>1. ASSUME NEW values, state_machine(values)
      PROVE  LampIsBlip'
  BY <1>1 DEF state_machine, StepInit, StepRegistered, Registered, ConnectToBroker,
     WaitForAddress, StepConnecting, StepSubscribe, StepPublish, StepInFlight, StepBackoff,
     StepGiveUp, StepConfigError, StepError, Blip, fsmVars
<1>2. CASE Process
  BY <1>1, <1>2 DEF Process, Dispatch, HandlePoll, HandleTimer, HandleSignal
<1>3. CASE Mote
  BY <1>3 DEF Mote, Sample, TimerExpires, publish_led_off, ConnectionStable, AddressChanges,
              fsmVars, leds_off, LEDS_GREEN
<1>4. CASE BrokerAccepts \/ ConnectionLost
  BY <1>4 DEF BrokerAccepts, ConnectionLost, ConnectionInv, FsmMatchesConnection
<1>5. CASE BrokerPublishes
  BY <1>5 DEF BrokerPublishes, pub_handler, leds_on, leds_off, LEDS_RED
<1>6. CASE BrokerRefuses \/ PacketSent \/ Ping \/ PacketAcked
  BY <1>6 DEF BrokerRefuses, PacketSent, Ping, PacketAcked
<1>7. CASE UNCHANGED vars
  BY <1>7 DEF vars, fsmVars
<1> QED  BY <1>2, <1>3, <1>4, <1>5, <1>6, <1>7 DEF Next, Engine

\* Whenever the FSM has lit the green lamp the timer that puts it out runs,
\* until the FSM has given up and the lamp is to stay lit.
THEOREM Lamp == Spec => []LampIsBlip
<1>1. Init => LampIsBlip
  BY DEF Init, LampIsBlip
<1> QED  BY <1>1, NextLamp, ConnectionInvHolds, PTL DEF Spec

\* publish() never writes app_buffer while the engine still has to read it.
THEOREM Payload == Spec => PayloadIntact
<1>1. ASSUME NEW values, state_machine(values), out = "queued"
      PROVE  app_buffer' = app_buffer
  BY <1>1 DEF state_machine, StepInit, StepRegistered, Registered, ConnectToBroker,
     WaitForAddress, StepConnecting, StepSubscribe, StepPublish, StepInFlight, StepBackoff,
     StepGiveUp, StepConfigError, StepError, fsmVars, mqtt_ready
<1>2. [Next]_vars => [out = "queued" => app_buffer' = app_buffer]_vars
  <2> SUFFICES ASSUME Next, out = "queued"
               PROVE  app_buffer' = app_buffer
    OBVIOUS
  <2>1. CASE Process
    BY <1>1, <2>1 DEF Process, Dispatch, HandlePoll, HandleTimer, HandleSignal
  <2>2. CASE Mote
    BY <2>2 DEF Mote, Sample, TimerExpires, publish_led_off, ConnectionStable, AddressChanges,
                fsmVars
  <2>3. CASE Engine
    BY <2>3 DEF Engine, BrokerAccepts, BrokerRefuses, ConnectionLost, BrokerPublishes,
                PacketSent, Ping, PacketAcked
  <2> QED  BY <2>1, <2>2, <2>3 DEF Next
<1> QED  BY <1>2, PTL DEF Spec, PayloadIntact

(***************************************************************************)
(* The FSM implements BrokerLink.                                          *)
(***************************************************************************)
Left == ReconnectAttempts - tries
LinkVars == <<LinkState, Left>>

\* A run of state_machine() is a step of the link, or none.
LEMMA StepLink ==
  ASSUME TypeOK, AttemptInv, NEW values, state_machine(values)
  PROVE  Link!Next \/ UNCHANGED LinkVars
<1> USE FsmAssumption DEF RetryForever, RETRY_FOREVER, Left, LinkVars
<1>0. /\ connect_attempt \in Nat /\ tries \in Nat /\ state \in States
      /\ ReconnectAttempts \in Nat /\ ReconnectAttempts > 0
  BY DEF TypeOK
<1>1. ASSUME NEW attempt, Registered(attempt), state \in {"INIT", "REGISTERED"}
      PROVE  Link!Next \/ UNCHANGED LinkVars
  <2>1. CASE ConnectToBroker
    <3>1. LinkState = "idle" /\ LinkState' = "trying"
      BY <1>1, <2>1 DEF LinkState, ConnectToBroker
    <3>2. Left > 0
      BY <1>0, <1>1 DEF AttemptInv
    <3>3. Left' = IF RetryForever THEN Left ELSE Left - 1
      BY <1>0, <2>1 DEF ConnectToBroker, Tried
    <3> QED  BY <3>1, <3>2, <3>3 DEF Link!Next, Link!Attempt
  <2>2. CASE WaitForAddress
    BY <1>1, <2>2 DEF WaitForAddress, LinkState
  <2> QED  BY <1>1, <2>1, <2>2 DEF Registered
<1>2. CASE StepInit \/ StepRegistered
  BY <1>1, <1>2 DEF StepInit, StepRegistered
<1>3. CASE StepConnecting
  BY <1>3 DEF StepConnecting, LinkState
<1>4. ASSUME RenewAttempts PROVE Left' \in {Left, ReconnectAttempts}
  BY <1>0, <1>4 DEF RenewAttempts
<1>5. CASE StepSubscribe
  <2>1. LinkState = "up" /\ LinkState' = "serving"
    BY <1>5 DEF StepSubscribe, LinkState
  <2> QED  BY <1>4, <1>5, <2>1 DEF StepSubscribe, Link!Next, Link!Serve
<1>6. CASE StepPublish(values)
  <2>1. LinkState = "serving" /\ LinkState' = "serving"
    BY <1>6 DEF StepPublish, LinkState
  <2> QED  BY <1>4, <1>6, <2>1 DEF StepPublish, Link!Next, Link!Serve
<1>7. CASE StepInFlight
  <2>1. LinkState \in {"up", "serving"} /\ LinkState' = LinkState
    BY <1>7 DEF StepInFlight, LinkState
  <2> QED  BY <1>4, <1>7, <2>1 DEF StepInFlight, Link!Next, Link!Serve
<1>8. CASE StepBackoff
  BY <1>8 DEF StepBackoff, LinkState
<1>9. CASE StepGiveUp
  <2>1. LinkState = "idle" /\ LinkState' = "failed"
    BY <1>9 DEF StepGiveUp, LinkState
  <2>2. Left = 0 /\ Left' = Left
    BY <1>0, <1>9 DEF StepGiveUp, AttemptsLeft, AttemptInv
  <2> QED  BY <2>1, <2>2 DEF Link!Next, Link!GiveUp
<1>10. CASE StepConfigError \/ StepError
  BY <1>10 DEF StepConfigError, StepError, fsmVars, LinkState
<1> QED
  BY <1>2, <1>3, <1>5, <1>6, <1>7, <1>8, <1>9, <1>10 DEF state_machine

\* Every step is a step of the link, or none.
LEMMA NextLink ==
  TypeOK /\ ConnectionInv /\ AttemptInv /\ [Next]_vars => [Link!Next]_(Link!vars)
<1> SUFFICES ASSUME TypeOK, ConnectionInv, AttemptInv, [Next]_vars
             PROVE  Link!Next \/ UNCHANGED LinkVars
  BY DEF Link!vars, LinkVars, Left
<1>0. state \in States
  BY DEF TypeOK
<1>1. CASE Process
  BY <1>1, StepLink DEF Process, Dispatch, HandlePoll, HandleTimer, HandleSignal
<1>2. CASE Mote
  BY <1>2 DEF Mote, Sample, TimerExpires, publish_led_off, ConnectionStable, AddressChanges,
              fsmVars, LinkVars, Left, LinkState
<1>3. CASE BrokerAccepts
  <2>1. LinkState = "trying" /\ LinkState' = "up"
    BY <1>0, <1>3 DEF BrokerAccepts, ConnectionInv, FsmMatchesConnection, States, LinkState
  <2> QED  BY <1>3, <2>1 DEF BrokerAccepts, Link!Next, Link!Accepted, Left
<1>4. CASE ConnectionLost
  <2>1. LinkState \in {"trying", "up", "serving"} /\ LinkState' = "idle"
    BY <1>0, <1>4 DEF ConnectionLost, ConnectionInv, FsmMatchesConnection, States, LinkState
  <2> QED  BY <1>4, <2>1 DEF ConnectionLost, Link!Next, Link!Lost, Left
<1>5. CASE BrokerRefuses \/ BrokerPublishes \/ PacketSent \/ Ping \/ PacketAcked
  BY <1>5 DEF BrokerRefuses, BrokerPublishes, PacketSent, Ping, PacketAcked, LinkVars, Left,
              LinkState
<1>6. CASE UNCHANGED vars
  BY <1>6 DEF vars, fsmVars, LinkVars, Left, LinkState
<1> QED  BY <1>1, <1>2, <1>3, <1>4, <1>5, <1>6 DEF Next, Engine

\* The state machine of the mote, with its callback and its timers, keeps
\* every promise of BrokerLink, for every number of attempts.
THEOREM Refinement == Spec => ImplementsLink
<1>1. Init => Link!Init
  BY FsmAssumption DEF Init, update_config, Link!Init, LinkState
<1> QED
  BY <1>1, NextLink, TypeCorrect, ConnectionInvHolds, AttemptInvHolds, PTL
     DEF Spec, ImplementsLink, Link!Spec
=============================================================================
