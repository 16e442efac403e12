------------------------------- MODULE MqttFsm -------------------------------
(***************************************************************************)
(* mqtt_demo_process of the mote (node1/node1.c, node1/add-on.c): the      *)
(* state machine that keeps the node connected to its broker, the event    *)
(* loop that drives it, the callback of the MQTT engine, and the samples   *)
(* of the other processes it collects and publishes.                       *)
(*                                                                         *)
(* One action is one run to completion of a protothread or a callback:     *)
(* Contiki preempts neither.  Time is abstract: a timer that is set may    *)
(* expire at any later moment.  Intervals are in quarters of a second.     *)
(*                                                                         *)
(* The engine of Contiki is modelled by what node1 can see of it: conn.    *)
(* state (conn), the one packet it can hold (out), and its callbacks.      *)
(***************************************************************************)
EXTENDS Platform, Integers

CONSTANTS
  Signals,            \* the sensor events the process collects: sFlow, sTemp, sLevel
  Values,             \* the values a sensor variable takes
  BootSample,         \* what each sensor variable holds at boot (NORMAL_LEVEL for sLevel)
  Unset,              \* ev_signals.val1..3 before an event has set them
  AttemptModulus,     \* connect_attempt counts modulo this (2^8 in the code)
  ReconnectAttempts,  \* RECONNECT_ATTEMPTS
  BufferSize,         \* BUFFER_SIZE, what client_id and the topics must fit
  Lengths,            \* the lengths those three strings may have
  MayRefuse           \* whether the broker may answer CONNECT with a refusal

RETRY_FOREVER == AttemptModulus - 1
RetryForever == ReconnectAttempts = RETRY_FOREVER

ASSUME FsmAssumption ==
  /\ AttemptModulus \in Nat /\ AttemptModulus > 2
  /\ ReconnectAttempts \in 1 .. RETRY_FOREVER
  /\ BootSample \in [Signals -> Values] /\ Unset \in Values
  /\ BufferSize \in Nat /\ Lengths \subseteq Nat
  /\ MayRefuse \in BOOLEAN
  /\ "TIMER" \notin Signals

VARIABLES
  queue,            \* the kernel's events for the process, oldest first
  poll,             \* a poll of the process is requested
  state,            \* the state of the FSM
  connect_attempt,  \* the number of the next or current attempt
  etimer,           \* publish_periodic_timer: the interval it runs for, or Off
  stable,           \* timer connection_life has expired
  conn,             \* conn.state, as far as node1 can tell states apart
  out,              \* the engine's packet: none, queued, or sent and not acknowledged
  subscribed,       \* the broker connection has been asked for a subscription
  addr,             \* the node has a preferred global address
  sample,           \* the sensor variables the posted events point to
  val,              \* ev_signals.val1..3, what publish() sends
  app_buffer,       \* the values in the last payload publish() wrote
  leds,             \* the lamps that are lit
  ct,               \* ctimer ct is running, publish_led_off is due
  untold,           \* the signals not posted yet, or whose last post was dropped (history)
  tries             \* mqtt_connect calls since connect_attempt was reset (history)

fsmVars == <<state, connect_attempt, etimer, conn, out, subscribed, app_buffer,
            leds, ct, tries>>
vars == <<queue, poll, fsmVars, stable, addr, sample, val, untold>>

States == {"INIT", "REGISTERED", "CONNECTING", "CONNECTED", "PUBLISHING",
           "DISCONNECTED", "CONFIG_ERROR", "ERROR"}
ConnStates == {"NOT_CONNECTED", "CONNECTING", "CONNECTED", "DISCONNECTING"}

Off == -1
ASAP == 0
STATE_MACHINE_PERIODIC == 2
NET_CONNECT_PERIODIC == 1
PUB_INTERVAL == 180
RECONNECT_INTERVAL == 8

\* The wait before attempt number n.
Backoff(n) == IF n < 3 THEN RECONNECT_INTERVAL * 2^n ELSE RECONNECT_INTERVAL * 8
Backoffs == {Backoff(n) : n \in 0 .. 3}
Intervals == Backoffs \cup
  {Off, ASAP, STATE_MACHINE_PERIODIC, NET_CONNECT_PERIODIC, PUB_INTERVAL}

TypeOK ==
  /\ queue \in Seq([to : {"mqtt"}, ev : Signals \cup {"TIMER"}])
  /\ Len(queue) <= NumEvents
  /\ state \in States
  /\ connect_attempt \in 0 .. AttemptModulus - 1
  /\ etimer \in Intervals
  /\ conn \in ConnStates
  /\ out \in {"none", "queued", "unacked"}
  /\ poll \in BOOLEAN /\ stable \in BOOLEAN /\ subscribed \in BOOLEAN
  /\ addr \in BOOLEAN /\ ct \in BOOLEAN
  /\ sample \in [Signals -> Values]
  /\ val \in [Signals -> Values]
  /\ app_buffer \in [Signals -> Values]
  /\ leds \subseteq Lamps
  /\ untold \subseteq Signals
  /\ tries \in Nat

(***************************************************************************)
(* Boot: init_config, then update_config.                                  *)
(***************************************************************************)
update_config(length) ==
  IF \A name \in DOMAIN length : length[name] < BufferSize THEN "INIT" ELSE "CONFIG_ERROR"

Init ==
  /\ \E length \in [{"client_id", "sub_topic", "pub_topic"} -> Lengths] :
       state = update_config(length)
  /\ etimer = IF state = "INIT" THEN ASAP ELSE Off
  /\ queue = << >> /\ poll = FALSE /\ untold = Signals
  /\ connect_attempt = 0 /\ tries = 0
  /\ stable = TRUE
  /\ conn = "NOT_CONNECTED" /\ out = "none" /\ subscribed = FALSE
  /\ addr = FALSE
  /\ sample = BootSample
  /\ val = [s \in Signals |-> Unset]
  /\ app_buffer = val
  /\ leds = {} /\ ct = FALSE

(***************************************************************************)
(* Calls into the MQTT engine.                                             *)
(***************************************************************************)
\* Mutant: asks for mqtt_connected where mqtt_ready is needed.
ReadyIfConnected == conn = "CONNECTED"

mqtt_ready == conn = "CONNECTED" /\ out # "queued"
out_buffer_sent == out # "unacked"

mqtt_connect(c) == IF c = "NOT_CONNECTED" THEN "CONNECTING" ELSE c
mqtt_disconnect(c) == IF c = "CONNECTED" THEN "DISCONNECTING" ELSE c

\* subscribe() and publish() hand one packet to the engine, which takes it
\* only on a connection whose packet buffer is free.
Request == out' = IF mqtt_ready THEN "queued" ELSE out
subscribe == Request /\ subscribed' = (subscribed \/ mqtt_ready)
publish(values) == Request /\ app_buffer' = values

(***************************************************************************)
(* state_machine(), one operator per case and branch; values is ev_signals. *)
(***************************************************************************)
\* Mutant: lights the lamp and does not set the ctimer.
LampOn == leds' = leds_on(leds, LEDS_GREEN) /\ ct' = ct

\* Light the green lamp and let publish_led_off put it out.
Blip == leds' = leds_on(leds, LEDS_GREEN) /\ ct' = TRUE

Tried == tries' = IF RetryForever THEN tries ELSE tries + 1

\* case STATE_REGISTERED, also reached from STATE_INIT.
ConnectToBroker ==
  /\ addr
  /\ conn' = mqtt_connect(conn)
  /\ state' = "CONNECTING"
  /\ Tried
  /\ UNCHANGED <<out, subscribed, app_buffer, leds, ct>>

WaitForAddress ==
  /\ ~addr
  /\ state' = "REGISTERED"
  /\ Blip
  /\ UNCHANGED <<conn, out, subscribed, app_buffer, tries>>

Registered(attempt) ==
  /\ ConnectToBroker \/ WaitForAddress
  /\ connect_attempt' = attempt
  /\ etimer' = NET_CONNECT_PERIODIC

StepInit == state = "INIT" /\ Registered(1)

StepRegistered == state = "REGISTERED" /\ Registered(connect_attempt)

\* Mutant: takes the attempt for failed without closing the connection.
ConnectingTimesOut ==
  /\ state = "CONNECTING"
  /\ Blip
  /\ state' = "DISCONNECTED"
  /\ etimer' = STATE_MACHINE_PERIODIC
  /\ UNCHANGED <<connect_attempt, conn, out, subscribed, app_buffer, tries>>

\* Mutant: returns where the code breaks, the timer is not set again.
ConnectingNoTimer ==
  /\ state = "CONNECTING"
  /\ Blip
  /\ UNCHANGED <<state, connect_attempt, etimer, conn, out, subscribed, app_buffer, tries>>

StepConnecting ==
  /\ state = "CONNECTING"
  /\ Blip
  /\ etimer' = STATE_MACHINE_PERIODIC
  /\ UNCHANGED <<state, connect_attempt, conn, out, subscribed, app_buffer, tries>>

\* The connection has lasted CONNECTION_STABLE_TIME: all attempts are due again.
RenewAttempts ==
  IF stable THEN connect_attempt' = 0 /\ tries' = 0
            ELSE UNCHANGED <<connect_attempt, tries>>

StepSubscribe ==
  /\ state = "CONNECTED"
  /\ mqtt_ready /\ out_buffer_sent
  /\ RenewAttempts
  /\ subscribe
  /\ state' = "PUBLISHING"
  /\ etimer' = PUB_INTERVAL
  /\ UNCHANGED <<conn, app_buffer, leds, ct>>

StepPublish(values) ==
  /\ state = "PUBLISHING"
  /\ mqtt_ready /\ out_buffer_sent
  /\ RenewAttempts
  /\ publish(values)
  /\ Blip
  /\ etimer' = PUB_INTERVAL
  /\ UNCHANGED <<state, conn, subscribed>>

\* Mutant: returns where the code breaks, the timer is not set again.
InFlightNoTimer ==
  /\ state \in {"CONNECTED", "PUBLISHING"}
  /\ ~(mqtt_ready /\ out_buffer_sent)
  /\ RenewAttempts
  /\ UNCHANGED <<state, etimer, conn, out, subscribed, app_buffer, leds, ct>>

\* A packet is still in flight.
StepInFlight ==
  /\ state \in {"CONNECTED", "PUBLISHING"}
  /\ ~(mqtt_ready /\ out_buffer_sent)
  /\ RenewAttempts
  /\ etimer' = STATE_MACHINE_PERIODIC
  /\ UNCHANGED <<state, conn, out, subscribed, app_buffer, leds, ct>>

\* Mutant: allows one attempt too many.
OneAttemptMore == connect_attempt <= ReconnectAttempts \/ RetryForever

\* Mutant: takes RETRY_FOREVER for a number.
LimitedAttempts == connect_attempt < ReconnectAttempts

AttemptsLeft == connect_attempt < ReconnectAttempts \/ RetryForever

\* Mutant: connect_attempt is wider than uint8_t.
BackoffNoWrap ==
  /\ state = "DISCONNECTED"
  /\ AttemptsLeft
  /\ conn' = mqtt_disconnect(conn)
  /\ connect_attempt' = connect_attempt + 1
  /\ etimer' = Backoff(connect_attempt')
  /\ state' = "REGISTERED"
  /\ UNCHANGED <<out, subscribed, app_buffer, leds, ct, tries>>

\* Mutant: forgets to go back to STATE_REGISTERED.
BackoffForever ==
  /\ state = "DISCONNECTED"
  /\ AttemptsLeft
  /\ etimer' = Backoff(connect_attempt)
  /\ UNCHANGED <<state, connect_attempt, conn, out, subscribed, app_buffer, leds, ct, tries>>

StepBackoff ==
  /\ state = "DISCONNECTED"
  /\ AttemptsLeft
  /\ conn' = mqtt_disconnect(conn)
  /\ connect_attempt' = (connect_attempt + 1) % AttemptModulus
  /\ etimer' = Backoff(connect_attempt')
  /\ state' = "REGISTERED"
  /\ UNCHANGED <<out, subscribed, app_buffer, leds, ct, tries>>

StepGiveUp ==
  /\ state = "DISCONNECTED"
  /\ ~AttemptsLeft
  /\ state' = "ERROR"
  /\ etimer' = STATE_MACHINE_PERIODIC
  /\ UNCHANGED <<connect_attempt, conn, out, subscribed, app_buffer, leds, ct, tries>>

StepConfigError == state = "CONFIG_ERROR" /\ UNCHANGED fsmVars

StepError ==
  /\ state = "ERROR"
  /\ leds' = leds_on(leds, LEDS_GREEN)
  /\ UNCHANGED <<state, connect_attempt, etimer, conn, out, subscribed, app_buffer, ct, tries>>

state_machine(values) ==
  \/ StepInit \/ StepRegistered \/ StepConnecting
  \/ StepSubscribe \/ StepPublish(values) \/ StepInFlight
  \/ StepBackoff \/ StepGiveUp
  \/ StepConfigError \/ StepError

(***************************************************************************)
(* The event loop of mqtt_demo_process.  A poll and the queued events may  *)
(* be served in either order.                                              *)
(***************************************************************************)
HandlePoll ==
  /\ poll
  /\ poll' = FALSE
  /\ state_machine(val)
  /\ UNCHANGED <<queue, stable, addr, sample, val, untold>>

HandleTimer ==
  /\ Delivers(queue, "mqtt", "TIMER")
  /\ queue' = Tail(queue)
  /\ state_machine(val)
  /\ UNCHANGED <<poll, stable, addr, sample, val, untold>>

\* Mutant: keeps the sample only while publishing.
HandleSignalIfPublishing(s) ==
  /\ Delivers(queue, "mqtt", s)
  /\ queue' = Tail(queue)
  /\ val' = IF state = "PUBLISHING" THEN [val EXCEPT ![s] = sample[s]] ELSE val
  /\ state_machine(val')
  /\ UNCHANGED <<poll, stable, addr, sample, untold>>

\* The event carries the address of the sender's variable: its value is
\* read now, not when the event was posted.
HandleSignal(s) ==
  /\ Delivers(queue, "mqtt", s)
  /\ queue' = Tail(queue)
  /\ val' = [val EXCEPT ![s] = sample[s]]
  /\ state_machine(val')
  /\ UNCHANGED <<poll, stable, addr, sample, untold>>

(***************************************************************************)
(* The rest of the mote: a sensor process takes a sample and posts it (in  *)
(* vain when events of other processes fill the kernel's queue), the event *)
(* timer expires (the kernel retries while the queue is full),             *)
(* publish_led_off runs, connection_life runs out, the node's address      *)
(* comes and goes.                                                         *)
(***************************************************************************)
Sample(s) ==
  /\ \E v \in Values : sample' = [sample EXCEPT ![s] = v]
  /\ \/ /\ Accepts(queue)
        /\ queue' = process_post(queue, "mqtt", s)
        /\ untold' = untold \ {s}
     \/ /\ queue' = queue
        /\ untold' = untold \cup {s}
  /\ UNCHANGED <<poll, fsmVars, stable, addr, val>>

TimerExpires ==
  /\ etimer # Off
  /\ Accepts(queue)
  /\ queue' = process_post(queue, "mqtt", "TIMER")
  /\ etimer' = Off
  /\ UNCHANGED <<poll, state, connect_attempt, conn, out, subscribed, app_buffer, leds, ct, tries,
                 stable, addr, sample, val, untold>>

publish_led_off ==
  /\ ct
  /\ ct' = FALSE
  /\ leds' = leds_off(leds, LEDS_GREEN)
  /\ UNCHANGED <<queue, poll, state, connect_attempt, etimer, conn, out, subscribed, app_buffer, tries,
                 stable, addr, sample, val, untold>>

ConnectionStable ==
  /\ ~stable
  /\ stable' = TRUE
  /\ UNCHANGED <<queue, poll, fsmVars, addr, sample, val, untold>>

AddressChanges ==
  /\ addr' = ~addr
  /\ UNCHANGED <<queue, poll, fsmVars, stable, sample, val, untold>>

(***************************************************************************)
(* The MQTT engine and the broker; mqtt_event is their callback.           *)
(***************************************************************************)
\* Mutant: a connection goes on publishing without a new subscription.
AcceptsToPublishing ==
  /\ conn = "CONNECTING"
  /\ conn' = "CONNECTED"
  /\ out' \in {"none", "unacked"}
  /\ stable' = FALSE
  /\ state' = "PUBLISHING"
  /\ UNCHANGED <<queue, poll, connect_attempt, etimer, subscribed, app_buffer, leds, ct, tries,
                 addr, sample, val, untold>>

\* MQTT_EVENT_CONNECTED; the CONNECT packet may still lack its TCP acknowledgement.
BrokerAccepts ==
  /\ conn = "CONNECTING"
  /\ conn' = "CONNECTED"
  /\ out' \in {"none", "unacked"}
  /\ stable' = FALSE
  /\ state' = "CONNECTED"
  /\ UNCHANGED <<queue, poll, connect_attempt, etimer, subscribed, app_buffer, leds, ct, tries,
                 addr, sample, val, untold>>

\* MQTT_EVENT_CONNECTION_REFUSED_ERROR: the engine has closed the
\* connection, mqtt_event only prints the event.
BrokerRefuses ==
  /\ MayRefuse
  /\ conn = "CONNECTING"
  /\ conn' = "NOT_CONNECTED"
  /\ UNCHANGED <<queue, poll, state, connect_attempt, etimer, out, subscribed, app_buffer, leds, ct,
                 tries, stable, addr, sample, val, untold>>

\* MQTT_EVENT_DISCONNECTED: the TCP connection failed, was closed or timed out.
ConnectionLost ==
  /\ conn # "NOT_CONNECTED"
  /\ conn' = "NOT_CONNECTED"
  /\ out' = "none" /\ subscribed' = FALSE
  /\ state' = "DISCONNECTED"
  /\ poll' = TRUE
  /\ UNCHANGED <<queue, connect_attempt, etimer, app_buffer, leds, ct, tries, stable, addr, sample,
                 val, untold>>

\* MQTT_EVENT_PUBLISH: a command for the lamp, or a message pub_handler ignores.
pub_handler(command) ==
  CASE command = "1" -> leds_on(leds, LEDS_RED)
    [] command = "0" -> leds_off(leds, LEDS_RED)
    [] OTHER -> leds

BrokerPublishes ==
  /\ conn = "CONNECTED" /\ subscribed
  /\ \E command \in {"1", "0", "other"} : leds' = pub_handler(command)
  /\ UNCHANGED <<queue, poll, state, connect_attempt, etimer, conn, out, subscribed, app_buffer,
                 ct, tries, stable, addr, sample, val, untold>>

\* The engine sends the queued packet, and pings the broker every three
\* publication intervals: never so early that the FSM has not subscribed.
\* TCP acknowledges either.
PacketSent ==
  /\ out = "queued"
  /\ out' = "unacked"
  /\ UNCHANGED <<queue, poll, state, connect_attempt, etimer, conn, subscribed, app_buffer, leds, ct,
                 tries, stable, addr, sample, val, untold>>

Ping ==
  /\ state = "PUBLISHING" /\ out = "none"
  /\ out' = "unacked"
  /\ UNCHANGED <<queue, poll, state, connect_attempt, etimer, conn, subscribed, app_buffer, leds, ct,
                 tries, stable, addr, sample, val, untold>>

PacketAcked ==
  /\ out = "unacked"
  /\ out' = "none"
  /\ UNCHANGED <<queue, poll, state, connect_attempt, etimer, conn, subscribed, app_buffer, leds, ct,
                 tries, stable, addr, sample, val, untold>>

Dispatch == HandleTimer \/ \E s \in Signals : HandleSignal(s)

Process == HandlePoll \/ Dispatch

Mote ==
  \/ \E s \in Signals : Sample(s)
  \/ TimerExpires \/ publish_led_off \/ ConnectionStable \/ AddressChanges

Engine ==
  \/ BrokerAccepts \/ BrokerRefuses \/ ConnectionLost
  \/ BrokerPublishes \/ PacketSent \/ Ping \/ PacketAcked

Next == Process \/ Mote \/ Engine

Spec == Init /\ [][Next]_vars

(***************************************************************************)
(* Fairness.  The kernel serves polls and events and expires timers; the   *)
(* engine sends what it holds and TCP acknowledges it.  A broker that can  *)
(* be reached again and again accepts some attempt in the end.             *)
(***************************************************************************)
Fairness ==
  /\ WF_vars(HandlePoll) /\ WF_vars(Dispatch) /\ WF_vars(TimerExpires)
  /\ WF_vars(publish_led_off)
  /\ WF_vars(PacketSent) /\ WF_vars(PacketAcked)
  /\ SF_vars(BrokerAccepts)

FairSpec == Spec /\ Fairness

(***************************************************************************)
(* Safety.                                                                 *)
(***************************************************************************)

\* The FSM and the engine agree on the connection: the FSM believes in a
\* connection exactly while there is one, and when it is about to open one
\* or has given up there is none (mqtt_connect would ignore the call on an
\* open connection, and mqtt_disconnect in the DISCONNECTED case finds
\* nothing to close).  state is written by the callback and by five cases.
FsmMatchesConnection ==
  /\ state \in {"CONNECTED", "PUBLISHING"} <=> conn = "CONNECTED"
  /\ state \in {"INIT", "REGISTERED", "DISCONNECTED", "ERROR", "CONFIG_ERROR"}
       => conn = "NOT_CONNECTED"

\* The FSM never sleeps for good: until it has given up, its timer runs or
\* an event that will drive it is on its way (line 210 and the etimer_set of
\* every branch that returns early).  Sensor events do not count.
WakeupPending ==
  state \notin {"ERROR", "CONFIG_ERROR"} =>
    etimer # Off \/ poll \/ Waiting(queue, "mqtt", "TIMER")

\* Sessions are clean: a connection that publishes has its own subscription,
\* although subscribe() is called once per connection and its result ignored.
SubscribedWhilePublishing == state = "PUBLISHING" => subscribed

\* A limited RECONNECT_ATTEMPTS means that number of calls of mqtt_connect,
\* at boot and after a connection that was stable, no more and no fewer;
\* RETRY_FOREVER never gives up (lines 89, 127-130, 172-178).
AttemptBudget ==
  IF RetryForever THEN state # "ERROR"
                  ELSE /\ tries <= ReconnectAttempts
                       /\ state = "ERROR" => tries = ReconnectAttempts

\* What publish() would send is the last sample of every sensor that has ever
\* posted one, whose event is not still queued and whose last post was not
\* dropped: passing pointers to variables that change may skip samples but
\* never leaves a stale one.  Of a sensor that has posted nothing since boot
\* it is a zero, whatever its variable holds (lvl_counter starts at 2).
LastSampleKnown ==
  \A s \in Signals :
    val[s] = sample[s] \/ Waiting(queue, "mqtt", s) \/ s \in untold

\* The green lamp only blips: whenever the FSM has lit it publish_led_off is
\* still to come, until the FSM has given up.
LampIsBlip == "green" \in leds /\ state # "ERROR" => ct

\* The link of the node, as BrokerLink speaks of it.
LinkState ==
  CASE state \in {"INIT", "REGISTERED", "DISCONNECTED"} -> "idle"
    [] state = "CONNECTING" -> "trying"
    [] state = "CONNECTED" -> "up"
    [] state = "PUBLISHING" -> "serving"
    [] state \in {"ERROR", "CONFIG_ERROR"} -> "failed"

Link == INSTANCE BrokerLink WITH
  MaxAttempts <- ReconnectAttempts, Forever <- RetryForever,
  link <- LinkState, left <- ReconnectAttempts - tries

\* The FSM and its callback keep the promise of BrokerLink: the link is
\* attempted, accepted, served and lost in that order, and given up exactly
\* when the attempts granted since it was last stable are used up.
ImplementsLink == Link!Spec

(***************************************************************************)
(* Action properties.                                                      *)
(***************************************************************************)

\* mqtt_publish keeps the address of app_buffer and sends from it later:
\* whatever event runs the FSM, publish() never writes the buffer while the
\* engine still has to read it (lines 133, 156-164).
PayloadIntact == [][out = "queued" => app_buffer' = app_buffer]_vars

(***************************************************************************)
(* Liveness.                                                               *)
(***************************************************************************)

\* A node that has an address gets back to its broker after every loss of
\* the connection, when it retries for ever and the broker refuses nobody.
Reconnects == <>[]addr => (state = "DISCONNECTED" ~> state = "CONNECTED")

\* Once connected the node subscribes, unless the connection is lost first.
Subscribes == state = "CONNECTED" ~> state \in {"PUBLISHING", "DISCONNECTED"}

(***************************************************************************)
(* What comments promise and the code does not do.                         *)
(***************************************************************************)

\* "Disconnect and backoff" (line 175): no new attempt before the backoff
\* interval is over.  Any sensor event runs the FSM, which connects.
BackoffRespected ==
  [][state = "REGISTERED" /\ etimer \in Backoffs => state' # "CONNECTING"]_vars

\* "We want RECONNECT_ATTEMPTS attempts if we disconnect after a successful
\* connect" (lines 127-128): the count of a connection that has been stable
\* starts again.  Nobody looks at connection_life until the FSM runs.
AllAttemptsAfterStable ==
  [][conn = "CONNECTED" /\ stable /\ conn' # "CONNECTED" => connect_attempt' = 0]_vars

\* "A timeout used when waiting for something to happen (e.g. to connect
\* or to disconnect)" (add-on.h:30-31): a connection attempt ends.
ConnectingEnds == state = "CONNECTING" ~> state # "CONNECTING"
=============================================================================
