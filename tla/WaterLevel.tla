----------------------------- MODULE WaterLevel -----------------------------
(***************************************************************************)
(* lvl_process and buzzer_process of the mote (node1/node1.c): the user    *)
(* button moves a water level, the lamps and the buzzer follow it, and     *)
(* every event of the button is reported to mqtt_demo_process.             *)
(*                                                                         *)
(* The processes talk through the kernel's queue.  It is shared with the   *)
(* rest of the mote, so a post may find it full at any time.  So are the   *)
(* lamps: the MQTT state machine and commands from the cloud (add-on.c)    *)
(* switch the green and the red one whatever the level has made of them.   *)
(***************************************************************************)
EXTENDS Platform, Integers

CONSTANTS
  NORMAL_LEVEL,     \* the level at boot
  YELLOW_TRESHOLD,  \* from here on the yellow lamp
  RED_TRESHOLD,     \* from here on the red lamp and the buzzer
  LevelModulus      \* lvl_counter counts modulo this (2^16 in the code)

ASSUME LevelAssumption ==
  /\ NORMAL_LEVEL \in Nat /\ YELLOW_TRESHOLD \in Nat
  /\ RED_TRESHOLD \in Nat /\ LevelModulus \in Nat
  /\ NORMAL_LEVEL < YELLOW_TRESHOLD
  /\ YELLOW_TRESHOLD < RED_TRESHOLD
  /\ RED_TRESHOLD < LevelModulus

VARIABLES
  queue,        \* the kernel's events for, or from, these processes, oldest first
  leds,         \* the lamps that are lit
  lvl_counter,  \* the water level
  button,       \* the position of the user button
  pin,          \* the output that drives the buzzer
  ct,           \* ctimer ct is running, publish_led_off is due
  touched,      \* lamps the others have switched since lvl_process last wrote them (history)
  dropped,      \* the last command to the buzzer found the queue full (history)
  wrapped       \* lvl_counter has run past zero or past its maximum (history)

vars == <<queue, leds, lvl_counter, button, pin, ct, touched, dropped, wrapped>>

\* Broadcasts of the button's driver, commands to the buzzer, reports.
Messages ==
  [to : {"all"}, ev : {"sensors_event", "press_exceeded"}]
    \cup [to : {"buzzer"}, ev : {"Y", "R"}]
    \cup [to : {"mqtt"}, ev : {"sLevel"}]

TypeOK ==
  /\ queue \in Seq(Messages) /\ Len(queue) <= NumEvents
  /\ leds \subseteq Lamps
  /\ lvl_counter \in 0 .. LevelModulus - 1
  /\ button \in {"up", "down"}
  /\ pin \in {"low", "high"}
  /\ ct \in BOOLEAN
  /\ touched \subseteq Lamps
  /\ dropped \in BOOLEAN /\ wrapped \in BOOLEAN

\* All processes have been started: lvl_process has sent "turn off" to
\* the buzzer, buzzer_process has set its pin.
Init ==
  /\ queue = process_post(<< >>, "buzzer", "Y")
  /\ leds = {}
  /\ lvl_counter = NORMAL_LEVEL
  /\ button = "up"
  /\ pin = "high"
  /\ ct = FALSE /\ touched = {}
  /\ dropped = FALSE /\ wrapped = FALSE

(***************************************************************************)
(* lvl_process.  Each branch of the code is one operator: the lamps, the   *)
(* commands to the buzzer, the counter.                                    *)
(***************************************************************************)
\* Mutant: the yellow lamp is not put out at the red threshold.
LampsUpYellowStays(n) ==
  CASE n >= RED_TRESHOLD -> 
         leds_on(leds_on(leds_off(leds, LEDS_GREEN), LEDS_YELLOW), LEDS_RED)
    [] n \in YELLOW_TRESHOLD .. RED_TRESHOLD - 1 ->
         leds_on(leds_off(leds, LEDS_GREEN), LEDS_YELLOW)
    [] OTHER -> leds

\* The lamps after the level has risen to n.
LampsUp(n) ==
  CASE n >= RED_TRESHOLD ->
         leds_on(leds_off(leds_on(leds_off(leds, LEDS_GREEN), LEDS_YELLOW), LEDS_YELLOW), LEDS_RED)
    [] n \in YELLOW_TRESHOLD .. RED_TRESHOLD - 1 ->
         leds_on(leds_off(leds, LEDS_GREEN), LEDS_YELLOW)
    [] OTHER -> leds

\* The lamps after the level has sunk to n.
LampsDown(n) ==
  CASE n < YELLOW_TRESHOLD ->
         leds_on(leds_off(leds_on(leds_off(leds, LEDS_RED), LEDS_YELLOW), LEDS_YELLOW), LEDS_GREEN)
    [] n \in YELLOW_TRESHOLD .. RED_TRESHOLD - 1 ->
         leds_on(leds_off(leds, LEDS_RED), LEDS_YELLOW)
    [] OTHER -> leds

\* The lamps those branches write, on or off.
WrittenUp(n) ==
  CASE n >= RED_TRESHOLD -> LEDS_GREEN \cup LEDS_YELLOW \cup LEDS_RED
    [] n \in YELLOW_TRESHOLD .. RED_TRESHOLD - 1 -> LEDS_GREEN \cup LEDS_YELLOW
    [] OTHER -> {}

WrittenDown(n) ==
  CASE n < YELLOW_TRESHOLD -> LEDS_RED \cup LEDS_YELLOW \cup LEDS_GREEN
    [] n \in YELLOW_TRESHOLD .. RED_TRESHOLD - 1 -> LEDS_RED \cup LEDS_YELLOW
    [] OTHER -> {}

\* q and what is left of it when the queue of the mote is full.
Posted(q, to, ev) == {q} \cup (IF Accepts(q) THEN {process_post(q, to, ev)} ELSE {})

\* Every pass through the loop ends with a report to mqtt_demo_process.
Report(q) == queue' \in Posted(q, "mqtt", "sLevel")

Command(q, ev) ==
  \E r \in Posted(q, "buzzer", ev) : dropped' = (r = q) /\ Report(r)

\* Mutant: the buzzer is told above the threshold, not at it.
LevelUpPastRed(q) ==
  LET n == (lvl_counter + 1) % LevelModulus IN
  /\ lvl_counter' = n
  /\ wrapped' = (wrapped \/ n = 0)
  /\ leds' = LampsUp(n) /\ touched' = touched \ WrittenUp(n)
  /\ IF n > RED_TRESHOLD THEN Command(q, "R") ELSE Report(q) /\ UNCHANGED dropped

LevelUp(q) ==
  LET n == (lvl_counter + 1) % LevelModulus IN
  /\ lvl_counter' = n
  /\ wrapped' = (wrapped \/ n = 0)
  /\ leds' = LampsUp(n) /\ touched' = touched \ WrittenUp(n)
  /\ IF n >= RED_TRESHOLD THEN Command(q, "R") ELSE Report(q) /\ UNCHANGED dropped

\* Mutant: the counter is signed.
LevelDownSigned(q) ==
  LET n == lvl_counter - 1 IN
  /\ lvl_counter' = n
  /\ wrapped' = (wrapped \/ lvl_counter = 0)
  /\ leds' = LampsDown(n) /\ touched' = touched \ WrittenDown(n)
  /\ IF n < YELLOW_TRESHOLD THEN Command(q, "Y") ELSE Report(q) /\ UNCHANGED dropped

LevelDown(q) ==
  LET n == (lvl_counter + LevelModulus - 1) % LevelModulus IN
  /\ lvl_counter' = n
  /\ wrapped' = (wrapped \/ lvl_counter = 0)
  /\ leds' = LampsDown(n) /\ touched' = touched \ WrittenDown(n)
  /\ IF n < YELLOW_TRESHOLD THEN Command(q, "Y") ELSE Report(q) /\ UNCHANGED dropped

\* The button is read when the event is handled.
HandlePress ==
  /\ Delivers(queue, "all", "sensors_event")
  /\ button = "down"
  /\ LevelUp(Tail(queue))
  /\ UNCHANGED <<button, pin, ct>>

HandleRelease ==
  /\ Delivers(queue, "all", "sensors_event")
  /\ button = "up"
  /\ Report(Tail(queue))
  /\ UNCHANGED <<leds, lvl_counter, button, pin, ct, touched, dropped, wrapped>>

HandleHold ==
  /\ Delivers(queue, "all", "press_exceeded")
  /\ LevelDown(Tail(queue))
  /\ UNCHANGED <<button, pin, ct>>

(***************************************************************************)
(* buzzer_process                                                          *)
(***************************************************************************)
\* Mutants: one of the two commands is not obeyed.
CommandOffOnly ==
  \E ev \in {"Y", "R"} :
    /\ Delivers(queue, "buzzer", ev)
    /\ queue' = Tail(queue)
    /\ pin' = IF ev = "R" THEN pin ELSE "low"
    /\ UNCHANGED <<leds, lvl_counter, button, ct, touched, dropped, wrapped>>

CommandOnOnly ==
  \E ev \in {"Y", "R"} :
    /\ Delivers(queue, "buzzer", ev)
    /\ queue' = Tail(queue)
    /\ pin' = IF ev = "R" THEN "high" ELSE pin
    /\ UNCHANGED <<leds, lvl_counter, button, ct, touched, dropped, wrapped>>

HandleCommand ==
  \E ev \in {"Y", "R"} :
    /\ Delivers(queue, "buzzer", ev)
    /\ queue' = Tail(queue)
    /\ pin' = IF ev = "R" THEN "high" ELSE "low"
    /\ UNCHANGED <<leds, lvl_counter, button, ct, touched, dropped, wrapped>>

(***************************************************************************)
(* The rest of the mote: the receiver of the reports, and the button's     *)
(* driver.  A change of the button while one is still to be reported may   *)
(* go unreported; an event that finds the queue full is dropped.           *)
(***************************************************************************)
HandleReport ==
  /\ Delivers(queue, "mqtt", "sLevel")
  /\ queue' = Tail(queue)
  /\ UNCHANGED <<leds, lvl_counter, button, pin, ct, touched, dropped, wrapped>>

ButtonMoves ==
  /\ button' = IF button = "up" THEN "down" ELSE "up"
  /\ queue' \in Posted(queue, "all", "sensors_event")
  /\ UNCHANGED <<leds, lvl_counter, pin, ct, touched, dropped, wrapped>>

HoldLasts ==
  /\ button = "down"
  /\ queue' \in Posted(queue, "all", "press_exceeded")
  /\ UNCHANGED <<leds, lvl_counter, button, pin, ct, touched, dropped, wrapped>>

\* The lamps in the hands of the others: the FSM lights the green one, with
\* the ctimer or, in STATE_ERROR, without, publish_led_off puts it out, and the
\* cloud switches the red one.
Switch(lit, mask) ==
  /\ leds' = lit
  /\ touched' = touched \cup mask
  /\ UNCHANGED <<queue, lvl_counter, button, pin, dropped, wrapped>>

FsmLights == Switch(leds_on(leds, LEDS_GREEN), LEDS_GREEN) /\ ct' \in {ct, TRUE}

publish_led_off == ct /\ Switch(leds_off(leds, LEDS_GREEN), LEDS_GREEN) /\ ct' = FALSE

pub_handler ==
  /\ Switch(leds_on(leds, LEDS_RED), LEDS_RED) \/ Switch(leds_off(leds, LEDS_RED), LEDS_RED)
  /\ UNCHANGED ct

Others == FsmLights \/ publish_led_off \/ pub_handler

Dispatch ==
  HandlePress \/ HandleRelease \/ HandleHold \/ HandleCommand \/ HandleReport

Next == Dispatch \/ ButtonMoves \/ HoldLasts \/ Others

Spec == Init /\ [][Next]_vars

\* The kernel delivers what is queued.
FairSpec == Spec /\ WF_vars(Dispatch)

(***************************************************************************)
(* Properties.                                                             *)
(***************************************************************************)

\* ev is the last command given to the buzzer: the last one waiting in q or,
\* when none is, the one that has set the pin to p.
LastCommand(q, p, ev) ==
  \/ \E i \in DOMAIN q :
       /\ q[i] = [to |-> "buzzer", ev |-> ev]
       /\ \A j \in DOMAIN q : j > i => q[j].to # "buzzer"
  \/ /\ \A i \in DOMAIN q : q[i].to # "buzzer"
     /\ p = (IF ev = "R" THEN "high" ELSE "low")

Commanded(ev) == LastCommand(queue, pin, ev)

\* The alarm follows the level: from the red threshold on the buzzer is on
\* or told to be, below the yellow one off or told to be, whatever presses
\* and holds are pending; between the two it keeps what it had.  A command
\* the full queue dropped, and a counter that has wrapped, are the exceptions.
AlarmFollowsLevel ==
  ~dropped /\ ~wrapped =>
    /\ lvl_counter >= RED_TRESHOLD => Commanded("R")
    /\ lvl_counter < YELLOW_TRESHOLD => Commanded("Y")

\* The lamps that tell the zone of level n (none is lit before the level first
\* sinks).
ZoneLamps(n) ==
  IF n >= RED_TRESHOLD THEN LEDS_RED
  ELSE IF n >= YELLOW_TRESHOLD THEN LEDS_YELLOW
  ELSE LEDS_GREEN

\* Every lamp tells the zone of the level, also where LEDS_YELLOW drives the
\* green and the red lamp, as on the Zoul, unless the state machine, its
\* ctimer or the cloud has switched it since the level last did: however
\* they have done so before, the level has the last word on what it writes,
\* and what it does not write in a zone needs no writing.
LampsShowLevel ==
  ~wrapped =>
    \A lamp \in Lamps \ touched :
      /\ lamp \in leds => lamp \in ZoneLamps(lvl_counter)
      /\ lvl_counter >= YELLOW_TRESHOLD /\ lamp \in ZoneLamps(lvl_counter) => lamp \in leds

\* Water at the red threshold sounds the alarm, unless it sinks again or the
\* command was dropped.
AlarmSounds ==
  (lvl_counter >= RED_TRESHOLD /\ ~wrapped) ~>
    (pin = "high" \/ lvl_counter < RED_TRESHOLD \/ dropped \/ wrapped)

\* Water below the yellow threshold silences it: also the buzzer that
\* sounds from boot.
AlarmStops ==
  (lvl_counter < YELLOW_TRESHOLD /\ ~wrapped) ~>
    (pin = "low" \/ lvl_counter >= YELLOW_TRESHOLD \/ dropped \/ wrapped)
=============================================================================
