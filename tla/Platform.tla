------------------------------ MODULE Platform ------------------------------
(***************************************************************************)
(* The two services of the Contiki kernel every process of the mote shares *)
(* (both outside this repository): the event queue of process_post and the *)
(* lamps behind leds_on and leds_off.  Both are given as operators on      *)
(* values: the modules that use them own the variables.                    *)
(***************************************************************************)
EXTENDS Naturals, Sequences, FiniteSets

CONSTANTS
  NumEvents,     \* capacity of the kernel's event queue
  LEDS_YELLOW    \* the lamps the platform's LEDS_YELLOW mask drives

LEDS_GREEN == {"green"}
LEDS_RED == {"red"}
Lamps == {"green", "red", "yellow"}

ASSUME PlatformAssumption ==
  /\ NumEvents \in Nat \ {0}
  /\ LEDS_YELLOW \subseteq Lamps

leds_on(lit, mask) == lit \cup mask
leds_off(lit, mask) == lit \ mask

(***************************************************************************)
(* process_post reports an error on a full queue and drops the event; none *)
(* of the mote's processes looks at the result.                            *)
(***************************************************************************)
Accepts(q) == Len(q) < NumEvents

process_post(q, to, ev) ==
  IF Accepts(q) THEN Append(q, [to |-> to, ev |-> ev]) ELSE q

\* Is an event ev for process `to' still waiting to be delivered?
Waiting(q, to, ev) == \E i \in DOMAIN q : q[i] = [to |-> to, ev |-> ev]

\* The event at the head of q is ev for process `to'.
Delivers(q, to, ev) == q # << >> /\ Head(q) = [to |-> to, ev |-> ev]
=============================================================================
