---------------------------- MODULE BorderRouter ----------------------------
(***************************************************************************)
(* The embedded border router (border-router.c, slip-bridge.c), and with   *)
(* it the web server of either router: the embedded one keeps its radio    *)
(* off and asks the bridge on its serial line for a prefix, once a second, *)
(* until it has one.  Request and answer may be lost; the router may       *)
(* restart.  It can be reached over the bridge when it has its address.    *)
(* The start of the native router is in HostRadio; here it is up.          *)
(***************************************************************************)
EXTENDS WebServer

CONSTANT MaxReboots     \* bound: restarts of the embedded router

ASSUME RebootAssumption == MaxReboots \in Nat

VARIABLES
  radio,         \* "off": NETSTACK_MAC.off(0); "on": off(1)
  prefix_set,
  asked,         \* a ?P is on its way to the bridge
  answered,      \* a !P is on its way to the router
  reboots

bootVars == <<radio, prefix_set, asked, answered, reboots>>
vars == <<webVars, bootVars>>

Embedded == ~build.sensors

TypeOK ==
  /\ WebTypeOK
  /\ radio \in {"off", "on"} /\ prefix_set \in BOOLEAN
  /\ asked \in BOOLEAN /\ answered \in BOOLEAN /\ reboots \in 0 .. MaxReboots

\* The embedded router has turned its radio off and asked once.
Init ==
  /\ WebInit
  /\ radio = IF Embedded THEN "off" ELSE "on"
  /\ prefix_set = ~Embedded
  /\ asked = Embedded /\ answered = FALSE /\ reboots = 0

\* Mutant: the router asks only once.
SecondPassesOnce ==
  /\ radio = "off"
  /\ IF prefix_set THEN radio' = "on" /\ UNCHANGED asked ELSE UNCHANGED <<radio, asked>>
  /\ UNCHANGED <<webVars, prefix_set, answered, reboots>>

\* border_router_process: its timer expires.
SecondPasses ==
  /\ radio = "off"
  /\ IF prefix_set THEN radio' = "on" /\ UNCHANGED asked ELSE asked' = TRUE /\ UNCHANGED radio
  /\ UNCHANGED <<webVars, prefix_set, answered, reboots>>

\* The prefix counts as set whether or not rpl_set_root, called behind it,
\* finds memory for a DAG.
set_prefix_64 == prefix_set' = TRUE

\* slip_input_callback with !P
SetPrefix ==
  /\ answered /\ answered' = FALSE
  /\ set_prefix_64
  /\ UNCHANGED <<webVars, radio, asked, reboots>>

\* The bridge on the host answers.
BridgeAnswers ==
  /\ asked /\ asked' = FALSE
  /\ answered' = TRUE
  /\ UNCHANGED <<webVars, radio, prefix_set, reboots>>

LineLoses ==
  /\ asked \/ answered
  /\ asked' \in {FALSE, asked} /\ answered' \in {FALSE, answered}
  /\ UNCHANGED <<webVars, radio, prefix_set, reboots>>

\* The restart; what is on the line stays there.
Reboot ==
  /\ Embedded /\ reboots < MaxReboots /\ reboots' = reboots + 1
  /\ WebReset
  /\ radio' = "off" /\ prefix_set' = FALSE /\ asked' = TRUE
  /\ UNCHANGED answered

Boot == SecondPasses \/ SetPrefix \/ BridgeAnswers \/ LineLoses \/ Reboot

Web == prefix_set /\ WebNext /\ UNCHANGED bootVars

Next == Boot \/ Web

Spec == Init /\ [][Next]_vars

\* The timer runs; a request repeated often enough gets through, and so does
\* its answer; of the web server WebFair.
FairSpec ==
  /\ Spec
  /\ WF_vars(SecondPasses) /\ SF_vars(BridgeAnswers) /\ SF_vars(SetPrefix)
  /\ WebFair

(***************************************************************************)
(* Properties.                                                             *)
(***************************************************************************)

\* The router comes up, whatever is lost.
BootsUp == <>[](radio = "on")
=============================================================================
