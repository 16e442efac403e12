----------------------------- MODULE BrokerLink -----------------------------
(***************************************************************************)
(* What the state machine of the mote promises of its link to the broker:  *)
(* a link is attempted, accepted, served and lost; it is served only once  *)
(* it is up; and the node gives up exactly when a limited number of        *)
(* attempts is used up, a number that is granted again only while the      *)
(* link is up.                                                             *)
(***************************************************************************)
EXTENDS Naturals

CONSTANTS
  MaxAttempts,   \* the attempts granted
  Forever        \* attempts are not counted

VARIABLES
  link,   \* the state of the link
  left    \* the attempts left

vars == <<link, left>>

\* A node whose configuration is unusable fails at once.
Init == link \in {"idle", "failed"} /\ left = MaxAttempts

Attempt ==
  /\ link = "idle"
  /\ left > 0
  /\ link' = "trying"
  /\ left' = IF Forever THEN left ELSE left - 1

Accepted == link = "trying" /\ link' = "up" /\ UNCHANGED left

Lost == link \in {"trying", "up", "serving"} /\ link' = "idle" /\ UNCHANGED left

Serve ==
  /\ link \in {"up", "serving"}
  /\ link' \in {link, "serving"}
  /\ left' \in {left, MaxAttempts}

GiveUp == link = "idle" /\ left = 0 /\ link' = "failed" /\ UNCHANGED left

Next == Attempt \/ Accepted \/ Lost \/ Serve \/ GiveUp

Spec == Init /\ [][Next]_vars
=============================================================================
