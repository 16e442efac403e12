----------------------------- MODULE SlipQueue -----------------------------
(***************************************************************************)
(* What the output side of the native border router's serial device        *)
(* promises: frames go out whole, in the order they were put in, not a     *)
(* byte lost, repeated or swapped; no write reaches past the end of the    *)
(* frame that is going out; and once the program stops nothing goes out.   *)
(***************************************************************************)
EXTENDS Naturals, Sequences

CONSTANTS
  End,      \* the byte that ends a frame
  Frames,   \* the frames that may be put in
  Hello     \* what is waiting when the device has been opened

VARIABLES
  unsent,   \* the bytes that are still to go out
  up        \* the program runs

vars == <<unsent, up>>

Init == unsent = Hello /\ up = TRUE

Put ==
  /\ up
  /\ \E frame \in Frames : unsent' = unsent \o frame
  /\ UNCHANGED up

Write ==
  /\ up
  /\ \E n \in 1 .. Len(unsent) :
       /\ \A i \in 1 .. n - 1 : unsent[i] # End
       /\ unsent' = SubSeq(unsent, n + 1, Len(unsent))
  /\ UNCHANGED up

Stop == up /\ up' = FALSE /\ UNCHANGED unsent

Next == Put \/ Write \/ Stop

Spec == Init /\ [][Next]_vars
=============================================================================
