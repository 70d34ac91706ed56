------------------------------- MODULE Audience -------------------------------
(***************************************************************************)
(* What the engine and its destination promise together: audiences are     *)
(* published one after the other, and the destination shows them in that   *)
(* order, one at a time, each as a whole.  Its members may be disturbed    *)
(* from outside; it then stands still until they are what they were.       *)
(***************************************************************************)
EXTENDS Naturals, Sequences

CONSTANT Pair   \* possible members of an audience

VARIABLES
  history,    \* the audiences published
  position,   \* how many of them have been shown
  shown       \* the members held

vars == <<history, position, shown>>

Audience(k) == IF k = 0 THEN {} ELSE history[k]

Init == history = <<>> /\ position = 0 /\ shown = {}

Publish ==
  /\ \E s \in SUBSET Pair : history' = Append(history, s)
  /\ UNCHANGED <<position, shown>>

Advance ==
  /\ position < Len(history)
  /\ shown = Audience(position)
  /\ position' = position + 1
  /\ shown' = Audience(position')
  /\ UNCHANGED history

Disturb ==
  /\ shown' \in SUBSET Pair
  /\ UNCHANGED <<history, position>>

Next == Publish \/ Advance \/ Disturb

Spec == Init /\ [][Next]_vars
===============================================================================
