--------------------------------- MODULE Orders ---------------------------------
(***************************************************************************)
(* What the sender and the receiver promise together: orders to add or     *)
(* remove a member are placed, each newer than the ones of its key before  *)
(* it, cleared, carried out at most once and never behind a newer one, and *)
(* reported done only when they were carried out.  The destination shows   *)
(* the last order carried out; where it shows nothing yet, it may be       *)
(* disturbed from outside.                                                 *)
(***************************************************************************)
EXTENDS Naturals

CONSTANTS
  Target,     \* what may be a member
  Number,     \* the numbers of a target's orders
  Outside     \* the numbers an outside change may carry

Order == Target \X Number

VARIABLES
  asked,    \* per order, "none" before it is placed, then "add" or "remove"
  cleared,  \* the orders that may be carried out
  done,     \* the orders carried out
  shown,    \* per target, the number it was last changed under and whether it is a member
  reported  \* the orders reported done

vars == <<asked, cleared, done, shown, reported>>

Init ==
  /\ asked = [o \in Order |-> "none"]
  /\ cleared = {} /\ done = {} /\ reported = {}
  /\ shown = [t \in Target |-> [seq |-> 0, active |-> FALSE]]

\* A removal protects the member: it is cleared as it is placed.
Place(o, what) ==
  /\ \A p \in Order : p[1] = o[1] /\ asked[p] # "none" => p[2] < o[2]
  /\ asked' = [asked EXCEPT ![o] = what]
  /\ cleared' = IF what = "remove" THEN cleared \union {o} ELSE cleared
  /\ UNCHANGED <<done, shown, reported>>

Clear(o) ==
  /\ asked[o] # "none"
  /\ cleared' = cleared \union {o}
  /\ UNCHANGED <<asked, done, shown, reported>>

CarryOut(o) ==
  /\ o \in cleared \ done
  /\ shown[o[1]].seq < o[2]
  /\ done' = done \union {o}
  /\ shown' = [shown EXCEPT ![o[1]] = [seq |-> o[2], active |-> asked[o] = "add"]]
  /\ UNCHANGED <<asked, cleared, reported>>

Report(o) ==
  /\ o \in done
  /\ reported' = reported \union {o}
  /\ UNCHANGED <<asked, cleared, done, shown>>

Disturb(t) ==
  /\ shown[t].seq = 0
  /\ \E n \in Outside : shown' = [shown EXCEPT ![t] = [seq |-> n, active |-> TRUE]]
  /\ UNCHANGED <<asked, cleared, done, reported>>

Next ==
  \/ \E o \in Order : \/ \E what \in {"add", "remove"} : Place(o, what)
                      \/ Clear(o) \/ CarryOut(o) \/ Report(o)
  \/ \E t \in Target : Disturb(t)

Spec == Init /\ [][Next]_vars
===============================================================================
