------------------------------ MODULE Destination ------------------------------
(***************************************************************************)
(* The membership projection (src/temporal_audiences/destination.py): it   *)
(* takes the bundle whose parent it has, when its members are the ones the *)
(* bundle starts from, in one transaction.  Any other bundle, one of       *)
(* another engine store than the first one included, and a retry of the    *)
(* one it has change nothing.                                              *)
(***************************************************************************)
EXTENDS Integers, FiniteSets, Sequences

VARIABLES
  members,      \* the <<segment, person>> pairs held
  lineage,      \* the engine store it is bound to; "none" before the first bundle
  generation,   \* the generation applied last; 0 for none
  receipts      \* the generations applied, in order

destinationVars == <<members, lineage, generation, receipts>>

DestinationInit ==
  members = {} /\ lineage = "none" /\ generation = 0 /\ receipts = <<>>

Targets(bundle, op) == {c.member : c \in {d \in bundle.changes : d.op = op}}

\* No member is changed twice, nor by a decision newer than the bundle.
WellFormed(bundle) ==
  /\ bundle.parent < bundle.generation
  /\ \A c \in bundle.changes : c.decided_at <= bundle.valid_at
  /\ \A c, d \in bundle.changes : c.member = d.member => c = d

\* Mutant: any newer bundle is taken, if it starts from the members held.
FollowsAny(bundle) == generation < bundle.generation

Follows(bundle) == generation = bundle.parent

Acceptable(bundle) ==
  /\ WellFormed(bundle)
  /\ lineage \in {"none", bundle.lineage}
  /\ Follows(bundle)
  /\ members = bundle.before
  /\ Targets(bundle, "add") \intersect members = {}
  /\ Targets(bundle, "remove") \subseteq members

Patched(bundle) == (members \ Targets(bundle, "remove")) \union Targets(bundle, "add")

\* Destination.apply
Apply(bundle) ==
  /\ Acceptable(bundle)
  /\ Patched(bundle) = bundle.after
  /\ members' = Patched(bundle)
  /\ lineage' = bundle.lineage
  /\ generation' = bundle.generation
  /\ receipts' = Append(receipts, bundle.generation)

\* Somebody edits the members by hand.
DestinationDrift(member) ==
  /\ members' = IF member \in members THEN members \ {member} ELSE members \union {member}
  /\ UNCHANGED <<lineage, generation, receipts>>
===============================================================================
