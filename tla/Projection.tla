------------------------------ MODULE Projection ------------------------------
(***************************************************************************)
(* The engine and the destination it feeds.  A bundle, once published, may *)
(* reach the destination at any time, late, again, or never; so may the    *)
(* bundles of another engine store; the destination's members may be       *)
(* edited by hand.                                                         *)
(***************************************************************************)
EXTENDS Engine, Destination

CONSTANTS
  Foreign,   \* bundles of another engine store
  Phantom    \* pairs a hand edit adds or removes

\* A store's lineage is its own, and bundles name persons and the two segments only.
ASSUME ProjectionAssumption ==
  /\ \A bundle \in Foreign :
       bundle.lineage \notin {"none", "own"} /\ bundle.after \subseteq Segment \X Person
  /\ Phantom \subseteq Segment \X Person

projectionVars == <<engineVars, destinationVars>>

ProjectionInit == EngineInit /\ DestinationInit

ProjectionNext ==
  \/ EngineNext /\ UNCHANGED destinationVars
  \/ \E id \in Published : Apply(BundleOf(id)) /\ UNCHANGED engineVars
  \/ \E bundle \in Foreign : Apply(bundle) /\ UNCHANGED engineVars
  \/ \E m \in Phantom : DestinationDrift(m) /\ UNCHANGED engineVars

ProjectionSpec == ProjectionInit /\ [][ProjectionNext]_projectionVars

-------------------------------------------------------------------------------
(* Properties *)

\* How many bundles were published up to id's, and the generation of the k-th.
Rank(id) == Cardinality({i \in Published : i <= id})
Nth(k) == CHOOSE id \in Published : Rank(id) = k

Promise == INSTANCE Audience WITH
  Pair <- Segment \X Person,
  history <- [k \in 1..Cardinality(Published) |-> generations[Nth(k)].activation],
  position <- IF lineage = "own" THEN Len(receipts) ELSE 0,
  shown <- members

\* The engine and the destination implement the promise: whatever order bundles
\* arrive in and however often, and historical restatements built in between, the
\* destination shows the published audiences one after the other and none in part;
\* once it shows them, bundles of another store cannot interfere
\* (destination.py:56-81, engine.py:78-98).
KeepsThePromise == Promise!Spec

\* The destination cannot get stuck but by a hand edit or another store's bundle: as
\* long as it holds the audience of its generation, the bundle that follows passes every check of its
\* validation, the provenance of reused decisions included (destination.py:32-61).
NextBundleIsTaken ==
  lineage \in {"none", "own"} /\ members = ActivationOf(generation) =>
    \A id \in Published :
      generations[id].parent = generation =>
        Acceptable(BundleOf(id)) /\ Patched(BundleOf(id)) = BundleOf(id).after
===============================================================================
