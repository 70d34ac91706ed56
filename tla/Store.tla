--------------------------------- MODULE Store ---------------------------------
(***************************************************************************)
(* The engine's store of knowledge (src/temporal_audiences/store.py):      *)
(* batches of fact versions and coverage assertions, append-only.  Each    *)
(* ingestion is one IMMEDIATE transaction, so one atomic action; a batch   *)
(* that conflicts with what is stored is refused whole.                    *)
(***************************************************************************)
EXTENDS Temporal

CONSTANTS
  Offered,      \* fact versions sources may state
  Asserted,     \* coverage assertions the activity source may state
  BatchSize,    \* bound on the fact versions of a batch
  MaxBatches    \* bound on batches

ASSUME StoreAssumption ==
  /\ Offered \subseteq FactVersion
  /\ Asserted \subseteq {a \in Assertion : a.after < a.through}
  /\ {BatchSize, MaxBatches} \subseteq Nat

VARIABLES
  head,       \* the sequence of the newest batch
  facts,      \* stored fact versions, each with the batch that brought it
  coverage    \* stored coverage assertions, each with the batch that brought it

storeVars == <<head, facts, coverage>>

Row(f, known) ==
  [source |-> f.source, id |-> f.id, revision |-> f.revision, person |-> f.person,
   effective |-> f.effective, value |-> f.value, retracted |-> f.retracted,
   known |-> known]

AssertionRow(a, known) ==
  [revision |-> a.revision, after |-> a.after, through |-> a.through,
   retracted |-> a.retracted, known |-> known]

StoreInit == head = 0 /\ facts = {} /\ coverage = {}

\* No two versions of a fact belong to different persons, and none differs from
\* what is stored of the same revision.
Admissible(batch) ==
  /\ \A f, g \in batch : Identity(f) = Identity(g) => f = g
  /\ \A f \in batch, g \in facts \union batch :
       g.source = f.source /\ g.id = f.id => g.person = f.person
  /\ \A f \in batch, g \in facts : Identity(g) = Identity(f) => g = Row(f, g.known)

\* The versions of batch that are not stored yet.
News(batch) == {f \in batch : \A g \in facts : Identity(g) # Identity(f)}

\* Store.ingest
Ingest(batch) ==
  /\ head < MaxBatches
  /\ Admissible(batch)
  /\ head' = head + 1
  /\ facts' = facts \union {Row(f, head') : f \in News(batch)}
  /\ UNCHANGED coverage

\* Store.ingest_coverage
IngestCoverage(a) ==
  /\ head < MaxBatches
  /\ \A b \in coverage : b.revision = a.revision => b = AssertionRow(a, b.known)
  /\ head' = head + 1
  /\ coverage' = IF \E b \in coverage : b.revision = a.revision THEN coverage
                 ELSE coverage \union {AssertionRow(a, head')}
  /\ UNCHANGED facts

\* Either, retried under the name of a stored batch: its sequence is returned, or
\* the request refused when the content differs.
IngestAgain == head > 0 /\ UNCHANGED storeVars

Batches == {b \in SUBSET Offered : b # {} /\ IsFiniteSet(b) /\ Cardinality(b) <= BatchSize}

StoreNext ==
  \/ \E batch \in Batches : Ingest(batch)
  \/ \E a \in Asserted : IngestCoverage(a)
  \/ IngestAgain

StoreSpec == StoreInit /\ [][StoreNext]_storeVars

\* The persons known of at known.
Everyone(known) == {f.person : f \in {g \in facts : g.known <= known}}
===============================================================================
