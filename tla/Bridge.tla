--------------------------------- MODULE Bridge ---------------------------------
(***************************************************************************)
(* The operating layer's bridge (src/audience_ops/bridge.py) from its      *)
(* durable inbox to the engine: every handler replays the inbox into a     *)
(* throw-away engine store and lets the engine decide, on admission as on  *)
(* publication.  It composes Engine, as the function a replay computes,    *)
(* with Policy, which knows of a publication only that it was evaluated.   *)
(***************************************************************************)
EXTENDS Integers, Sequences, FiniteSets

CONSTANTS
  Person, FactId,     \* registered subjects; identifiers of facts
  Offered, Asserted,  \* fact versions and coverage assertions sources may state
  Rules,              \* the ruleset in force
  Terms,              \* what a permission revision may say
  Mode,               \* the publication modes a run exercises
  BatchSize, MaxInbox, MaxClock, MaxPublications, MaxPermissions   \* bounds

VARIABLES
  inbox,          \* sequence of admitted batches, each the set of what it states
  clock,          \* brands.clock
  publications,   \* sequence of publications, each with its decisions
  active,         \* the active publication, 0 before the first
  permissions     \* sequence of permission revisions

vars == <<inbox, clock, publications, active, permissions>>

Segments == {"engaged_trial", "quiet_trial"}

BatchesOf(kind) == {i \in DOMAIN inbox : inbox[i].kind = kind}

-------------------------------------------------------------------------------
(* replay *)

\* Mutant: what a later batch states again is taken to be news of that batch.
BroughtByLast(kind, content) ==
  CHOOSE i \in BatchesOf(kind) : content \in inbox[i].body
    /\ \A j \in BatchesOf(kind) : content \in inbox[j].body => j <= i

\* The batch that brought content: the first that states it.
BroughtBy(kind, content) ==
  CHOOSE i \in BatchesOf(kind) : content \in inbox[i].body
    /\ \A j \in BatchesOf(kind) : content \in inbox[j].body => i <= j

Stated(kind) == UNION {inbox[i].body : i \in BatchesOf(kind)}

Facts ==
  {[source |-> f.source, id |-> f.id, revision |-> f.revision, person |-> f.person,
    effective |-> f.effective, value |-> f.value, retracted |-> f.retracted,
    known |-> BroughtBy("facts", f)] : f \in Stated("facts")}

Coverage ==
  {[revision |-> a.revision, after |-> a.after, through |-> a.through,
    retracted |-> a.retracted, known |-> BroughtBy("coverage", a)] : a \in Stated("coverage")}

\* The engine as a replay leaves it: all knowledge, no generation.
Engine == INSTANCE Engine WITH
  Rules <- {Rules}, MaxBatches <- MaxInbox, MaxGenerations <- 0,
  head <- Len(inbox), facts <- Facts, coverage <- Coverage,
  generations <- <<>>, active <- 0

Covered(at, known) == Engine!Covered(Coverage, at, known, Rules.quiet_window)

\* The rows of decisions: a full build in the replay, and its coverage gate.
Decisions(at, known) ==
  LET rows == Engine!People(at, known, Rules, TRUE)
  IN  [k \in (DOMAIN rows) \X Segments |->
         [member |-> k[2] \in rows[k[1]].membership,
          covered |-> k[2] # "quiet_trial" \/ Covered(at, known)]]

-------------------------------------------------------------------------------
(* The journal, as Policy sees it. *)

PersonsIn(batch) == IF batch.kind = "facts" THEN {f.person : f \in batch.body} ELSE {}

Journal == INSTANCE Policy WITH
  Segment <- Segments, CoverageGated <- {"quiet_trial"},
  inbox <- [i \in DOMAIN inbox |-> PersonsIn(inbox[i])],
  publications <- [i \in DOMAIN publications |->
    LET p == publications[i]
    IN  [mode |-> p.mode, clock |-> p.clock, known |-> p.known, coverage |-> p.covered,
         member |-> {k \in DOMAIN p.decisions : p.decisions[k].member}]]

\* As in the modules instantiated here.
ASSUME BridgeAssumption ==
  /\ Offered \subseteq Engine!FactVersion
  /\ Asserted \subseteq {a \in Engine!Assertion : a.after < a.through}
  /\ Rules \in Engine!RuleSet
  /\ Terms \subseteq {t \in Journal!Term : t.validFrom < t.expires}
  /\ Mode \subseteq {"current", "historical"}
  /\ {BatchSize, MaxInbox, MaxClock, MaxPublications, MaxPermissions} \subseteq Nat

-------------------------------------------------------------------------------
Init ==
  inbox = <<>> /\ clock = 0 /\ publications = <<>> /\ active = 0 /\ permissions = <<>>

\* Operations.ingest: admitted if the replayed store admits it.
Ingest(kind, body) ==
  /\ Len(inbox) < MaxInbox
  /\ CASE kind = "facts" -> Engine!Admissible(body)
       [] kind = "coverage" ->
            \A a \in Stated(kind), b \in body : a.revision = b.revision => a = b
  /\ inbox' = Append(inbox, [kind |-> kind, body |-> body])
  /\ UNCHANGED <<clock, publications, active, permissions>>

\* Mutant: a historical restatement sets the clock as well.
MovesAlways(mode) == TRUE

Moves(mode) == mode = "current"

\* Operations.publish
Publish(mode, at, known) ==
  /\ Len(publications) < MaxPublications
  /\ Journal!PublishAllowed(mode, at, known)
  /\ publications' = Append(publications,
       [mode |-> mode, clock |-> at, known |-> known,
        decisions |-> Decisions(at, known), covered |-> Covered(at, known)])
  /\ clock' = IF Moves(mode) THEN at ELSE clock
  /\ active' = IF mode = "current" THEN Len(publications') ELSE active
  /\ UNCHANGED <<inbox, permissions>>

\* Operations.permission
Permit(p, revision, terms) ==
  /\ UNCHANGED <<inbox, clock, publications, active>>
  /\ Journal!RevisePermission(p, revision, terms)

\* Any of them, retried: the stored answer.
Again ==
  /\ UNCHANGED vars
  /\ \/ inbox # <<>>
     \/ \E i \in DOMAIN publications : Journal!PublishAgain(i)
     \/ \E p \in Person, revision \in 1..MaxPermissions, terms \in Terms :
          Journal!PermissionAgain(p, revision, terms)

Next ==
  \/ Again
  \/ \E body \in Engine!Batches : Ingest("facts", body)
  \/ \E a \in Asserted : Ingest("coverage", {a})
  \/ \E mode \in Mode, at \in 0..MaxClock, known \in 0..MaxInbox : Publish(mode, at, known)
  \/ \E p \in Person, revision \in 1..MaxPermissions, terms \in Terms :
       Permit(p, revision, terms)

Spec == Init /\ [][Next]_vars

-------------------------------------------------------------------------------
(* The operating layer's own reference evaluator (src/audience_ops/oracle.py),  *)
(* on the raw bodies of a journal's first batches.                              *)

Raw(batches, kind) ==
  UNION {batches[i].body : i \in {j \in DOMAIN batches : batches[j].kind = kind}}

\* The dictionary latest: per fact, its highest revision.
Latest(batches) ==
  {f \in Raw(batches, "facts") : \A g \in Raw(batches, "facts") :
     g.source = f.source /\ g.id = f.id => g.revision <= f.revision}

\* coverage: the highest revision; none before the first.
LatestCoverage(batches) ==
  {a \in Raw(batches, "coverage") : \A b \in Raw(batches, "coverage") : b.revision <= a.revision}

\* temporal
Oracle(batches, at, known) ==
  LET first    == SubSeq(batches, 1, IF known < Len(batches) THEN known ELSE Len(batches))
      selected == {f \in Latest(first) : ~f.retracted}
      covered  == \E a \in LatestCoverage(first) :
                    ~a.retracted /\ a.after <= at - Rules.quiet_window /\ a.through >= at
      profiles(p) == {f \in selected : f.person = p /\ f.source = "profile" /\ f.effective <= at}
      states(p)   == {f.value : f \in {g \in profiles(p) :
                                         \A h \in profiles(p) : h.effective <= g.effective}}
      events(p, window) ==
        Cardinality({f \in selected : /\ f.person = p /\ f.source = "activity" /\ f.value = "qualified"
                                      /\ at - window < f.effective /\ f.effective <= at})
  IN  [k \in {f.person : f \in Raw(first, "facts")} \X Segments |->
         IF k[2] = "engaged_trial"
         THEN [covered |-> TRUE,
               member |-> /\ states(k[1]) = {"trial"}
                          /\ events(k[1], Rules.engaged_window) >= Rules.minimum_events]
         ELSE [covered |-> covered,
               member |-> states(k[1]) = {"trial"} /\ events(k[1], Rules.quiet_window) = 0]]

\* check's grants and its expected_eligible, from what it has read.
Grants(rows, p) ==
  {i \in DOMAIN rows : rows[i].person = p /\ \A j \in DOMAIN rows :
     rows[j].person = p => rows[j].revision <= rows[i].revision}

\* Mutant: a permission still holds at the second it expires.
OpenToTheEnd(t, now) == t.validFrom <= now /\ now <= t.expires

Open(t, now) == t.validFrom <= now /\ now < t.expires

Expected(batches, pubs, rows, now, pointer) ==
  IF pointer \notin DOMAIN pubs THEN {}
  ELSE LET pub == pubs[pointer]
           decisions == Oracle(batches, pub.clock, pub.known)
       IN  {k \in DOMAIN decisions :
              /\ pub.clock = now /\ pub.known = Len(batches)
              /\ decisions[k].member /\ decisions[k].covered
              /\ \E i \in Grants(rows, k[1]) : LET t == rows[i].terms IN
                   t.allowed /\ ~t.suppressed /\ Open(t, now)}

\* The keys the view shows as eligible.
EligibleKeys == {k \in Journal!Key : Journal!Eligible(k)}

-------------------------------------------------------------------------------
(* Properties *)

\* Every publication's decisions are what the reference evaluator makes of the raw
\* inbox at that publication's clock and knowledge, now and for good: replaying a
\* longer inbox never changes what an earlier publication says (oracle.py:50-59).
DecisionsAreOracle ==
  \A i \in DOMAIN publications :
    publications[i].decisions = Oracle(inbox, publications[i].clock, publications[i].known)

\* The view lets a sender act on exactly the keys that the reference evaluation of
\* the active publication and the permission journal allow (oracle.py:60-73,
\* operating.sql:60-77).
EligibilityIsOracle ==
  EligibleKeys = Expected(inbox, publications, permissions, clock, active)

\* Replaying the inbox from the beginning is the store the batches would have made
\* one by one: what is admitted, and under which sequence it is known, never depends
\* on a replay (bridge.py:19-25,55-58).
ReplayIsTheStore == Engine!StoreSpec

\* The journal with the engine behind it implements the journal that Activation is
\* checked with: evaluation is a function of knowledge and clock (bridge.py:64-106).
EvaluationFitsTheJournal == Journal!PolicySpec
===============================================================================
