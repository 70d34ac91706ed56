-------------------------------- MODULE Engine --------------------------------
(***************************************************************************)
(* The incremental engine (src/temporal_audiences/engine.py): a build      *)
(* evaluates the persons a change of knowledge or a due timer has touched, *)
(* reuses the rows of the rest from the active generation, gates           *)
(* quiet_trial on activity coverage and, for a current build, publishes    *)
(* what changes in the audiences.                                          *)
(*                                                                         *)
(* A build is one IMMEDIATE transaction, so one atomic action.  The        *)
(* implementation hash is constant.                                        *)
(***************************************************************************)
EXTENDS Store, Sequences

CONSTANTS
  Rules,           \* rulesets builds are asked with
  MaxClock,        \* bound on business time
  MaxGenerations   \* bound on builds

ASSUME EngineAssumption ==
  /\ Rules \subseteq RuleSet
  /\ {MaxClock, MaxGenerations} \subseteq Nat

VARIABLES
  generations,   \* the stored results of builds, in order
  active         \* the newest current generation; 0 for none

engineVars == <<head, facts, coverage, generations, active>>

Segment == {"engaged_trial", "quiet_trial"}

\* A person's row of a generation.
Evaluate(p, clock, known, rules) ==
  LET features == Features(facts, p, clock, known, rules)
  IN  [evaluated_at |-> clock, evaluated_known_through |-> known,
       features |-> features, membership |-> SegmentsOf(features, rules)]

\* The <<segment, person>> pairs computed in rows.
Members(rows) == {m \in Segment \X DOMAIN rows : m[1] \in rows[m[2]].membership}

\* What of computed may be activated: quiet_trial only if the quiet window is covered.
Gated(computed, clock, known, rules) ==
  {m \in computed : m[1] = "quiet_trial" => Covered(coverage, clock, known, rules.quiet_window)}

\* The activation of generation id; none before the first.
ActivationOf(id) == IF id = 0 THEN {} ELSE generations[id].activation

EngineInit == StoreInit /\ generations = <<>> /\ active = 0

\* Everybody is evaluated, and nothing reused.
IsFull(rules, mode, force) ==
  mode = "historical" \/ force \/ active = 0 \/ generations[active].rules # rules

\* Mutants: knowledge of the next batch is taken for old; a timer is due only after
\* its time.
NewerByMore(f) == generations[active].known + 1 < f.known
IsDueAfter(due, clock) == due # 0 /\ due < clock

Newer(f) == generations[active].known < f.known
IsDue(due, clock) == due # 0 /\ due <= clock

\* Persons facts have arrived about since the active generation.
Changed(known) == {f.person : f \in {g \in facts : Newer(g) /\ g.known <= known}}

\* Persons whose timer is due at clock.
Due(clock) ==
  LET rows == generations[active].people
  IN  {p \in DOMAIN rows : IsDue(rows[p].features.next_due, clock)}

\* The rows of a build: those evaluated now, and those kept.
People(clock, known, rules, full) ==
  LET impacted == IF full THEN Everyone(known) ELSE Changed(known) \union Due(clock)
      kept     == IF full THEN {} ELSE DOMAIN generations[active].people \ impacted
  IN  [p \in impacted \union kept |->
         IF p \in impacted THEN Evaluate(p, clock, known, rules) ELSE generations[active].people[p]]

\* Mutants: what the parent computed is taken for what it activated; a restatement
\* of history becomes active.
BaseComputed == IF active = 0 THEN {} ELSE Members(generations[active].people)
TakesEffectAlways(mode) == TRUE

\* What a bundle starts from.
Base == ActivationOf(active)
TakesEffect(mode) == mode = "current"

Result(clock, known, rules, mode, people) ==
  [mode |-> mode, clock |-> clock, known |-> known, rules |-> rules, people |-> people,
   activation |-> Gated(Members(people), clock, known, rules),
   parent |-> active, before |-> Base]

\* A current build takes the latest knowledge and never goes back in time.
BuildAllowed(clock, known, mode) ==
  /\ known <= head
  /\ mode = "current" =>
       known = head /\ (IF active = 0 THEN 0 ELSE generations[active].clock) <= clock

\* build
Build(clock, known, rules, mode, force) ==
  /\ Len(generations) < MaxGenerations
  /\ BuildAllowed(clock, known, mode)
  /\ LET people == People(clock, known, rules, IsFull(rules, mode, force))
     IN  generations' = Append(generations, Result(clock, known, rules, mode, people))
  /\ active' = IF TakesEffect(mode) THEN Len(generations') ELSE active
  /\ UNCHANGED storeVars

\* A build retried under the run key of a stored one: what that one stored is
\* returned, or the request refused when it differs; active stays where it is.
BuildAgain == generations # <<>> /\ UNCHANGED engineVars

EngineNext ==
  \/ StoreNext /\ UNCHANGED <<generations, active>>
  \/ \E clock \in 0..MaxClock, known \in 0..MaxBatches, rules \in Rules,
        mode \in {"current", "historical"}, force \in BOOLEAN :
       Build(clock, known, rules, mode, force)
  \/ BuildAgain

EngineSpec == EngineInit /\ [][EngineNext]_engineVars

-------------------------------------------------------------------------------
(* The bundle a current generation publishes.  The hashes of the members       *)
(* before and after stand for the members.                                     *)

\* Every change names the time its decision was taken at.
ChangesOf(id) ==
  LET g == generations[id]
      Change(op, m) ==
        [op |-> op, member |-> m,
         decided_at |-> IF m[1] = "quiet_trial" THEN g.clock ELSE g.people[m[2]].evaluated_at]
  IN  {Change("remove", m) : m \in g.before \ g.activation}
      \union {Change("add", m) : m \in g.activation \ g.before}

BundleOf(id) ==
  LET g == generations[id]
  IN  [lineage |-> "own", generation |-> id, parent |-> g.parent, valid_at |-> g.clock,
       before |-> g.before, after |-> g.activation, changes |-> ChangesOf(id)]

\* The current generations: those that published a bundle.
Published == {id \in DOMAIN generations : generations[id].mode = "current"}

-------------------------------------------------------------------------------
(* Properties *)

\* Every stored generation, incremental or full, equals at any later time a full
\* evaluation of all facts and coverage known at its knowledge, at its own clock:
\* no person is missed, no reused row is stale, and no later batch can make a past
\* result irreproducible (engine.py:54-72).
GenerationsAreReproducible ==
  \A id \in DOMAIN generations :
    LET g == generations[id]
        fresh == [p \in Everyone(g.known) |-> Evaluate(p, g.clock, g.known, g.rules)]
    IN  /\ DOMAIN g.people = DOMAIN fresh
        /\ \A p \in DOMAIN fresh :
             /\ g.people[p].features = fresh[p].features
             /\ g.people[p].membership = fresh[p].membership
        /\ g.activation = Gated(Members(fresh), g.clock, g.known, g.rules)

\* The bundles form one chain that no historical restatement enters: each starts
\* from what the previous current generation activated, never goes back in time or
\* knowledge, and every person it changes has been evaluated (engine.py:49-53,74-98).
BundlesFormAChain ==
  \A id \in Published :
    LET g       == generations[id]
        earlier == {i \in Published : i < id}
    IN  /\ g.parent \in earlier \union {0}
        /\ \A i \in earlier : i <= g.parent
        /\ g.before = ActivationOf(g.parent)
        /\ \A i \in earlier : generations[i].clock <= g.clock /\ generations[i].known <= g.known
        /\ {m[2] : m \in g.before} \subseteq DOMAIN g.people
===============================================================================
