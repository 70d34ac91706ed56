------------------------------- MODULE Temporal -------------------------------
(***************************************************************************)
(* What the engine computes of one person at business time clock and       *)
(* knowledge known (src/temporal_audiences: features.sql, evaluate and     *)
(* coverage_at), as operators on a set of stored fact versions and a set   *)
(* of stored coverage assertions.                                          *)
(*                                                                         *)
(* A fact version is a row of facts: source, id, revision, person,         *)
(* effective (business time), value, retracted, known (the batch that      *)
(* brought it).  Rules are the two windows and the event threshold.        *)
(***************************************************************************)
EXTENDS Integers, FiniteSets

CONSTANTS
  Person,    \* persons facts are stated of
  FactId     \* identifiers of facts within a source

FactValue == {"trial", "paid", "closed", "qualified", "noise"}

\* A fact version as it is offered; stored, it also has known.
FactVersion ==
  [source: {"profile", "activity"}, id: FactId, revision: Nat \ {0}, person: Person,
   effective: Nat, value: FactValue, retracted: BOOLEAN]

Identity(f) == <<f.source, f.id, f.revision>>

Assertion ==
  [revision: Nat \ {0}, after: Nat, through: Nat, retracted: BOOLEAN]

RuleSet ==
  [engaged_window: Nat \ {0}, minimum_events: Nat \ {0}, quiet_window: Nat \ {0}]

\* The least of a set of times; 0, which is never due, for none.
Earliest(times) == IF times = {} THEN 0 ELSE CHOOSE t \in times : \A u \in times : t <= u

-------------------------------------------------------------------------------
(* features.sql *)

\* Mutant: the query forgets the bound on knowledge.
KnownOfEver(facts, person, known) == {f \in facts : f.person = person}

KnownOf(facts, person, known) == {f \in facts : f.person = person /\ f.known <= known}

\* The highest revision of each fact: r=1 of the ranking.
Ranked(facts, person, known) ==
  {f \in KnownOf(facts, person, known) :
     \A g \in KnownOf(facts, person, known) :
       g.source = f.source /\ g.id = f.id => g.revision <= f.revision}

\* Mutant: business time is filtered before the revisions are selected.
VisibleRetractedFirst(facts, person, known) ==
  Ranked({f \in facts : ~f.retracted}, person, known)

\* A retracted latest revision hides the fact; it never uncovers an older one.
Visible(facts, person, known) ==
  {f \in Ranked(facts, person, known) : ~f.retracted}

ProfileNow(visible, clock) ==
  LET past == {f \in visible : f.source = "profile" /\ f.effective <= clock}
  IN  {f \in past : \A g \in past : g.effective <= f.effective}

ProfileState(visible, clock) ==
  LET values == {f.value : f \in ProfileNow(visible, clock)}
  IN  IF values = {} THEN "missing"
      ELSE IF Cardinality(values) > 1 THEN "ambiguous"
      ELSE CHOOSE v \in values : TRUE

Qualified(visible) == {f \in visible : f.source = "activity" /\ f.value = "qualified"}

\* The qualified events of the window that ends at clock: (clock - window, clock].
Within(visible, clock, window) ==
  {f \in Qualified(visible) : clock - window < f.effective /\ f.effective <= clock}

\* Mutant: a fact that becomes effective later sets no timer.
StartsNever(visible, clock) == {}

Starts(visible, clock) == {f.effective : f \in {g \in visible : g.effective > clock}}

\* The times after clock at which a feature may change.
Boundaries(visible, clock, rules) ==
  Starts(visible, clock)
  \union
  {t \in {f.effective + w : f \in {g \in Qualified(visible) : g.effective <= clock},
                            w \in {rules.engaged_window, rules.quiet_window}} : t > clock}

Wider(rules) ==
  IF rules.engaged_window > rules.quiet_window THEN rules.engaged_window
  ELSE rules.quiet_window

\* The features of a person, with the fact versions they rest on.
Features(facts, person, clock, known, rules) ==
  LET visible == Visible(facts, person, known)
  IN  [profile_state |-> ProfileState(visible, clock),
       engaged_events |-> Cardinality(Within(visible, clock, rules.engaged_window)),
       quiet_events |-> Cardinality(Within(visible, clock, rules.quiet_window)),
       next_due |-> Earliest(Boundaries(visible, clock, rules)),
       evidence |-> ProfileNow(visible, clock) \union Within(visible, clock, Wider(rules))]

\* The audiences a person with these features is in.
SegmentsOf(features, rules) ==
  {s \in {"engaged_trial", "quiet_trial"} :
     /\ features.profile_state = "trial"
     /\ s = "engaged_trial" => features.engaged_events >= rules.minimum_events
     /\ s = "quiet_trial" => features.quiet_events = 0}

-------------------------------------------------------------------------------
(* coverage_at *)

\* The assertion in force at knowledge known, as a set of at most one.
InForce(coverage, known) ==
  {a \in coverage : /\ a.known <= known
                    /\ \A b \in coverage : b.known <= known => b.revision <= a.revision}

\* Mutants: coverage up to the clock excludes the clock; the gate is thought to
\* close when coverage ends, not after.
ReachesBeyond(a, clock) == a.through > clock
EndsEarly(a) == a.through

Reaches(a, clock) == a.through >= clock
Ends(a) == a.through + 1

\* The whole quiet window is covered: absence of activity can be believed.
Covered(coverage, clock, known, window) ==
  \E a \in InForce(coverage, known) :
    ~a.retracted /\ a.after <= clock - window /\ Reaches(a, clock)

\* When Covered next changes, at fixed knowledge; 0 for never.
CoverageDue(coverage, clock, known, window) ==
  Earliest({t \in UNION {{a.after + window, Ends(a)} :
                           a \in {b \in InForce(coverage, known) :
                                    ~b.retracted /\ b.after + window <= b.through}} : t > clock})
===============================================================================
