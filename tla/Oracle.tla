-------------------------------- MODULE Oracle --------------------------------
(***************************************************************************)
(* The engine's queries against the repository's reference evaluator       *)
(* (src/temporal_audiences/oracle.py), on every state the store can be in: *)
(* the reference keeps the highest revision of each fact in a dictionary   *)
(* for the whole population, and knows no timers.                          *)
(***************************************************************************)
EXTENDS Store

CONSTANTS
  Rules,      \* the rulesets evaluated
  Horizon     \* the last business time evaluated

ASSUME OracleAssumption == Rules \subseteq RuleSet /\ Horizon \in Nat

-------------------------------------------------------------------------------
\* The dictionary of full_evaluation: per fact, its highest known revision.
Revisions(known) ==
  LET rows == {f \in facts : f.known <= known}
      keys == {<<f.source, f.id>> : f \in rows}
      of(key) == {f \in rows : <<f.source, f.id>> = key}
  IN  [key \in keys |-> CHOOSE f \in of(key) : \A g \in of(key) : g.revision <= f.revision]

Selected(known) ==
  {f \in {Revisions(known)[key] : key \in DOMAIN Revisions(known)} : ~f.retracted}

OracleFeatures(person, clock, known, rules) ==
  LET subject  == {f \in Selected(known) : f.person = person}
      profiles == {f \in subject : f.source = "profile" /\ f.effective <= clock}
      last     == {f \in profiles : ~ \E g \in profiles : g.effective > f.effective}
      states   == {f.value : f \in last}
      events   == {f \in subject : f.source = "activity" /\ f.value = "qualified"
                                   /\ f.effective <= clock}
      recent(window) == {f \in events : clock - window < f.effective}
      due == {f.effective : f \in subject}
             \union {f.effective + rules.engaged_window : f \in events}
             \union {f.effective + rules.quiet_window : f \in events}
  IN  [profile_state |-> CASE states = {} -> "missing"
                           [] Cardinality(states) = 1 -> CHOOSE s \in states : TRUE
                           [] OTHER -> "ambiguous",
       engaged_events |-> Cardinality(recent(rules.engaged_window)),
       quiet_events |-> Cardinality(recent(rules.quiet_window)),
       next_due |-> Earliest({t \in due : t > clock}),
       evidence |-> last \union recent(rules.engaged_window) \union recent(rules.quiet_window)]

\* full_activation_members's gate.
OracleCovered(clock, known, window) ==
  LET assertions == {a \in coverage : a.known <= known}
  IN  /\ assertions # {}
      /\ LET latest == CHOOSE a \in assertions : \A b \in assertions : b.revision <= a.revision
         IN  /\ ~latest.retracted
             /\ latest.after <= clock - window
             /\ clock <= latest.through

-------------------------------------------------------------------------------
(* Properties *)

\* The feature SQL and the reference evaluator agree on every person, time,
\* knowledge and ruleset: late, restated, retracted and out-of-order revisions,
\* future-dated profiles and window boundaries included (features.sql:2-32).
EvaluationIsOracle ==
  \A p \in Person, clock \in 0..Horizon, known \in 0..head, rules \in Rules :
    Features(facts, p, clock, known, rules) = OracleFeatures(p, clock, known, rules)

\* At fixed knowledge nothing about a person changes before its timer is due, so a
\* build may reuse every row that is not due: a missing boundary would leave a
\* member in an audience it has aged out of (features.sql:11-17, engine.py:63-65).
NothingChangesBeforeDue ==
  \A p \in Person, clock \in 0..Horizon, rules \in Rules :
    LET now == Features(facts, p, clock, head, rules)
    IN  \A later \in clock..Horizon :
          now.next_due = 0 \/ later < now.next_due
          => Features(facts, p, later, head, rules) = now

\* The coverage gate is the reference's, for every time and knowledge
\* (coverage.py:20-31).
GateIsOracle ==
  \A clock \in 0..Horizon, known \in 0..head, rules \in Rules :
    Covered(coverage, clock, known, rules.quiet_window)
      <=> OracleCovered(clock, known, rules.quiet_window)

\* The gate announces each time it opens or closes: it does not change before the
\* time it gives, and it does change then (coverage.py:33-37).
GateTurnsWhenDue ==
  \A clock \in 0..Horizon, rules \in Rules :
    LET Open(t) == Covered(coverage, t, head, rules.quiet_window)
        due == CoverageDue(coverage, clock, head, rules.quiet_window)
    IN  /\ \A later \in clock..Horizon : due = 0 \/ later < due => Open(later) = Open(clock)
        /\ due # 0 => Open(due) # Open(clock)

\* What was known stays known as it was: no later batch, whatever it restates,
\* corrects or retracts, changes an evaluation at an earlier knowledge, nor the
\* gate (store.py:62-68,84-90).
KnowledgeIsFinal ==
  [][\A known \in 0..head, clock \in 0..Horizon, rules \in Rules :
       /\ \A p \in Person :
            Features(facts', p, clock, known, rules) = Features(facts, p, clock, known, rules)
       /\ Covered(coverage', clock, known, rules.quiet_window)
            = Covered(coverage, clock, known, rules.quiet_window)]_storeVars
===============================================================================
