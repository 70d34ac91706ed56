------------------------------ MODULE OracleProofs ------------------------------
(***************************************************************************)
(* For every set of offered facts and assertions, every ruleset, horizon   *)
(* and number of batches: the engine's queries are the reference           *)
(* evaluator's, what was known stays known as it was, and neither a        *)
(* person's features nor the coverage gate change before they say.         *)
(*                                                                         *)
(* The query ranks the revisions of each fact among one person's rows, the *)
(* reference chooses one per fact among everybody's.  They meet because    *)
(* each fact has one person and one version of each revision, and finitely *)
(* many: a highest one, and only one (FactsInv of StoreProofs).            *)
(***************************************************************************)
EXTENDS Oracle, StoreProofs

-------------------------------------------------------------------------------
(* Finite sets. *)

\* A finite set of numbers that is not empty has a greatest one.
LEMMA GreatestExists ==
  ASSUME NEW S \in SUBSET Nat, IsFiniteSet(S), S # {}
  PROVE  \E m \in S : \A n \in S : n <= m
<1> DEFINE Greatest(T) == \E m \in T : \A n \in T : n <= m
           Sizes == {k \in Nat : \E T \in SUBSET Nat : /\ IsFiniteSet(T) /\ T # {}
                                                       /\ Cardinality(T) = k /\ ~Greatest(T)}
<1>1. CASE Sizes = {}
  <2>1. Cardinality(S) \in Nat
    BY FS_CardinalityType
  <2> QED
    BY <1>1, <2>1
<1>2. CASE Sizes # {}
  <2>1. PICK k \in Sizes : \A l \in Sizes : k <= l
    <3> HIDE DEF Sizes
    <3>1. ASSUME Sizes \subseteq Nat PROVE \E k \in Sizes : \A l \in Sizes : k <= l
      BY <1>2, <3>1, LeastExists
    <3>2. Sizes \subseteq Nat
      BY DEF Sizes
    <3> QED
      BY <3>1, <3>2
  <2>2. PICK T \in SUBSET Nat : IsFiniteSet(T) /\ T # {} /\ Cardinality(T) = k /\ ~Greatest(T)
    OBVIOUS
  <2>3. PICK x \in T : TRUE
    BY <2>2
  <2> DEFINE rest == T \ {x}
  <2>4. IsFiniteSet(rest) /\ Cardinality(rest) = k - 1 /\ k \in Nat
    BY <2>2, <2>3, FS_RemoveElement
  <2>5. rest # {}
    BY <2>2, <2>3
  <2>6. ~Greatest(rest)
    <3> SUFFICES ASSUME NEW m \in rest, \A n \in rest : n <= m PROVE FALSE
      OBVIOUS
    <3>1. m \in Nat /\ x \in Nat /\ m \in T /\ \A n \in T : n = x \/ n <= m
      BY <2>2
    <3>2. CASE m <= x
      BY <2>2, <3>1, <3>2
    <3>3. CASE ~(m <= x)
      BY <2>2, <3>1, <3>3
    <3> QED
      BY <3>2, <3>3
  <2> HIDE DEF Greatest
  <2>7. Cardinality(rest) \in Nat
    BY <2>4, FS_CardinalityType
  <2>8. k - 1 \in Sizes
    BY <2>4, <2>5, <2>6, <2>7
  <2> QED
    BY <2>1, <2>4, <2>8
<1> QED
  BY <1>1, <1>2

\* A finite set of rows that is not empty has one of a highest revision.
LEMMA HighestExists ==
  ASSUME NEW rows, IsFiniteSet(rows), rows # {}, \A f \in rows : f.revision \in Nat
  PROVE  \E f \in rows : \A g \in rows : g.revision <= f.revision
<1> DEFINE revisions == {f.revision : f \in rows}
           revision == [f \in rows |-> f.revision]
<1>1. revision \in Surjection(rows, revisions)
  BY DEF Surjection
<1>2. IsFiniteSet(revisions)
  BY <1>1, FS_Surjection
<1>3. revisions \in SUBSET Nat /\ revisions # {}
  OBVIOUS
<1> HIDE DEF revisions
<1>4. PICK m \in revisions : \A n \in revisions : n <= m
  BY <1>2, <1>3, GreatestExists
<1> QED
  BY <1>4 DEF revisions

-------------------------------------------------------------------------------
(* The dictionary of the reference holds what the ranking finds. *)

LEMMA DictionaryIsRanking ==
  ASSUME StoreInv, NEW known, NEW f
  PROVE  f \in {Revisions(known)[key] : key \in DOMAIN Revisions(known)}
           <=> /\ f \in facts /\ f.known <= known
               /\ \A g \in facts : g.known <= known /\ g.source = f.source /\ g.id = f.id
                                    => g.revision <= f.revision
<1> DEFINE rows == {g \in facts : g.known <= known}
           of(key) == {g \in rows : <<g.source, g.id>> = key}
           Top(key, g) == g \in of(key) /\ \A h \in of(key) : h.revision <= g.revision
<1>1. \A g \in facts : g.revision \in Nat
  BY DEF StoreInv, FactsInv, StoredVersion
<1>2. DOMAIN Revisions(known) = {<<g.source, g.id>> : g \in rows}
  BY DEF Revisions
<1>3. \A key \in DOMAIN Revisions(known) :
        Revisions(known)[key] = CHOOSE g \in of(key) : \A h \in of(key) : h.revision <= g.revision
  BY DEF Revisions
<1>4. ASSUME NEW key \in DOMAIN Revisions(known) PROVE Top(key, Revisions(known)[key])
  <2>1. of(key) # {}
    BY <1>2
  <2>2. IsFiniteSet(of(key))
    BY FS_Subset DEF StoreInv, FactsInv
  <2> DEFINE some == of(key)
  <2>3. \A g \in some : g.revision \in Nat
    BY <1>1
  <2> HIDE DEF some
  <2>4. \E g \in some : \A h \in some : h.revision <= g.revision
    BY <2>1, <2>2, <2>3, HighestExists DEF some
  <2> QED
    BY <1>3, <2>4 DEF some
<1>5. ASSUME NEW key, NEW g, NEW h, Top(key, g), Top(key, h) PROVE g = h
  <2>1. g.revision = h.revision /\ g.source = h.source /\ g.id = h.id
    BY <1>1, <1>5
  <2> QED
    BY <1>5, <2>1 DEF StoreInv, FactsInv, Identity
<1>6. ASSUME f \in rows, Top(<<f.source, f.id>>, f)
      PROVE  f \in {Revisions(known)[key] : key \in DOMAIN Revisions(known)}
  <2>1. <<f.source, f.id>> \in DOMAIN Revisions(known)
    BY <1>2, <1>6
  <2> QED
    BY <1>4, <1>5, <1>6, <2>1
<1>7. ASSUME NEW key \in DOMAIN Revisions(known), f = Revisions(known)[key]
      PROVE  f \in rows /\ Top(<<f.source, f.id>>, f)
  BY <1>4, <1>7
<1> QED
  BY <1>6, <1>7

\* Selected, of one person, is what the query sees of that person.
LEMMA SelectedIsVisible ==
  ASSUME StoreInv, NEW p, NEW known
  PROVE  {f \in Selected(known) : f.person = p} = Visible(facts, p, known)
<1> SUFFICES ASSUME NEW f
             PROVE  f \in Selected(known) /\ f.person = p <=> f \in Visible(facts, p, known)
  OBVIOUS
<1> DEFINE Top == /\ f \in facts /\ f.known <= known
                  /\ \A g \in facts : g.known <= known /\ g.source = f.source /\ g.id = f.id
                                       => g.revision <= f.revision
<1>1. f \in Selected(known) <=> Top /\ ~f.retracted
  BY DictionaryIsRanking DEF Selected
<1>2. Top /\ f.person = p <=> f \in Ranked(facts, p, known)
  BY DEF Ranked, KnownOf, StoreInv, FactsInv
<1> QED
  BY <1>1, <1>2 DEF Visible

\* What is visible of anybody is finite and well formed.
LEMMA VisibleRows ==
  ASSUME StoreInv, NEW p, NEW known
  PROVE  /\ IsFiniteSet(Visible(facts, p, known))
         /\ \A f \in Visible(facts, p, known) : f.effective \in Nat /\ f.value \in FactValue
<1>1. Visible(facts, p, known) \subseteq facts
  BY DEF Visible, Ranked, KnownOf
<1> QED
  BY <1>1, FS_Subset DEF StoreInv, FactsInv, StoredVersion

-------------------------------------------------------------------------------
(* One person's features, from what is visible of it: the parts of the reference, *)
(* by the names they have there.                                                  *)

Last(visible, clock) ==
  LET profiles == {f \in visible : f.source = "profile" /\ f.effective <= clock}
  IN  {f \in profiles : ~ \E g \in profiles : g.effective > f.effective}

States(visible, clock) == {f.value : f \in Last(visible, clock)}

State(states) ==
  CASE states = {} -> "missing"
    [] Cardinality(states) = 1 -> CHOOSE s \in states : TRUE
    [] OTHER -> "ambiguous"

Events(visible, clock) ==
  {f \in visible : f.source = "activity" /\ f.value = "qualified" /\ f.effective <= clock}

Recent(visible, clock, window) ==
  {f \in Events(visible, clock) : clock - window < f.effective}

Times(visible, clock, rules) ==
  {f.effective : f \in visible}
  \union {f.effective + rules.engaged_window : f \in Events(visible, clock)}
  \union {f.effective + rules.quiet_window : f \in Events(visible, clock)}

\* The last profiles, and what they say.
LEMMA SameProfile ==
  ASSUME NEW visible, IsFiniteSet(visible), \A f \in visible : f.effective \in Nat,
         NEW clock
  PROVE  /\ ProfileNow(visible, clock) = Last(visible, clock)
         /\ ProfileState(visible, clock) = State(States(visible, clock))
<1>1. ProfileNow(visible, clock) = Last(visible, clock)
  BY DEF ProfileNow, Last
<1>2. IsFiniteSet(States(visible, clock))
  <2> DEFINE value == [f \in Last(visible, clock) |-> f.value]
  <2>1. value \in Surjection(Last(visible, clock), States(visible, clock))
    BY DEF Surjection, States
  <2>2. IsFiniteSet(Last(visible, clock))
    BY FS_Subset DEF Last
  <2> QED
    BY <2>1, <2>2, FS_Surjection
<1> DEFINE states == States(visible, clock)
<1>3. {f.value : f \in ProfileNow(visible, clock)} = states
  BY <1>1 DEF States
<1>4. Cardinality(states) \in Nat /\ (Cardinality(states) = 0 <=> states = {})
  BY <1>2, FS_CardinalityType, FS_EmptySet
<1> HIDE DEF states
<1>5. ProfileState(visible, clock)
        = IF states = {} THEN "missing"
          ELSE IF Cardinality(states) > 1 THEN "ambiguous"
          ELSE CHOOSE s \in states : TRUE
  BY <1>3 DEF ProfileState
<1>6. ProfileState(visible, clock) = State(states)
  <2>1. CASE states = {}
    <3>1. Cardinality(states) # 1
      BY <1>4, <2>1
    <3> QED
      BY <1>5, <2>1, <3>1 DEF State
  <2>2. CASE states # {} /\ Cardinality(states) = 1
    BY <1>5, <2>2 DEF State
  <2>3. CASE states # {} /\ Cardinality(states) # 1
    BY <1>4, <1>5, <2>3 DEF State
  <2> QED
    BY <2>1, <2>2, <2>3
<1> QED
  BY <1>1, <1>6 DEF states

\* The events of a window, and the boundaries after now.
LEMMA SameEvents ==
  ASSUME NEW visible, \A f \in visible : f.effective \in Nat,
         NEW clock \in Nat, NEW rules \in RuleSet
  PROVE  /\ \A w : Within(visible, clock, w) = Recent(visible, clock, w)
         /\ Within(visible, clock, Wider(rules))
              = Recent(visible, clock, rules.engaged_window)
                  \union Recent(visible, clock, rules.quiet_window)
         /\ Boundaries(visible, clock, rules) = {t \in Times(visible, clock, rules) : t > clock}
<1>1. rules.engaged_window \in Nat /\ rules.quiet_window \in Nat
  BY DEF RuleSet
<1>2. Events(visible, clock) = {f \in Qualified(visible) : f.effective <= clock}
  BY DEF Qualified, Events
<1>3. \A w : Within(visible, clock, w) = Recent(visible, clock, w)
  BY <1>2 DEF Within, Recent
<1>4. Within(visible, clock, Wider(rules))
        = Recent(visible, clock, rules.engaged_window)
            \union Recent(visible, clock, rules.quiet_window)
  <2>1. \A f \in Events(visible, clock) : f.effective \in Nat
    BY DEF Events
  <2>2. \A f \in Events(visible, clock) : clock - Wider(rules) < f.effective
          <=> \/ clock - rules.engaged_window < f.effective
              \/ clock - rules.quiet_window < f.effective
    BY <1>1, <2>1 DEF Wider
  <2> QED
    BY <1>3, <2>2 DEF Recent
<1>5. Boundaries(visible, clock, rules) = {t \in Times(visible, clock, rules) : t > clock}
  <2> SUFFICES ASSUME NEW t
               PROVE  t \in Boundaries(visible, clock, rules)
                        <=> t \in Times(visible, clock, rules) /\ t > clock
    OBVIOUS
  <2> DEFINE windows == {rules.engaged_window, rules.quiet_window}
  <2>1. t \in Times(visible, clock, rules)
          <=> \/ \E f \in visible : t = f.effective
              \/ \E f \in Events(visible, clock), w \in windows : t = f.effective + w
    BY DEF Times
  <2>2. (\E f \in Qualified(visible), w \in windows :
           f.effective <= clock /\ t = f.effective + w /\ t > clock)
        <=> (\E f \in Events(visible, clock), w \in windows : t = f.effective + w) /\ t > clock
    BY <1>2
  <2> QED
    BY <2>1, <2>2, BoundaryMember
<1> QED
  BY <1>3, <1>4, <1>5

\* The feature SQL and the reference evaluator agree on every person, time, knowledge
\* and ruleset: whatever was restated, retracted, moved, future-dated or arrived out
\* of order (features.sql:2-32, oracle.py).
THEOREM QueryIsOracle == StoreSpec => []EvaluationIsOracle
<1>1. StoreInv => EvaluationIsOracle
  <2> SUFFICES ASSUME StoreInv, NEW p \in Person, NEW clock \in 0..Horizon,
                      NEW known \in 0..head, NEW rules \in Rules
               PROVE  Features(facts, p, clock, known, rules)
                        = OracleFeatures(p, clock, known, rules)
    BY DEF EvaluationIsOracle
  <2> DEFINE visible == Visible(facts, p, known)
  <2>1. clock \in Nat /\ rules \in RuleSet
    BY OracleAssumption
  <2>2. {f \in Selected(known) : f.person = p} = visible
    BY SelectedIsVisible
  <2>3. IsFiniteSet(visible) /\ \A f \in visible : f.effective \in Nat
    BY VisibleRows
  <2>4. Features(facts, p, clock, known, rules)
          = [profile_state |-> ProfileState(visible, clock),
             engaged_events |-> Cardinality(Within(visible, clock, rules.engaged_window)),
             quiet_events |-> Cardinality(Within(visible, clock, rules.quiet_window)),
             next_due |-> Earliest(Boundaries(visible, clock, rules)),
             evidence |-> ProfileNow(visible, clock)
                            \union Within(visible, clock, Wider(rules))]
    BY DEF Features
  <2> HIDE DEF visible
  <2>5. OracleFeatures(p, clock, known, rules)
          = [profile_state |-> State(States(visible, clock)),
             engaged_events |-> Cardinality(Recent(visible, clock, rules.engaged_window)),
             quiet_events |-> Cardinality(Recent(visible, clock, rules.quiet_window)),
             next_due |-> Earliest({t \in Times(visible, clock, rules) : t > clock}),
             evidence |-> Last(visible, clock)
                            \union Recent(visible, clock, rules.engaged_window)
                            \union Recent(visible, clock, rules.quiet_window)]
    BY <2>2 DEF OracleFeatures, State, States, Last, Recent, Events, Times
  <2>6. /\ ProfileNow(visible, clock) = Last(visible, clock)
        /\ ProfileState(visible, clock) = State(States(visible, clock))
    BY <2>3, SameProfile
  <2>7. /\ \A w : Within(visible, clock, w) = Recent(visible, clock, w)
        /\ Within(visible, clock, Wider(rules))
             = Recent(visible, clock, rules.engaged_window)
                 \union Recent(visible, clock, rules.quiet_window)
        /\ Boundaries(visible, clock, rules) = {t \in Times(visible, clock, rules) : t > clock}
    BY <2>1, <2>3, SameEvents
  <2> QED
    BY <2>4, <2>5, <2>6, <2>7
<1> QED
  BY <1>1, StoreInvHolds, PTL

-------------------------------------------------------------------------------
(* The coverage gate. *)

\* At most one assertion is in force, and one is when any is known.
LEMMA OneInForce ==
  ASSUME StoreInv, NEW known
  PROVE  /\ {a \in coverage : a.known <= known} # {} => InForce(coverage, known) # {}
         /\ \A a, b \in InForce(coverage, known) : a = b
         /\ InForce(coverage, known) \subseteq {a \in coverage : a.known <= known}
<1> DEFINE assertions == {a \in coverage : a.known <= known}
<1>1. IsFiniteSet(assertions) /\ \A a \in coverage : a.revision \in Nat
  BY FS_Subset DEF StoreInv, CoverageInv, StoredAssertion
<1>2. InForce(coverage, known)
        = {a \in assertions : \A b \in assertions : b.revision <= a.revision}
  BY DEF InForce
<1>3. ASSUME assertions # {} PROVE InForce(coverage, known) # {}
  <2> DEFINE some == assertions
  <2>1. IsFiniteSet(some) /\ some # {} /\ \A a \in some : a.revision \in Nat
    BY <1>1, <1>3
  <2> HIDE DEF some
  <2>2. \E a \in some : \A b \in some : b.revision <= a.revision
    BY <2>1, HighestExists
  <2> QED
    BY <1>2, <2>2 DEF some
<1>4. ASSUME NEW a \in InForce(coverage, known), NEW b \in InForce(coverage, known)
      PROVE  a = b
  <2>1. a.revision = b.revision
    BY <1>1, <1>2
  <2> QED
    BY <1>2, <2>1 DEF StoreInv, CoverageInv
<1> QED
  BY <1>2, <1>3, <1>4

\* The coverage gate is the reference's (coverage.py:20-31).
THEOREM CoverageIsOracle == StoreSpec => []GateIsOracle
<1>1. StoreInv => GateIsOracle
  <2> SUFFICES ASSUME StoreInv, NEW clock \in 0..Horizon, NEW known \in 0..head,
                      NEW rules \in Rules
               PROVE  Covered(coverage, clock, known, rules.quiet_window)
                        <=> OracleCovered(clock, known, rules.quiet_window)
    BY DEF GateIsOracle
  <2> DEFINE window == rules.quiet_window
             assertions == {a \in coverage : a.known <= known}
  <2>1. CASE assertions = {}
    BY <2>1, OneInForce DEF Covered, OracleCovered
  <2>2. CASE assertions # {}
    <3> DEFINE latest == CHOOSE a \in assertions :
                           \A b \in assertions : b.revision <= a.revision
    <3>1. InForce(coverage, known)
            = {a \in assertions : \A b \in assertions : b.revision <= a.revision}
      BY DEF InForce
    <3>2. latest \in InForce(coverage, known)
      <4>1. PICK a \in InForce(coverage, known) : TRUE
        BY <2>2, OneInForce
      <4>2. a \in assertions /\ \A b \in assertions : b.revision <= a.revision
        BY <3>1, <4>1
      <4>3. latest \in assertions /\ \A b \in assertions : b.revision <= latest.revision
        BY <4>2
      <4> HIDE DEF latest
      <4> QED
        BY <3>1, <4>3
    <3>3. OracleCovered(clock, known, window)
            <=> ~latest.retracted /\ latest.after <= clock - window /\ clock <= latest.through
      BY <2>2 DEF OracleCovered
    <3> HIDE DEF latest
    <3>4. InForce(coverage, known) = {latest}
      BY <3>2, OneInForce
    <3>5. latest.through \in Nat /\ clock \in Nat
      BY <3>2, OneInForce, OracleAssumption DEF StoreInv, CoverageInv, StoredAssertion
    <3> QED
      BY <3>3, <3>4, <3>5 DEF Covered, Reaches
  <2> QED
    BY <2>1, <2>2
<1> QED
  BY <1>1, StoreInvHolds, PTL

\* The gate does not change before the time it announces, and does change then
\* (coverage.py:33-37).
THEOREM GateAnnouncesItsTurns == StoreSpec => []GateTurnsWhenDue
<1>1. StoreInv => GateTurnsWhenDue
  <2> SUFFICES ASSUME StoreInv, NEW clock \in 0..Horizon, NEW rules \in Rules
               PROVE  LET Open(t) == Covered(coverage, t, head, rules.quiet_window)
                          due == CoverageDue(coverage, clock, head, rules.quiet_window)
                      IN  /\ \A later \in clock..Horizon :
                                due = 0 \/ later < due => Open(later) = Open(clock)
                          /\ due # 0 => Open(due) # Open(clock)
    BY DEF GateTurnsWhenDue
  <2> DEFINE window == rules.quiet_window
             Open(t) == Covered(coverage, t, head, window)
             turns == {t \in UNION {{a.after + window, Ends(a)} :
                                      a \in {b \in InForce(coverage, head) :
                                               ~b.retracted /\ b.after + window <= b.through}} :
                         t > clock}
             due == CoverageDue(coverage, clock, head, window)
             Turns == /\ \A later \in clock..Horizon :
                           due = 0 \/ later < due => Open(later) = Open(clock)
                      /\ due # 0 => Open(due) # Open(clock)
  <2>1. clock \in Nat /\ window \in Nat /\ due = Earliest(turns)
    BY OracleAssumption DEF RuleSet, CoverageDue
  <2>0. \A t : Open(t) \in BOOLEAN
    BY DEF Covered
  <2>2. ASSUME ~ \E a \in InForce(coverage, head) :
                   ~a.retracted /\ a.after + window <= a.through
        PROVE  Turns
    <3>1. turns = {}
      BY <2>2
    <3>2. due = 0
      BY <2>1, <3>1 DEF Earliest
    <3>3. \A t \in Nat : ~Open(t)
      <4>1. \A a \in InForce(coverage, head) : a.after \in Nat /\ a.through \in Nat
        BY DEF InForce, StoreInv, CoverageInv, StoredAssertion
      <4> QED
        BY <2>1, <2>2, <4>1 DEF Covered, Reaches
    <3>4. \A later \in clock..Horizon : later \in Nat
      BY <2>1
    <3> HIDE DEF Open
    <3> QED
      BY <2>0, <2>1, <3>2, <3>3, <3>4
  <2>3. ASSUME NEW a \in InForce(coverage, head), ~a.retracted, a.after + window <= a.through
        PROVE  Turns
    <3>1. InForce(coverage, head) = {a} /\ a.after \in Nat /\ a.through \in Nat
      BY OneInForce DEF StoreInv, CoverageInv, StoredAssertion
    <3>2. \A t \in Nat : Open(t) <=> a.after + window <= t /\ t <= a.through
      BY <2>1, <2>3, <3>1 DEF Covered, Reaches
    <3>3. turns = {t \in {a.after + window, a.through + 1} : t > clock}
      BY <2>3, <3>1 DEF Ends
    <3> HIDE DEF turns, due, Open
    <3>4. turns \in SUBSET (Nat \ {0})
      BY <2>1, <3>1, <3>3
    <3>5. turns = {} => due = 0
      BY <2>1 DEF Earliest
    <3>6. turns # {} => due \in turns /\ \A t \in turns : due <= t
      BY <2>1, <3>4, LeastExists DEF Earliest
    <3>7. CASE clock < a.after + window
      <4>1. due = a.after + window
        BY <2>1, <2>3, <3>1, <3>3, <3>6, <3>7
      <4> QED
        BY <2>0, <2>1, <2>3, <3>1, <3>2, <3>7, <4>1
    <3>8. CASE ~(clock < a.after + window) /\ clock < a.through + 1
      <4>1. due = a.through + 1
        BY <2>1, <2>3, <3>1, <3>3, <3>6, <3>8
      <4> QED
        BY <2>0, <2>1, <2>3, <3>1, <3>2, <3>8, <4>1
    <3>9. CASE ~(clock < a.after + window) /\ ~(clock < a.through + 1)
      <4>1. due = 0
        BY <2>1, <3>1, <3>3, <3>5, <3>9
      <4> QED
        BY <2>0, <2>1, <2>3, <3>1, <3>2, <3>9, <4>1
    <3> QED
      BY <3>7, <3>8, <3>9
  <2> QED
    BY <2>2, <2>3
<1> QED
  BY <1>1, StoreInvHolds, PTL

-------------------------------------------------------------------------------
(* Knowledge and time. *)

\* No batch, whatever it restates, corrects or retracts, changes an evaluation at an
\* earlier knowledge, nor the coverage gate there (store.py:62-68,84-90): a published
\* generation can be recomputed at any later time.
THEOREM KnowledgeStaysFinal == StoreSpec => KnowledgeIsFinal
<1> DEFINE Final ==
      \A known \in 0..head, clock \in 0..Horizon, rules \in Rules :
        /\ \A p \in Person :
             Features(facts', p, clock, known, rules) = Features(facts, p, clock, known, rules)
        /\ Covered(coverage', clock, known, rules.quiet_window)
             = Covered(coverage, clock, known, rules.quiet_window)
<1>1. StoreInv /\ [StoreNext]_storeVars => [Final]_storeVars
  <2> SUFFICES ASSUME StoreInv, StoreNext,
                      NEW known \in 0..head, NEW clock \in 0..Horizon, NEW rules \in Rules
               PROVE  /\ \A p \in Person : Features(facts', p, clock, known, rules)
                                             = Features(facts, p, clock, known, rules)
                      /\ Covered(coverage', clock, known, rules.quiet_window)
                           = Covered(coverage, clock, known, rules.quiet_window)
    OBVIOUS
  <2>1. CASE \E batch \in Batches : Ingest(batch)
    <3>1. PICK batch \in Batches : Ingest(batch)
      BY <2>1
    <3>2. \A p \in Person : KnownOf(facts', p, known) = KnownOf(facts, p, known)
      BY <3>1, IngestKeepsKnown
    <3>3. coverage' = coverage
      BY <3>1 DEF Ingest
    <3>4. QED
      BY <3>2, <3>3, FeaturesRestOnKnown
  <2>2. CASE \E a \in Asserted : IngestCoverage(a)
    <3>1. PICK a \in Asserted : IngestCoverage(a)
      BY <2>2
    <3>2. InForce(coverage', known) = InForce(coverage, known)
      BY <3>1, CoverageKeepsInForce
    <3>3. facts' = facts
      BY <3>1 DEF IngestCoverage
    <3>4. QED
      BY <3>2, <3>3, GateRestsOnInForce
  <2>3. CASE IngestAgain
    BY <2>3 DEF IngestAgain, storeVars
  <2>4. QED
    BY <2>1, <2>2, <2>3 DEF StoreNext
<1>2. QED
  BY <1>1, StoreInvHolds, PTL DEF StoreSpec, KnowledgeIsFinal

\* At fixed knowledge a person is, at every time before its timer is due, exactly as
\* it was: whatever the facts, late, corrected, future-dated or withdrawn, no build
\* has to look at a person that is not due (features.sql:11-17, engine.py:63-65).
THEOREM NothingChangesEarly == StoreSpec => []NothingChangesBeforeDue
<1>1. StoreInv => NothingChangesBeforeDue
  <2> SUFFICES ASSUME StoreInv, NEW p \in Person, NEW clock \in 0..Horizon,
                      NEW rules \in Rules, NEW later \in clock..Horizon,
                      \/ Features(facts, p, clock, head, rules).next_due = 0
                      \/ later < Features(facts, p, clock, head, rules).next_due
               PROVE  Features(facts, p, later, head, rules)
                        = Features(facts, p, clock, head, rules)
    BY DEF NothingChangesBeforeDue
  <2>1. clock \in Nat /\ later \in Nat /\ clock <= later /\ rules \in RuleSet
    BY OracleAssumption
  <2>2. QED
    BY <2>1, FeaturesHoldUntilDue DEF StoreInv, FactsInv, StoredVersion
<1>2. QED
  BY <1>1, StoreInvHolds, PTL
===============================================================================
