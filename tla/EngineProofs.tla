------------------------------ MODULE EngineProofs ------------------------------
(***************************************************************************)
(* For every store, ruleset and number of builds: a generation, however    *)
(* little of it was evaluated anew, equals a full evaluation of what was   *)
(* known, for ever; and the bundles of the current ones form one chain.    *)
(*                                                                         *)
(* Reuse is sound for two reasons that StoreProofs states: a person no     *)
(* fact has arrived about since has the same visible rows, and a person    *)
(* whose timer is not due has the same features.  The invariant says the   *)
(* first of every stored generation, not only of the active one, since a   *)
(* later batch must not reach into any of them.                            *)
(*                                                                         *)
(* A destination that is fed the bundles shows the audiences of the chain  *)
(* one after the other.  Its place in the chain is its number of receipts; *)
(* so the proof counts the current generations, and the k-th of them stays *)
(* the k-th however many follow.                                           *)
(***************************************************************************)
EXTENDS Projection, StoreProofs, SequenceTheorems

\* A stored generation: what was asked, and that each row is what an evaluation of its
\* person gives.
Sound(g) ==
  /\ g.known \in 0..head /\ g.clock \in Nat /\ g.rules \in Rules
  /\ g.mode \in {"current", "historical"}
  /\ DOMAIN g.people = Everyone(g.known)
  /\ \A p \in Everyone(g.known) :
       /\ g.people[p].features = Features(facts, p, g.clock, g.known, g.rules)
       /\ g.people[p].membership = SegmentsOf(g.people[p].features, g.rules)
       /\ g.people[p].evaluated_at \in 0..g.clock
  /\ g.activation = Gated(Members(g.people), g.clock, g.known, g.rules)

\* The current generation stored last is the active one.
ActiveInv ==
  /\ active \in Published \union {0}
  /\ \A id \in Published : id <= active

EngineInv ==
  /\ StoreInv
  /\ \E S : generations \in Seq(S)
  /\ \A id \in DOMAIN generations : \A g : g = generations[id] => Sound(g)
  /\ ActiveInv

-------------------------------------------------------------------------------
(* The list of generations. *)

LEMMA GenerationsAreListed ==
  ASSUME EngineInv
  PROVE  /\ Len(generations) \in Nat /\ DOMAIN generations = 1..Len(generations)
         /\ Published \subseteq 1..Len(generations)
         /\ active \in 0..Len(generations)
         /\ active # 0 => active \in DOMAIN generations
<1>1. PICK S : generations \in Seq(S)
  BY DEF EngineInv
<1>2. Len(generations) \in Nat /\ DOMAIN generations = 1..Len(generations)
  BY <1>1
<1> QED
  BY <1>2 DEF EngineInv, ActiveInv, Published

LEMMA AppendedGeneration ==
  ASSUME EngineInv, NEW g, generations' = Append(generations, g)
  PROVE  /\ \E S : generations' \in Seq(S)
         /\ Len(generations') = Len(generations) + 1
         /\ DOMAIN generations' = DOMAIN generations \union {Len(generations) + 1}
         /\ generations'[Len(generations) + 1] = g
         /\ \A id \in DOMAIN generations : generations'[id] = generations[id]
<1>1. PICK S : generations \in Seq(S)
  BY DEF EngineInv
<1> DEFINE T == S \union {g}
<1>2. generations \in Seq(T) /\ g \in T
  BY <1>1, SeqMonotonic
<1> HIDE DEF T
<1>3. generations' \in Seq(T)
  BY <1>2
<1> QED
  BY <1>2, <1>3

-------------------------------------------------------------------------------
(* Sound generations stay sound whatever the store learns. *)

LEMMA KnownPersons ==
  ASSUME NEW known, NEW p
  PROVE  p \in Everyone(known) <=> KnownOf(facts, p, known) # {}
BY DEF Everyone, KnownOf

LEMMA KnowledgeKept ==
  ASSUME StoreInv, StoreNext, NEW known \in 0..head
  PROVE  /\ known \in 0..head'
         /\ \A p : KnownOf(facts', p, known) = KnownOf(facts, p, known)
         /\ InForce(coverage', known) = InForce(coverage, known)
<1>0. head \in Nat
  BY DEF StoreInv
<1>1. ASSUME NEW batch \in Batches, Ingest(batch)
      PROVE  /\ head' = head + 1 /\ coverage' = coverage
             /\ \A p : KnownOf(facts', p, known) = KnownOf(facts, p, known)
  BY <1>1, IngestKeepsKnown DEF Ingest
<1>2. ASSUME NEW a \in Asserted, IngestCoverage(a)
      PROVE  /\ head' = head + 1 /\ facts' = facts
             /\ InForce(coverage', known) = InForce(coverage, known)
  BY <1>2, CoverageKeepsInForce DEF IngestCoverage
<1>3. CASE IngestAgain
  BY <1>3 DEF IngestAgain, storeVars
<1> QED
  BY <1>0, <1>1, <1>2, <1>3 DEF StoreNext

\* A generation that was sound stays sound: later batches are not known to it.
LEMMA SoundKept ==
  ASSUME StoreInv, StoreNext \/ UNCHANGED storeVars, NEW g, Sound(g)
  PROVE  Sound(g)'
<1> DEFINE known == g.known
<1>1. known \in 0..head
  BY DEF Sound
<1>2. /\ known \in 0..head'
      /\ \A p : KnownOf(facts', p, known) = KnownOf(facts, p, known)
      /\ InForce(coverage', known) = InForce(coverage, known)
  <2>1. CASE StoreNext
    BY <1>1, <2>1, KnowledgeKept
  <2>2. CASE UNCHANGED storeVars
    BY <1>1, <2>2 DEF storeVars
  <2> QED
    BY <2>1, <2>2
<1> HIDE DEF known
<1>3. Everyone(known)' = Everyone(known)
  <2>1. ASSUME NEW p PROVE p \in Everyone(known)' <=> p \in Everyone(known)
    <3>1. p \in Everyone(known)' <=> KnownOf(facts', p, known) # {}
      BY DEF Everyone, KnownOf
    <3> QED
      BY <1>2, <3>1, KnownPersons
  <2> QED
    BY <2>1
<1>4. \A p : Features(facts, p, g.clock, known, g.rules)'
               = Features(facts, p, g.clock, known, g.rules)
  BY <1>2, FeaturesRestOnKnown
<1>5. Covered(coverage, g.clock, known, g.rules.quiet_window)'
        = Covered(coverage, g.clock, known, g.rules.quiet_window)
  BY <1>2, GateRestsOnInForce
<1>6. Gated(Members(g.people), g.clock, known, g.rules)'
        = Gated(Members(g.people), g.clock, known, g.rules)
  BY <1>5 DEF Gated, Members
<1> QED
  BY <1>2, <1>3, <1>4, <1>6 DEF Sound, known

-------------------------------------------------------------------------------
(* A build. *)

\* The result of a build, and what of the engine it leaves as it was.
LEMMA BuildResult ==
  ASSUME EngineInv, NEW clock \in 0..MaxClock, NEW known \in 0..MaxBatches, NEW rules \in Rules,
         NEW mode \in {"current", "historical"}, NEW force \in BOOLEAN,
         Build(clock, known, rules, mode, force)
  PROVE  LET people == People(clock, known, rules, IsFull(rules, mode, force))
             id == Len(generations) + 1
         IN  /\ clock \in Nat /\ known \in 0..head /\ known \in Nat
             /\ mode = "current" => /\ known = head
                                    /\ active # 0 => generations[active].clock <= clock
             /\ DOMAIN generations' = DOMAIN generations \union {id}
             /\ generations'[id] = Result(clock, known, rules, mode, people)
             /\ \A i \in DOMAIN generations : generations'[i] = generations[i]
             /\ \E S : generations' \in Seq(S)
             /\ active' = IF mode = "current" THEN id ELSE active
             /\ UNCHANGED storeVars
<1> DEFINE people == People(clock, known, rules, IsFull(rules, mode, force))
           result == Result(clock, known, rules, mode, people)
<1>1. clock \in Nat /\ known \in Nat /\ head \in Nat
  BY EngineAssumption, StoreAssumption DEF EngineInv, StoreInv
<1>2. /\ known <= head
      /\ mode = "current" => /\ known = head
                             /\ active # 0 => generations[active].clock <= clock
  BY DEF Build, BuildAllowed
<1>3. generations' = Append(generations, result) /\ UNCHANGED storeVars
  BY DEF Build
<1> HIDE DEF result
<1>4. /\ \E S : generations' \in Seq(S)
      /\ Len(generations') = Len(generations) + 1
      /\ DOMAIN generations' = DOMAIN generations \union {Len(generations) + 1}
      /\ generations'[Len(generations) + 1] = result
      /\ \A i \in DOMAIN generations : generations'[i] = generations[i]
  BY <1>3, AppendedGeneration
<1>5. active' = IF mode = "current" THEN Len(generations) + 1 ELSE active
  BY <1>4 DEF Build, TakesEffect
<1> QED
  BY <1>1, <1>2, <1>3, <1>4, <1>5 DEF result

\* Every time a person's features are due is a number.
LEMMA DueIsNumber ==
  ASSUME StoreInv, NEW p, NEW clock \in Nat, NEW known, NEW rules \in RuleSet
  PROVE  Features(facts, p, clock, known, rules).next_due \in Nat
<1> DEFINE visible == Visible(facts, p, known)
<1>1. \A f \in visible : f.effective \in Nat
  BY DEF Visible, Ranked, KnownOf, StoreInv, FactsInv, StoredVersion
<1>2. \A w \in {rules.engaged_window, rules.quiet_window} : w \in Nat
  BY DEF RuleSet
<1> HIDE DEF visible
<1>3. Boundaries(visible, clock, rules) \in SUBSET Nat
  BY <1>1, <1>2 DEF Boundaries, Starts, Qualified
<1>4. Earliest(Boundaries(visible, clock, rules)) \in Nat
  BY <1>3, LeastExists DEF Earliest
<1> QED
  BY <1>4 DEF Features, visible

\* A kept row is what an evaluation would give: nothing arrived about its person, and
\* its timer is not due.
LEMMA KeptRowIsFresh ==
  ASSUME StoreInv, NEW g, Sound(g), NEW p \in Everyone(g.known),
         NEW clock \in Nat, g.clock <= clock, NEW known \in Nat, g.known <= known,
         \A f \in facts : f.person = p => ~(g.known < f.known /\ f.known <= known),
         LET due == g.people[p].features.next_due IN ~(due # 0 /\ due <= clock)
  PROVE  Features(facts, p, clock, known, g.rules) = g.people[p].features
<1>1. g.clock \in Nat /\ g.known \in Nat /\ g.rules \in RuleSet
  BY EngineAssumption DEF Sound, StoreInv
<1>2. g.people[p].features = Features(facts, p, g.clock, g.known, g.rules)
  BY DEF Sound
<1>3. \A f \in facts : f.known \in Nat /\ f.effective \in Nat
  BY DEF StoreInv, FactsInv, StoredVersion
<1>4. KnownOf(facts, p, g.known) = KnownOf(facts, p, known)
  BY <1>1, <1>3 DEF KnownOf
<1>5. Features(facts, p, clock, g.known, g.rules) = Features(facts, p, clock, known, g.rules)
  BY <1>4, FeaturesRestOnKnown
<1> DEFINE due == Features(facts, p, g.clock, g.known, g.rules).next_due
<1>6. due \in Nat /\ ~(due # 0 /\ due <= clock)
  BY <1>1, <1>2, DueIsNumber
<1> HIDE DEF due
<1>7. due = 0 \/ clock < due
  BY <1>6
<1>8. Features(facts, p, clock, g.known, g.rules)
        = Features(facts, p, g.clock, g.known, g.rules)
  BY <1>1, <1>3, <1>7, FeaturesHoldUntilDue DEF due
<1> QED
  BY <1>2, <1>5, <1>8

\* Whoever is built, from scratch or from the active generation, is everyone known, and
\* each row is what an evaluation gives.
LEMMA PeopleAreEvaluated ==
  ASSUME EngineInv, NEW clock \in Nat, NEW known \in Nat, known <= head, NEW rules \in Rules,
         NEW mode \in {"current", "historical"}, NEW force \in BOOLEAN,
         mode = "current" => /\ known = head
                             /\ active # 0 => generations[active].clock <= clock
  PROVE  LET people == People(clock, known, rules, IsFull(rules, mode, force))
         IN  /\ DOMAIN people = Everyone(known)
             /\ \A p \in Everyone(known) :
                  /\ people[p].features = Features(facts, p, clock, known, rules)
                  /\ people[p].membership = SegmentsOf(people[p].features, rules)
                  /\ people[p].evaluated_at \in 0..clock
<1> DEFINE people == People(clock, known, rules, IsFull(rules, mode, force))
           Right == /\ DOMAIN people = Everyone(known)
                    /\ \A p \in Everyone(known) :
                         /\ people[p].features = Features(facts, p, clock, known, rules)
                         /\ people[p].membership = SegmentsOf(people[p].features, rules)
                         /\ people[p].evaluated_at \in 0..clock
<1>1. \A p : /\ Evaluate(p, clock, known, rules).features
                  = Features(facts, p, clock, known, rules)
             /\ Evaluate(p, clock, known, rules).membership
                  = SegmentsOf(Evaluate(p, clock, known, rules).features, rules)
             /\ Evaluate(p, clock, known, rules).evaluated_at \in 0..clock
  BY DEF Evaluate
<1>2. ASSUME IsFull(rules, mode, force) PROVE Right
  <2>1. people = [p \in Everyone(known) |-> Evaluate(p, clock, known, rules)]
    BY <1>2 DEF People
  <2> HIDE DEF people
  <2> QED
    BY <1>1, <2>1
<1>3. ASSUME ~IsFull(rules, mode, force) PROVE Right
  <2> DEFINE old == generations[active]
             impacted == Changed(known) \union Due(clock)
  <2>1. mode = "current" /\ active # 0 /\ old.rules = rules
    BY <1>3 DEF IsFull
  <2>2. Sound(old) /\ active \in DOMAIN generations
    BY <2>1, GenerationsAreListed DEF EngineInv
  <2>3. /\ old.known \in Nat /\ old.known <= known /\ old.clock <= clock
        /\ DOMAIN old.people = Everyone(old.known)
    BY <2>1, <2>2 DEF Sound, EngineInv, StoreInv
  <2>4. \A f \in facts : f.known \in Nat
    BY DEF EngineInv, StoreInv, FactsInv, StoredVersion
  <2>5. Changed(known) = {f.person : f \in {g \in facts : old.known < g.known /\ g.known <= known}}
    BY DEF Changed, Newer
  <2>6. Due(clock) = {p \in Everyone(old.known) :
                        LET due == old.people[p].features.next_due
                        IN  due # 0 /\ due <= clock}
    BY <2>3 DEF Due, IsDue
  <2>7. people = [p \in impacted \union (Everyone(old.known) \ impacted) |->
                    IF p \in impacted THEN Evaluate(p, clock, known, rules) ELSE old.people[p]]
    BY <1>3, <2>3 DEF People
  <2>8. Everyone(known) = Changed(known) \union Everyone(old.known)
    BY <2>3, <2>4, <2>5 DEF Everyone
  <2>9. impacted \union (Everyone(old.known) \ impacted) = Everyone(known)
    BY <2>6, <2>8
  <2>10. ASSUME NEW p \in Everyone(known), p \notin impacted
         PROVE  /\ old.people[p].features = Features(facts, p, clock, known, rules)
                /\ old.people[p].membership = SegmentsOf(old.people[p].features, rules)
                /\ old.people[p].evaluated_at \in 0..clock
    <3>1. p \in Everyone(old.known)
      BY <2>8, <2>10
    <3>2. \A f \in facts : f.person = p => ~(old.known < f.known /\ f.known <= known)
      BY <2>5, <2>10
    <3>3. LET due == old.people[p].features.next_due IN ~(due # 0 /\ due <= clock)
      BY <2>6, <2>10, <3>1
    <3> HIDE DEF old
    <3>4. Features(facts, p, clock, known, old.rules) = old.people[p].features
      BY <2>2, <2>3, <3>1, <3>2, <3>3, KeptRowIsFresh DEF EngineInv
    <3> QED
      BY <2>1, <2>2, <2>3, <3>1, <3>4 DEF Sound
  <2> HIDE DEF people, impacted, old
  <2> QED
    BY <1>1, <2>7, <2>9, <2>10
<1> QED
  BY <1>2, <1>3

LEMMA BuildKeepsInv ==
  ASSUME EngineInv, NEW clock \in 0..MaxClock, NEW known \in 0..MaxBatches, NEW rules \in Rules,
         NEW mode \in {"current", "historical"}, NEW force \in BOOLEAN,
         Build(clock, known, rules, mode, force)
  PROVE  EngineInv'
<1> DEFINE people == People(clock, known, rules, IsFull(rules, mode, force))
           id == Len(generations) + 1
           g == Result(clock, known, rules, mode, people)
<1>1. /\ clock \in Nat /\ known \in 0..head /\ known \in Nat
      /\ mode = "current" => /\ known = head
                             /\ active # 0 => generations[active].clock <= clock
      /\ DOMAIN generations' = DOMAIN generations \union {id}
      /\ generations'[id] = g
      /\ \A i \in DOMAIN generations : generations'[i] = generations[i]
      /\ \E S : generations' \in Seq(S)
      /\ active' = IF mode = "current" THEN id ELSE active
      /\ UNCHANGED storeVars
  BY BuildResult
<1>2. /\ DOMAIN people = Everyone(known)
      /\ \A p \in Everyone(known) :
           /\ people[p].features = Features(facts, p, clock, known, rules)
           /\ people[p].membership = SegmentsOf(people[p].features, rules)
           /\ people[p].evaluated_at \in 0..clock
  BY <1>1, PeopleAreEvaluated
<1>3. /\ g.mode = mode /\ g.clock = clock /\ g.known = known /\ g.rules = rules
      /\ g.people = people
      /\ g.activation = Gated(Members(people), clock, known, rules)
  BY DEF Result
<1>4. Sound(g)
  <2> HIDE DEF g, people
  <2> QED
    BY <1>1, <1>2, <1>3 DEF Sound
<1> HIDE DEF g, people
<1>5. StoreInv'
  BY <1>1, StoreStepInv DEF EngineInv
<1>6. ASSUME NEW i \in DOMAIN generations', NEW h, h = generations'[i] PROVE Sound(h)'
  <2>1. h = g \/ (i \in DOMAIN generations /\ h = generations[i])
    BY <1>1, <1>6
  <2>2. Sound(h)
    BY <1>4, <2>1 DEF EngineInv
  <2> QED
    BY <1>1, <2>2, SoundKept DEF EngineInv
<1>7. ActiveInv'
  <2>1. /\ Len(generations) \in Nat /\ DOMAIN generations = 1..Len(generations)
        /\ active \in 0..Len(generations)
    BY GenerationsAreListed
  <2>2. CASE mode = "current"
    <3>1. Published' = Published \union {id} /\ active' = id
      BY <1>1, <1>3, <2>2 DEF Published
    <3>2. Published \subseteq 1..Len(generations)
      BY <2>1 DEF Published
    <3> QED
      BY <2>1, <3>1, <3>2 DEF ActiveInv
  <2>3. CASE mode = "historical"
    <3>1. Published' = Published /\ active' = active
      <4>1. id \notin DOMAIN generations
        BY <2>1
      <4> QED
        BY <1>1, <1>3, <2>3, <4>1 DEF Published
    <3> QED
      BY <3>1 DEF EngineInv, ActiveInv
  <2> QED
    BY <2>2, <2>3
<1> QED
  BY <1>1, <1>5, <1>6, <1>7 DEF EngineInv

LEMMA EngineInitInv == EngineInit => EngineInv
<1> SUFFICES ASSUME EngineInit PROVE EngineInv
  OBVIOUS
<1>1. generations \in Seq({}) /\ DOMAIN generations = {}
  BY DEF EngineInit
<1> QED
  BY <1>1, StoreInitInv DEF EngineInit, EngineInv, ActiveInv, Published

LEMMA EngineStepInv == EngineInv /\ [EngineNext]_engineVars => EngineInv'
<1> SUFFICES ASSUME EngineInv, [EngineNext]_engineVars PROVE EngineInv'
  OBVIOUS
<1>1. ASSUME StoreNext \/ UNCHANGED storeVars, UNCHANGED <<generations, active>>
      PROVE  EngineInv'
  <2>1. StoreInv'
    BY <1>1, StoreStepInv DEF EngineInv
  <2>2. ASSUME NEW i \in DOMAIN generations, NEW h, h = generations[i] PROVE Sound(h)'
    BY <1>1, <2>2, SoundKept DEF EngineInv
  <2> QED
    BY <1>1, <2>1, <2>2 DEF EngineInv, ActiveInv, Published
<1>2. ASSUME NEW clock \in 0..MaxClock, NEW known \in 0..MaxBatches, NEW rules \in Rules,
             NEW mode \in {"current", "historical"}, NEW force \in BOOLEAN,
             Build(clock, known, rules, mode, force)
      PROVE  EngineInv'
  BY <1>2, BuildKeepsInv
<1>3. CASE BuildAgain \/ UNCHANGED engineVars
  BY <1>1, <1>3 DEF BuildAgain, engineVars, storeVars
<1> QED
  BY <1>1, <1>2, <1>3 DEF EngineNext

LEMMA EngineInvHolds == EngineSpec => []EngineInv
BY EngineInitInv, EngineStepInv, PTL DEF EngineSpec

\* Every stored generation, whatever was reused for it and whatever arrived since,
\* equals a full evaluation of what was known to it at its time (engine.py:54-72).
THEOREM IncrementalEqualsFull == EngineSpec => []GenerationsAreReproducible
<1>1. ASSUME EngineInv, NEW id \in DOMAIN generations
      PROVE  LET g == generations[id]
                 fresh == [p \in Everyone(g.known) |-> Evaluate(p, g.clock, g.known, g.rules)]
             IN  /\ DOMAIN g.people = DOMAIN fresh
                 /\ \A p \in DOMAIN fresh :
                      /\ g.people[p].features = fresh[p].features
                      /\ g.people[p].membership = fresh[p].membership
                 /\ g.activation = Gated(Members(fresh), g.clock, g.known, g.rules)
  <2> DEFINE g == generations[id]
             fresh == [p \in Everyone(g.known) |-> Evaluate(p, g.clock, g.known, g.rules)]
  <2>1. Sound(g)
    BY <1>1 DEF EngineInv
  <2> HIDE DEF g
  <2>2. \A p \in Everyone(g.known) :
          /\ fresh[p].features = Features(facts, p, g.clock, g.known, g.rules)
          /\ fresh[p].membership = SegmentsOf(fresh[p].features, g.rules)
    BY DEF Evaluate
  <2>3. DOMAIN fresh = Everyone(g.known)
    OBVIOUS
  <2> HIDE DEF fresh
  <2>4. /\ DOMAIN g.people = DOMAIN fresh
        /\ \A p \in DOMAIN fresh : /\ g.people[p].features = fresh[p].features
                                   /\ g.people[p].membership = fresh[p].membership
    BY <2>1, <2>2, <2>3 DEF Sound
  <2>5. Members(g.people) = Members(fresh)
    BY <2>4 DEF Members
  <2> QED
    BY <2>1, <2>4, <2>5 DEF Sound, g, fresh
<1>2. EngineInv => GenerationsAreReproducible
  BY <1>1 DEF GenerationsAreReproducible
<1> QED
  BY <1>2, EngineInvHolds, PTL

-------------------------------------------------------------------------------
(* The bundles of the current generations form one chain. *)

\* A stored generation names persons of its own only.
LEMMA ActivationIsOfPeople ==
  ASSUME NEW g, Sound(g)
  PROVE  /\ g.activation \subseteq Segment \X DOMAIN g.people
         /\ \A m \in g.activation : m[2] \in DOMAIN g.people
BY DEF Sound, Gated, Members

\* What a bundle of the chain is: the property for one generation.
Linked(id) ==
  LET g       == generations[id]
      earlier == {i \in Published : i < id}
  IN  /\ g.parent \in earlier \union {0}
      /\ \A i \in earlier : i <= g.parent
      /\ g.before = ActivationOf(g.parent)
      /\ \A i \in earlier : generations[i].clock <= g.clock /\ generations[i].known <= g.known
      /\ \A m \in g.before : m[2] \in DOMAIN g.people

LEMMA ChainIsLinked == BundlesFormAChain <=> \A id \in Published : Linked(id)
BY DEF BundlesFormAChain, Linked

\* A generation appended leaves the links of the older ones as they are.
LEMMA LinksAreKept ==
  ASSUME EngineInv, BundlesFormAChain,
         DOMAIN generations' = DOMAIN generations \union {Len(generations) + 1},
         \A i \in DOMAIN generations : generations'[i] = generations[i],
         NEW id \in Published
  PROVE  id \in Published' /\ Linked(id)'
<1>1. /\ Len(generations) \in Nat /\ DOMAIN generations = 1..Len(generations)
      /\ Published \subseteq 1..Len(generations)
  BY GenerationsAreListed
<1>2. {i \in Published : i < id}' = {i \in Published : i < id}
  BY <1>1 DEF Published
<1>3. Linked(id) /\ generations'[id] = generations[id]
  BY <1>1, ChainIsLinked
<1>4. /\ generations[id].parent \in {i \in Published : i < id} \union {0}
      /\ generations[id].before = ActivationOf(generations[id].parent)
  BY <1>3 DEF Linked
<1>5. ASSUME NEW parent, parent = generations[id].parent
      PROVE  ActivationOf(parent)' = ActivationOf(parent)
  BY <1>1, <1>4, <1>5 DEF ActivationOf
<1>6. \A i \in Published : generations'[i] = generations[i]
  BY <1>1
<1> DEFINE before == ActivationOf(generations[id].parent)
<1>7. ActivationOf(generations[id].parent)' = before
  BY <1>3, <1>5 DEF ActivationOf
<1> QED
  BY <1>1, <1>2, <1>3, <1>4, <1>6, <1>7 DEF Linked, Published

\* A current build is linked to the active generation.
LEMMA BuildIsLinked ==
  ASSUME EngineInv, EngineInv', BundlesFormAChain,
         NEW clock \in 0..MaxClock, NEW known \in 0..MaxBatches, NEW rules \in Rules,
         NEW force \in BOOLEAN, Build(clock, known, rules, "current", force),
         NEW id, id = Len(generations) + 1
  PROVE  Published' = Published \union {id} /\ Linked(id)'
<1> DEFINE people == People(clock, known, rules, IsFull(rules, "current", force))
           g == Result(clock, known, rules, "current", people)
<1>1. /\ known = head /\ clock \in Nat
      /\ active # 0 => generations[active].clock <= clock
      /\ DOMAIN generations' = DOMAIN generations \union {id}
      /\ generations'[id] = g
      /\ \A i \in DOMAIN generations : generations'[i] = generations[i]
      /\ UNCHANGED storeVars
  BY BuildResult
<1>2. /\ g.mode = "current" /\ g.clock = clock /\ g.known = known /\ g.people = people
      /\ g.parent = active /\ g.before = ActivationOf(active)
  BY DEF Result, Base
<1> HIDE DEF g, people
<1>3. /\ Len(generations) \in Nat /\ DOMAIN generations = 1..Len(generations)
      /\ Published \subseteq 1..Len(generations)
      /\ active \in 0..Len(generations)
      /\ active # 0 => active \in DOMAIN generations
  BY GenerationsAreListed
<1>4. active \in Published \union {0} /\ \A i \in Published : i <= active
  BY DEF EngineInv, ActiveInv
<1>5. Published' = Published \union {id} /\ {i \in Published : i < id}' = Published
  <2>1. Published' = Published \union {id}
    BY <1>1, <1>2, <1>3 DEF Published
  <2>2. ~(id < id) /\ \A i \in Published : i < id
    BY <1>3
  <2>3. {i \in Published : i < id}' = {i \in Published' : i < id}
    OBVIOUS
  <2> QED
    BY <2>1, <2>2, <2>3
<1>6. ActivationOf(active) = IF active = 0 THEN {} ELSE generations'[active].activation
  BY <1>1, <1>3 DEF ActivationOf
<1>7. ASSUME NEW i \in Published
      PROVE  generations'[i].clock <= g.clock /\ generations'[i].known <= g.known
  <2>1. active \in Published /\ i <= active /\ active # 0
    BY <1>3, <1>4
  <2>2. i = active \/ (generations[i].clock <= generations[active].clock)
    BY <1>3, <2>1, ChainIsLinked DEF Linked
  <2>3. PICK h, a : h = generations[i] /\ a = generations[active]
    OBVIOUS
  <2>4. Sound(h) /\ Sound(a)
    BY <1>3, <2>1, <2>3 DEF EngineInv
  <2>5. h.clock \in Nat /\ a.clock \in Nat /\ h.known \in 0..head
    BY <2>4 DEF Sound
  <2>6. h.clock <= clock
    BY <1>1, <2>1, <2>2, <2>3, <2>5
  <2> QED
    BY <1>1, <1>2, <1>3, <2>3, <2>5, <2>6 DEF EngineInv, StoreInv
<1>8. ASSUME NEW m \in g.before PROVE m[2] \in DOMAIN g.people
  <2>1. active # 0 /\ m \in generations[active].activation
    BY <1>2, <1>8 DEF ActivationOf
  <2>2. PICK a : a = generations[active]
    OBVIOUS
  <2>3. Sound(a)
    BY <1>3, <2>1, <2>2 DEF EngineInv
  <2>4. m[2] \in Everyone(a.known) /\ a.known \in 0..head
    BY <2>1, <2>2, <2>3, ActivationIsOfPeople DEF Sound
  <2>5. m[2] \in Everyone(head)
    <3>1. \A f \in facts : f.known \in Nat
      BY DEF EngineInv, StoreInv, FactsInv, StoredVersion
    <3>2. head \in Nat
      BY DEF EngineInv, StoreInv
    <3> QED
      BY <2>4, <3>1, <3>2 DEF Everyone
  <2>6. PICK h : h = g
    OBVIOUS
  <2>7. Sound(h)'
    BY <1>1, <2>6 DEF EngineInv
  <2>8. DOMAIN h.people = Everyone(h.known)'
    BY <2>7 DEF Sound
  <2> QED
    BY <1>1, <1>2, <2>5, <2>6, <2>8 DEF Everyone, storeVars
<1> QED
  BY <1>1, <1>2, <1>3, <1>4, <1>5, <1>6, <1>7, <1>8 DEF Linked, ActivationOf

LEMMA ChainInit == EngineInit => BundlesFormAChain
BY DEF EngineInit, BundlesFormAChain, Published

LEMMA ChainStep ==
  EngineInv /\ EngineInv' /\ BundlesFormAChain /\ [EngineNext]_engineVars => BundlesFormAChain'
<1>0. (\A id \in Published : Linked(id))' => BundlesFormAChain'
  BY ChainIsLinked, PTL
<1> SUFFICES ASSUME EngineInv, EngineInv', BundlesFormAChain, [EngineNext]_engineVars
             PROVE  \A id \in Published' : Linked(id)'
  BY <1>0
<1>1. CASE UNCHANGED <<generations, active>>
  BY <1>1, ChainIsLinked DEF Linked, Published, ActivationOf
<1>2. ASSUME NEW clock \in 0..MaxClock, NEW known \in 0..MaxBatches, NEW rules \in Rules,
             NEW mode \in {"current", "historical"}, NEW force \in BOOLEAN,
             Build(clock, known, rules, mode, force)
      PROVE  \A id \in Published' : Linked(id)'
  <2>1. PICK id : id = Len(generations) + 1
    OBVIOUS
  <2> DEFINE people == People(clock, known, rules, IsFull(rules, mode, force))
             g == Result(clock, known, rules, mode, people)
  <2>2. /\ DOMAIN generations' = DOMAIN generations \union {id}
        /\ generations'[id] = g
        /\ \A i \in DOMAIN generations : generations'[i] = generations[i]
    BY <1>2, <2>1, BuildResult
  <2>3. g.mode = mode
    BY DEF Result
  <2> HIDE DEF g
  <2>4. \A i \in Published : Linked(i)'
    BY <2>1, <2>2, LinksAreKept
  <2>5. CASE mode = "current"
    BY <1>2, <2>1, <2>4, <2>5, BuildIsLinked
  <2>6. CASE mode = "historical"
    BY <2>2, <2>3, <2>4, <2>6 DEF Published
  <2> QED
    BY <2>5, <2>6
<1> QED
  BY <1>1, <1>2 DEF EngineNext, BuildAgain, engineVars

LEMMA ChainHolds == EngineSpec => [](EngineInv /\ BundlesFormAChain)
<1>1. EngineInit => BundlesFormAChain
  BY ChainInit
<1> QED
  BY <1>1, ChainStep, EngineInvHolds, PTL DEF EngineSpec

\* Whatever is built in between, forced, restated or retried, the bundles form one chain
\* in which each one starts from what the one before it activated (engine.py:49-53,74-98).
THEOREM OneChain == EngineSpec => []BundlesFormAChain
BY ChainHolds, PTL

-------------------------------------------------------------------------------
(* The destination. *)

LEMMA PublishedIsSound ==
  ASSUME EngineInv, NEW id \in Published
  PROVE  Sound(generations[id])
<1>1. PICK g : g = generations[id]
  OBVIOUS
<1>2. Sound(g)
  BY <1>1 DEF EngineInv, Published
<1> QED
  BY <1>1, <1>2

\* A bundle removes and adds what its generation says, each member once, and no decision
\* in it is newer than the bundle.
LEMMA BundleIsWellFormed ==
  ASSUME EngineInv, BundlesFormAChain, NEW id \in Published
  PROVE  LET b == BundleOf(id)
         IN  /\ WellFormed(b)
             /\ Targets(b, "add") = b.after \ b.before
             /\ Targets(b, "remove") = b.before \ b.after
             /\ b.after \subseteq Segment \X Person
             /\ b.before = ActivationOf(b.parent)
             /\ b.lineage = "own" /\ b.generation = id /\ b.parent = generations[id].parent
             /\ b.after = generations[id].activation
<1>1. PICK g : g = generations[id]
  OBVIOUS
<1> DEFINE b == BundleOf(id)
           decided(m) == IF m[1] = "quiet_trial" THEN g.clock ELSE g.people[m[2]].evaluated_at
<1>2. Sound(g) /\ Linked(id)
  BY <1>1, PublishedIsSound, ChainIsLinked
<1>3. /\ b.lineage = "own" /\ b.generation = id /\ b.parent = g.parent /\ b.valid_at = g.clock
      /\ b.before = g.before /\ b.after = g.activation /\ b.changes = ChangesOf(id)
  BY <1>1 DEF BundleOf
<1>4. b.changes = {[op |-> "remove", member |-> m, decided_at |-> decided(m)] :
                     m \in g.before \ g.activation}
                  \union {[op |-> "add", member |-> m, decided_at |-> decided(m)] :
                            m \in g.activation \ g.before}
  BY <1>1, <1>3 DEF ChangesOf
<1>5. \A m \in g.before \union g.activation : decided(m) <= g.clock
  <2>1. \A m \in g.before \union g.activation : m[2] \in DOMAIN g.people
    BY <1>1, <1>2, ActivationIsOfPeople DEF Linked
  <2> QED
    BY <1>2, <2>1 DEF Sound
<1>6. g.parent < id
  <2>1. id \in Nat \ {0} /\ Published \subseteq Nat
    BY GenerationsAreListed
  <2> QED
    BY <1>1, <1>2, <2>1 DEF Linked
<1> HIDE DEF b, decided
<1>7. WellFormed(b)
  BY <1>3, <1>4, <1>5, <1>6 DEF WellFormed
<1>8. /\ Targets(b, "add") = b.after \ b.before
      /\ Targets(b, "remove") = b.before \ b.after
  <2>1. \A op, m : m \in Targets(b, op) <=> \E c \in b.changes : c.op = op /\ c.member = m
    BY DEF Targets
  <2>2. \A c \in b.changes : \/ c.op = "remove" /\ c.member \in g.before \ g.activation
                             \/ c.op = "add" /\ c.member \in g.activation \ g.before
    BY <1>4
  <2>3. ASSUME NEW m \in g.before \ g.activation
        PROVE  \E c \in b.changes : c.op = "remove" /\ c.member = m
    <3>1. [op |-> "remove", member |-> m, decided_at |-> decided(m)] \in b.changes
      BY <1>4
    <3> QED
      BY <3>1
  <2>4. ASSUME NEW m \in g.activation \ g.before
        PROVE  \E c \in b.changes : c.op = "add" /\ c.member = m
    <3>1. [op |-> "add", member |-> m, decided_at |-> decided(m)] \in b.changes
      BY <1>4
    <3> QED
      BY <3>1
  <2> QED
    BY <1>3, <2>1, <2>2, <2>3, <2>4
<1>9. g.activation \subseteq Segment \X Person
  <2>1. DOMAIN g.people \subseteq Person
    BY <1>2 DEF Sound, Everyone, EngineInv, StoreInv, FactsInv, StoredVersion
  <2> QED
    BY <1>2, <2>1, ActivationIsOfPeople
<1> QED
  BY <1>1, <1>2, <1>3, <1>7, <1>8, <1>9 DEF Linked, b

ProjectionChain == EngineInv /\ BundlesFormAChain

LEMMA ProjectionChainHolds == ProjectionSpec => []ProjectionChain
<1>1. ProjectionInit => ProjectionChain
  BY EngineInitInv, ChainInit DEF ProjectionInit, ProjectionChain
<1>2. [ProjectionNext]_projectionVars => [EngineNext]_engineVars
  BY DEF ProjectionNext, projectionVars, engineVars
<1>3. ProjectionChain /\ [EngineNext]_engineVars => ProjectionChain'
  BY EngineStepInv, ChainStep DEF ProjectionChain
<1> QED
  BY <1>1, <1>2, <1>3, PTL DEF ProjectionSpec

\* As long as the destination holds the audience of its generation, the bundle that
\* follows is accepted by every check of its validation, and gives the audience that
\* bundle names (destination.py:32-61).
THEOREM NextIsTaken == ProjectionSpec => []NextBundleIsTaken
<1>1. ProjectionChain => NextBundleIsTaken
  <2> SUFFICES ASSUME ProjectionChain, lineage \in {"none", "own"},
                      members = ActivationOf(generation),
                      NEW id \in Published, generations[id].parent = generation
               PROVE  Acceptable(BundleOf(id)) /\ Patched(BundleOf(id)) = BundleOf(id).after
    BY DEF NextBundleIsTaken
  <2> DEFINE b == BundleOf(id)
  <2>1. /\ WellFormed(b)
        /\ Targets(b, "add") = b.after \ b.before
        /\ Targets(b, "remove") = b.before \ b.after
        /\ b.before = ActivationOf(b.parent)
        /\ b.lineage = "own" /\ b.parent = generation
    BY BundleIsWellFormed DEF ProjectionChain
  <2> HIDE DEF b
  <2>2. Acceptable(b)
    BY <2>1 DEF Acceptable, Follows
  <2>3. Patched(b) = b.after
    BY <2>1 DEF Patched
  <2> QED
    BY <2>2, <2>3 DEF b
<1> QED
  BY <1>1, ProjectionChainHolds, PTL

-------------------------------------------------------------------------------
(* Counting along a finite set of numbers. *)

UpTo(S, id) == {i \in S : i <= id}

LEMMA UpToMember ==
  ASSUME NEW S, NEW id, NEW i
  PROVE  i \in UpTo(S, id) <=> i \in S /\ i <= id
BY DEF UpTo

\* The number of members up to one of them; a later one has more.
LEMMA CountUpTo ==
  ASSUME NEW n \in Nat, NEW S \in SUBSET (1..n)
  PROVE  /\ IsFiniteSet(S) /\ Cardinality(S) \in Nat
         /\ \A id \in S : /\ IsFiniteSet(UpTo(S, id))
                          /\ Cardinality(UpTo(S, id)) \in 1..Cardinality(S)
         /\ \A i, j \in S : Cardinality(UpTo(S, i)) = Cardinality(UpTo(S, j)) => i = j
<1>0. \A i \in S : i \in Nat
  OBVIOUS
<1>1. IsFiniteSet(S)
  <2>1. IsFiniteSet(1..n)
    BY FS_Interval
  <2> QED
    BY <2>1, FS_Subset
<1>2. ASSUME NEW id \in S
      PROVE  /\ UpTo(S, id) \in SUBSET S /\ IsFiniteSet(UpTo(S, id))
             /\ Cardinality(UpTo(S, id)) \in 1..Cardinality(S)
  <2>1. UpTo(S, id) \in SUBSET S /\ id \in UpTo(S, id)
    BY <1>0 DEF UpTo
  <2>2. IsFiniteSet(UpTo(S, id)) /\ Cardinality(UpTo(S, id)) <= Cardinality(S)
    BY <1>1, <2>1, FS_Subset
  <2>3. Cardinality(UpTo(S, id)) # 0
    BY <2>1, <2>2, FS_EmptySet
  <2> QED
    BY <1>1, <2>1, <2>2, <2>3, FS_CardinalityType
<1>3. ASSUME NEW i \in S, NEW j \in S, i < j
      PROVE  Cardinality(UpTo(S, i)) # Cardinality(UpTo(S, j))
  <2>1. i \in Nat /\ j \in Nat /\ j <= j /\ ~(j <= i)
    BY <1>0, <1>3
  <2>2. \A k \in S : k <= i => k <= j
    BY <1>0, <1>3, <2>1
  <2>3. UpTo(S, i) \in SUBSET UpTo(S, j) /\ j \in UpTo(S, j) /\ j \notin UpTo(S, i)
    BY <2>1, <2>2, UpToMember
  <2> QED
    BY <1>2, <2>3, FS_Subset
<1>4. \A i, j \in S : i = j \/ i < j \/ j < i
  BY <1>0
<1> QED
  BY <1>1, <1>2, <1>3, <1>4, FS_CardinalityType

\* What a larger number changes when it is added: nothing up to the others.
LEMMA CountWithLast ==
  ASSUME NEW n \in Nat, NEW S \in SUBSET (1..n), NEW last, last = n + 1
  PROVE  /\ Cardinality(S \union {last}) = Cardinality(S) + 1
         /\ Cardinality(UpTo(S \union {last}, last)) = Cardinality(S) + 1
         /\ \A id \in S : UpTo(S \union {last}, id) = UpTo(S, id)
<1>1. last \in Nat /\ \A i \in S : i \in Nat /\ i < last
  OBVIOUS
<1>2. Cardinality(S \union {last}) = Cardinality(S) + 1
  <2>1. IsFiniteSet(S) /\ last \notin S
    BY <1>1, CountUpTo
  <2> QED
    BY <2>1, FS_AddElement
<1>3. UpTo(S \union {last}, last) = S \union {last}
  <2>1. \A i \in S \union {last} : i <= last
    BY <1>1
  <2> QED
    BY <2>1, UpToMember
<1>4. \A id \in S : UpTo(S \union {last}, id) = UpTo(S, id)
  BY <1>1 DEF UpTo
<1> QED
  BY <1>2, <1>3, <1>4

\* The member that follows another, or the first, counts one more.
LEMMA CountFollows ==
  ASSUME NEW n \in Nat, NEW S \in SUBSET (1..n), NEW id \in S, NEW parent \in S \union {0},
         parent < id, \A i \in S : i < id => i <= parent
  PROVE  /\ parent = 0 => Cardinality(UpTo(S, id)) = 1
         /\ parent # 0 => Cardinality(UpTo(S, id)) = Cardinality(UpTo(S, parent)) + 1
<1>1. \A i \in S : i \in Nat /\ 1 <= i
  OBVIOUS
<1>2. \A i \in S : i <= id <=> i <= parent \/ i = id
  BY <1>1
<1>3. UpTo(S, id) = UpTo(S, parent) \union {id} /\ id \notin UpTo(S, parent)
  <2>1. parent \in Nat /\ ~(id <= parent)
    BY <1>1
  <2>2. ASSUME NEW i PROVE i \in UpTo(S, id) <=> i \in UpTo(S, parent) \union {id}
    BY <1>2, UpToMember
  <2> QED
    BY <2>1, <2>2, UpToMember
<1>4. CASE parent = 0
  <2>1. \A i \in S : ~(i <= parent)
    BY <1>1, <1>4
  <2>2. UpTo(S, parent) = {}
    BY <2>1, UpToMember
  <2> QED
    BY <1>3, <1>4, <2>2, FS_Singleton
<1>5. CASE parent \in S
  <2>1. IsFiniteSet(UpTo(S, parent))
    BY <1>5, CountUpTo
  <2>2. ~(1 <= 0)
    OBVIOUS
  <2>3. parent # 0
    BY <1>1, <1>5, <2>2
  <2> QED
    BY <1>3, <2>1, <2>3, FS_AddElement
<1> QED
  BY <1>4, <1>5

\* Every number up to the size is the count of some member.
LEMMA CountsAreAll ==
  ASSUME NEW n \in Nat, NEW S \in SUBSET (1..n), NEW k \in 1..Cardinality(S)
  PROVE  \E id \in S : Cardinality(UpTo(S, id)) = k
<1> DEFINE f == [id \in S |-> Cardinality(UpTo(S, id))]
           T == 1..Cardinality(S)
<1>1. IsFiniteSet(T) /\ Cardinality(T) = Cardinality(S)
  <2>1. Cardinality(S) \in Nat
    BY CountUpTo
  <2> QED
    BY <2>1, FS_Interval
<1>2. f \in [S -> T]
  BY CountUpTo
<1>3. \A i, j \in S : f[i] = f[j] => i = j
  BY CountUpTo
<1> HIDE DEF f, T
<1>4. f \in Surjection(S, T)
  BY <1>1, <1>2, <1>3, FS_Injection DEF Injection, IsInjective
<1> QED
  BY <1>4 DEF Surjection, f, T

-------------------------------------------------------------------------------
(* The bundles, in their order, are the audiences of the promise. *)

History == [k \in 1..Cardinality(Published) |-> generations[Nth(k)].activation]
Position == IF lineage = "own" THEN Len(receipts) ELSE 0

\* Ranks number the published generations without a gap.
RanksAreDense ==
  /\ Cardinality(Published) \in Nat
  /\ \A id \in Published : Rank(id) \in 1..Cardinality(Published)
  /\ \A id \in Published : \A k : Rank(id) = k => Nth(k) = id
  /\ \A k \in 1..Cardinality(Published) : Nth(k) \in Published /\ Rank(Nth(k)) = k

LEMMA RankIsCount == \A id : Rank(id) = Cardinality(UpTo(Published, id))
BY DEF Rank, UpTo

LEMMA PublishedAreRanked == EngineInv => RanksAreDense
<1> SUFFICES ASSUME EngineInv PROVE RanksAreDense
  OBVIOUS
<1>1. Published \in SUBSET (1..Len(generations)) /\ Len(generations) \in Nat
  BY GenerationsAreListed
<1>2. /\ Cardinality(Published) \in Nat
      /\ \A id \in Published : Rank(id) \in 1..Cardinality(Published)
      /\ \A i, j \in Published : Rank(i) = Rank(j) => i = j
  BY <1>1, RankIsCount, CountUpTo
<1>3. ASSUME NEW k \in 1..Cardinality(Published)
      PROVE  \E id \in Published : Rank(id) = k
  BY <1>1, RankIsCount, CountsAreAll
<1>4. \A k \in 1..Cardinality(Published) : Nth(k) \in Published /\ Rank(Nth(k)) = k
  BY <1>3 DEF Nth
<1> QED
  BY <1>2, <1>4 DEF RanksAreDense

\* What a step of the engine does to what is published.
LEMMA EngineStepPublishes ==
  ASSUME EngineInv, [EngineNext]_engineVars, NEW last, last = Len(generations) + 1
  PROVE  /\ Published' = Published \/ Published' = Published \union {last}
         /\ \A id \in Published : generations'[id] = generations[id]
<1>1. Published \subseteq DOMAIN generations /\ last \notin DOMAIN generations
  BY GenerationsAreListed DEF Published
<1>2. CASE UNCHANGED <<generations, active>>
  BY <1>1, <1>2 DEF Published
<1>3. ASSUME NEW clock \in 0..MaxClock, NEW known \in 0..MaxBatches, NEW rules \in Rules,
             NEW mode \in {"current", "historical"}, NEW force \in BOOLEAN,
             Build(clock, known, rules, mode, force)
      PROVE  /\ Published' = Published \/ Published' = Published \union {last}
             /\ \A id \in Published : generations'[id] = generations[id]
  <2>1. /\ DOMAIN generations' = DOMAIN generations \union {last}
        /\ \A i \in DOMAIN generations : generations'[i] = generations[i]
    BY <1>3, BuildResult
  <2> QED
    BY <1>1, <2>1 DEF Published
<1> QED
  BY <1>2, <1>3 DEF EngineNext, BuildAgain, engineVars

\* A generation once published keeps its rank.
LEMMA RanksAreKept ==
  ASSUME EngineInv, [EngineNext]_engineVars, NEW id \in Published
  PROVE  id \in Published' /\ Rank(id)' = Rank(id)
<1>1. PICK last : last = Len(generations) + 1
  OBVIOUS
<1>2. Published \in SUBSET (1..Len(generations)) /\ Len(generations) \in Nat
  BY GenerationsAreListed
<1>3. Published' = Published \/ Published' = Published \union {last}
  BY <1>1, EngineStepPublishes
<1>4. UpTo(Published', id) = UpTo(Published, id)
  <2>1. UpTo(Published \union {last}, id) = UpTo(Published, id)
    BY <1>1, <1>2, CountWithLast
  <2> QED
    BY <1>3, <2>1
<1>5. Rank(id)' = Cardinality(UpTo(Published', id))
  BY DEF Rank, UpTo
<1> QED
  BY <1>3, <1>4, <1>5, RankIsCount

LEMMA HistoryIsSequence ==
  ASSUME EngineInv
  PROVE  /\ History \in Seq(SUBSET (Segment \X Person))
         /\ Len(History) = Cardinality(Published)
<1>1. Cardinality(Published) \in Nat
  BY PublishedAreRanked DEF RanksAreDense
<1>2. ASSUME NEW id \in Published
      PROVE  generations[id].activation \in SUBSET (Segment \X Person)
  <2>1. PICK g : g = generations[id]
    OBVIOUS
  <2>2. Sound(g)
    BY <2>1, PublishedIsSound
  <2>3. DOMAIN g.people \subseteq Person
    BY <2>2 DEF Sound, Everyone, EngineInv, StoreInv, FactsInv, StoredVersion
  <2> QED
    BY <2>1, <2>2, <2>3, ActivationIsOfPeople
<1>3. \A k \in 1..Cardinality(Published) : Nth(k) \in Published
  BY PublishedAreRanked DEF RanksAreDense
<1> QED
  BY <1>1, <1>2, <1>3 DEF History

\* A step of the engine publishes one more audience, or none.
LEMMA EngineStepIsPublish ==
  ASSUME EngineInv, EngineInv', [EngineNext]_engineVars
  PROVE  \/ History' = History
         \/ \E s \in SUBSET (Segment \X Person) : History' = Append(History, s)
<1>1. PICK last : last = Len(generations) + 1
  OBVIOUS
<1> DEFINE n == Cardinality(Published)
<1>2. /\ Published' = Published \/ Published' = Published \union {last}
      /\ \A id \in Published : generations'[id] = generations[id]
  BY <1>1, EngineStepPublishes
<1>3. n \in Nat /\ \A k \in 1..n : Nth(k) \in Published /\ Rank(Nth(k)) = k
  BY PublishedAreRanked DEF RanksAreDense
<1>4. RanksAreDense'
  BY PublishedAreRanked, PTL
<1>5. ASSUME NEW k \in 1..n PROVE generations'[Nth(k)'] = generations[Nth(k)]
  <2>1. PICK id : id = Nth(k)
    OBVIOUS
  <2>2. id \in Published /\ Rank(id) = k
    BY <1>3, <2>1
  <2>3. id \in Published' /\ Rank(id)' = k
    BY <2>2, RanksAreKept
  <2>4. Nth(k)' = id
    BY <1>4, <2>3 DEF RanksAreDense
  <2> QED
    BY <1>2, <2>1, <2>2, <2>4
<1>6. CASE Published' = Published
  <2>1. History' = [k \in 1..n |-> generations'[Nth(k)'].activation]
    BY <1>6 DEF History
  <2> QED
    BY <1>5, <2>1 DEF History
<1>7. CASE Published' = Published \union {last}
  <2>1. Cardinality(Published)' = n + 1
    BY <1>1, <1>7, GenerationsAreListed, CountWithLast
  <2>2. History' \in Seq(SUBSET (Segment \X Person)) /\ Len(History') = n + 1
    <3>1. (History \in Seq(SUBSET (Segment \X Person)) /\ Len(History) = Cardinality(Published))'
      BY HistoryIsSequence, PTL
    <3> QED
      BY <2>1, <3>1
  <2>3. History \in Seq(SUBSET (Segment \X Person)) /\ Len(History) = n
    BY HistoryIsSequence
  <2>4. ASSUME NEW k \in 1..n PROVE History'[k] = History[k]
    <3>1. k \in 1..(n + 1)
      BY <1>3
    <3> QED
      BY <1>5, <2>1, <3>1 DEF History
  <2> DEFINE s == History'[n + 1]
             new == History'
             old == History
  <2>5. s \in SUBSET (Segment \X Person)
    BY <1>3, <2>2
  <2> HIDE DEF n, s, new, old
  <2>6. new = Append(old, s)
    BY <1>3, <2>2, <2>3, <2>4 DEF new, old, s
  <2> QED
    BY <2>5, <2>6 DEF new, old
<1> QED
  BY <1>2, <1>6, <1>7

-------------------------------------------------------------------------------
(* The destination shows the audiences of the promise. *)

\* What the destination has taken: the bundles up to its generation's, or none of them.
Taken ==
  /\ members \subseteq Segment \X Person
  /\ \E S : receipts \in Seq(S)
  /\ lineage = "none" => generation = 0 /\ receipts = <<>>
  /\ lineage = "own" => generation \in Published /\ Len(receipts) = Rank(generation)

ProjectionInv == ProjectionChain /\ Taken

\* Applying a bundle of its own engine's store advances by one.
LEMMA OwnBundleAdvances ==
  ASSUME ProjectionInv, NEW id \in Published, Apply(BundleOf(id)), UNCHANGED engineVars
  PROVE  /\ Taken'
         /\ Position < Len(History)
         /\ members = IF Position = 0 THEN {} ELSE History[Position]
         /\ Position' = Position + 1
         /\ members' = History[Position + 1]
         /\ History' = History
<1> DEFINE b == BundleOf(id)
<1>1. /\ b.after \subseteq Segment \X Person
      /\ b.before = ActivationOf(b.parent)
      /\ b.lineage = "own" /\ b.generation = id /\ b.parent = generations[id].parent
      /\ b.after = generations[id].activation
  BY BundleIsWellFormed DEF ProjectionInv, ProjectionChain
<1>2. /\ lineage \in {"none", "own"} /\ generation = b.parent /\ members = b.before
      /\ members' = b.after /\ lineage' = "own" /\ generation' = id
      /\ receipts' = Append(receipts, id)
  BY <1>1 DEF Apply, Acceptable, Follows
<1> HIDE DEF b
<1>3. /\ Linked(id) /\ RanksAreDense /\ Len(History) = Cardinality(Published)
      /\ Published \in SUBSET (1..Len(generations)) /\ Len(generations) \in Nat
  BY ChainIsLinked, PublishedAreRanked, HistoryIsSequence, GenerationsAreListed
     DEF ProjectionInv, ProjectionChain
<1>4. /\ generation \in Published \union {0} /\ generation < id
      /\ \A i \in Published : i < id => i <= generation
  BY <1>1, <1>2, <1>3 DEF Linked
<1>5. Rank(id) = IF generation = 0 THEN 1 ELSE Rank(generation) + 1
  BY <1>3, <1>4, RankIsCount, CountFollows
<1>6. 0 \notin Published
  BY <1>3
<1>7. Position = IF generation = 0 THEN 0 ELSE Rank(generation)
  BY <1>2, <1>6 DEF Position, ProjectionInv, Taken
<1>8. Rank(id) \in 1..Cardinality(Published) /\ Cardinality(Published) \in Nat
      /\ \A i \in Published : Rank(i) \in 1..Cardinality(Published) /\ Nth(Rank(i)) = i
  BY <1>3 DEF RanksAreDense
<1>9. /\ Rank(id) = Position + 1 /\ Position \in Nat
      /\ Position = 0 <=> generation = 0
  BY <1>4, <1>5, <1>7, <1>8
<1>10. Len(receipts) = Position /\ \E S : receipts \in Seq(S)
  BY <1>2 DEF Position, ProjectionInv, Taken
<1>11. Len(receipts') = Rank(id) /\ \E S : receipts' \in Seq(S)
  <2>1. PICK S : receipts \in Seq(S)
    BY <1>10
  <2>2. receipts \in Seq(S \union {id})
    BY <2>1, SeqMonotonic
  <2> QED
    BY <1>2, <1>9, <1>10, <2>2
<1>12. /\ Published' = Published /\ History' = History /\ Rank(id)' = Rank(id)
       /\ \A i \in Published : History[Rank(i)] = generations[i].activation
  <2>1. generations' = generations
    BY DEF engineVars
  <2>2. Published' = Published
    BY <2>1 DEF Published
  <2>3. History' = History /\ Rank(id)' = Rank(id)
    BY <2>1, <2>2 DEF History, Nth, Rank
  <2>4. \A i \in Published : History[Rank(i)] = generations[i].activation
    BY <1>8 DEF History
  <2> QED
    BY <2>2, <2>3, <2>4
<1>13. Taken'
  <2>1. Rank(generation)' = Rank(id)
    BY <1>2, <1>12 DEF Rank
  <2> QED
    BY <1>1, <1>2, <1>11, <1>12, <2>1 DEF Taken
<1>14. Position' = Position + 1
  BY <1>2, <1>9, <1>11 DEF Position
<1>15. members = IF Position = 0 THEN {} ELSE History[Position]
  BY <1>1, <1>2, <1>4, <1>6, <1>7, <1>9, <1>12 DEF ActivationOf
<1> QED
  BY <1>1, <1>2, <1>3, <1>8, <1>9, <1>12, <1>13, <1>14, <1>15

\* Whatever does not apply a bundle of its own store shows nothing new.
LEMMA OthersDoNotAdvance ==
  ASSUME ProjectionInv, UNCHANGED engineVars,
         \/ \E bundle \in Foreign : Apply(bundle)
         \/ \E m \in Phantom : DestinationDrift(m)
  PROVE  /\ Taken'
         /\ History' = History /\ Position' = Position
         /\ members' \in SUBSET (Segment \X Person)
<1>1. generations' = generations /\ Published' = Published
  BY DEF engineVars, Published
<1>2. History' = History
  BY <1>1 DEF History, Nth, Rank
<1>3. CASE \E bundle \in Foreign : Apply(bundle)
  <2>1. PICK bundle \in Foreign : Apply(bundle)
    BY <1>3
  <2>2. bundle.lineage \notin {"none", "own"} /\ bundle.after \subseteq Segment \X Person
    BY ProjectionAssumption
  <2>3. /\ lineage # "own" /\ lineage' \notin {"none", "own"} /\ members' = bundle.after
        /\ receipts' = Append(receipts, bundle.generation)
    BY <2>1, <2>2 DEF Apply, Acceptable
  <2>4. \E S : receipts' \in Seq(S)
    <3>1. PICK S : receipts \in Seq(S)
      BY DEF ProjectionInv, Taken
    <3>2. receipts \in Seq(S \union {bundle.generation})
      BY <3>1, SeqMonotonic
    <3> QED
      BY <2>3, <3>2
  <2> QED
    BY <1>2, <2>2, <2>3, <2>4 DEF Taken, Position
<1>4. CASE \E m \in Phantom : DestinationDrift(m)
  <2>1. PICK m \in Phantom : DestinationDrift(m)
    BY <1>4
  <2>2. members' \subseteq Segment \X Person
    BY <2>1, ProjectionAssumption DEF DestinationDrift, ProjectionInv, Taken
  <2>3. UNCHANGED <<lineage, generation, receipts>>
    BY <2>1 DEF DestinationDrift
  <2>4. lineage = "own" => Rank(generation)' = Rank(generation)
    BY <1>1, <2>3 DEF Rank
  <2> QED
    BY <1>1, <1>2, <2>2, <2>3, <2>4 DEF ProjectionInv, Taken, Position
<1> QED
  BY <1>3, <1>4

\* A step of the engine leaves what is shown where it is.
LEMMA EngineStepShowsTheSame ==
  ASSUME ProjectionInv, [EngineNext]_engineVars, UNCHANGED destinationVars
  PROVE  Taken' /\ Position' = Position /\ members' = members
<1>1. UNCHANGED <<members, lineage, generation, receipts>>
  BY DEF destinationVars
<1>2. ASSUME lineage = "own" PROVE generation \in Published' /\ Rank(generation)' = Rank(generation)
  <2>1. PICK id : id = generation
    OBVIOUS
  <2>2. id \in Published' /\ Rank(id)' = Rank(id)
    BY <1>2, <2>1, RanksAreKept DEF ProjectionInv, ProjectionChain, Taken
  <2> QED
    BY <1>1, <2>1, <2>2 DEF Rank
<1> QED
  BY <1>1, <1>2 DEF ProjectionInv, Taken, Position

LEMMA TakenStep ==
  ProjectionInv /\ ProjectionChain' /\ [ProjectionNext]_projectionVars => ProjectionInv'
<1> SUFFICES ASSUME ProjectionInv, ProjectionChain', [ProjectionNext]_projectionVars
             PROVE  Taken'
  BY DEF ProjectionInv
<1>1. CASE [EngineNext]_engineVars /\ UNCHANGED destinationVars
  BY <1>1, EngineStepShowsTheSame
<1>2. ASSUME NEW id \in Published, Apply(BundleOf(id)), UNCHANGED engineVars PROVE Taken'
  BY <1>2, OwnBundleAdvances
<1>3. CASE /\ UNCHANGED engineVars
           /\ \/ \E bundle \in Foreign : Apply(bundle)
              \/ \E m \in Phantom : DestinationDrift(m)
  BY <1>3, OthersDoNotAdvance
<1> QED
  BY <1>1, <1>2, <1>3 DEF ProjectionNext, projectionVars

LEMMA ProjectionInvHolds == ProjectionSpec => []ProjectionInv
<1>1. ProjectionInit => Taken
  <2>1. <<>> \in Seq({})
    OBVIOUS
  <2> QED
    BY <2>1 DEF ProjectionInit, DestinationInit, Taken
<1> QED
  BY <1>1, TakenStep, ProjectionChainHolds, PTL DEF ProjectionSpec, ProjectionInv

\* The engine and the destination implement the promise: the audiences are shown one
\* after the other and as a whole, whatever order bundles arrive in and however often,
\* and what another store or a hand edit does is a disturbance (destination.py:56-81,
\* engine.py:78-98).
THEOREM AudiencesAreShownInTurn == ProjectionSpec => KeepsThePromise
<1>1. ProjectionInit => Promise!Init
  <2> SUFFICES ASSUME ProjectionInit PROVE Promise!Init
    OBVIOUS
  <2>1. Published = {} /\ Cardinality(Published) = 0
    BY FS_EmptySet DEF ProjectionInit, EngineInit, Published
  <2>2. History = <<>>
    BY <2>1 DEF History
  <2> QED
    BY <2>2 DEF ProjectionInit, DestinationInit, Promise!Init, History
<1>2. ASSUME ProjectionInv, ProjectionInv', [ProjectionNext]_projectionVars
      PROVE  [Promise!Next]_Promise!vars
  <2>1. CASE [EngineNext]_engineVars /\ UNCHANGED destinationVars
    <3>1. \/ History' = History
          \/ \E s \in SUBSET (Segment \X Person) : History' = Append(History, s)
      BY <1>2, <2>1, EngineStepIsPublish DEF ProjectionInv, ProjectionChain
    <3>2. Position' = Position /\ members' = members
      BY <1>2, <2>1, EngineStepShowsTheSame
    <3> QED
      BY <3>1, <3>2 DEF Promise!Next, Promise!Publish, Promise!vars, History, Position
  <2>2. ASSUME NEW id \in Published, Apply(BundleOf(id)), UNCHANGED engineVars
        PROVE  Promise!Advance
    <3>1. /\ Position < Len(History)
          /\ members = IF Position = 0 THEN {} ELSE History[Position]
          /\ Position' = Position + 1
          /\ members' = History[Position + 1]
          /\ History' = History
      BY <1>2, <2>2, OwnBundleAdvances
    <3>2. Position + 1 # 0
      BY <1>2, PublishedAreRanked DEF Position, ProjectionInv, ProjectionChain, Taken, RanksAreDense
    <3>3. members' = IF Position' = 0 THEN {} ELSE History[Position']
      BY <3>1, <3>2
    <3> QED
      BY <3>1, <3>3 DEF Promise!Advance, Promise!Audience, History, Position
  <2>3. CASE /\ UNCHANGED engineVars
             /\ \/ \E bundle \in Foreign : Apply(bundle)
                \/ \E m \in Phantom : DestinationDrift(m)
    <3>1. /\ History' = History /\ Position' = Position
          /\ members' \in SUBSET (Segment \X Person)
      BY <1>2, <2>3, OthersDoNotAdvance
    <3> QED
      BY <3>1 DEF Promise!Next, Promise!Disturb, History, Position
  <2> QED
    BY <1>2, <2>1, <2>2, <2>3 DEF ProjectionNext, projectionVars, Promise!Next
<1> QED
  BY <1>1, <1>2, ProjectionInvHolds, PTL
     DEF ProjectionSpec, KeepsThePromise, Promise!Spec

====
