------------------------------ MODULE BridgeProofs ------------------------------
(***************************************************************************)
(* For every set of offered facts, assertions and terms, every ruleset and *)
(* number of requests: what the operating layer publishes and lets a       *)
(* sender act on is what its own reference evaluation makes of the raw     *)
(* inbox; its journal is the one senders are checked with; and an alarm of *)
(* the audit, which reads without a lock, means that something moved.      *)
(*                                                                         *)
(* A row of the replayed store is a stated content and the batch that      *)
(* first stated it.  So what is known at a sequence is what the batches up *)
(* to it state, which no later batch changes; and as versions of a fact    *)
(* are of one person, ranking one person's rows or everybody's selects the *)
(* same.                                                                   *)
(*                                                                         *)
(* A person's revisions rise, so one is the highest, and the view and the  *)
(* reference find the same.  What the audit reads is a beginning of each   *)
(* table, since all of them only grow; nothing it compares differs unless  *)
(* one of them is longer by then.                                          *)
(***************************************************************************)
EXTENDS Audit, FiniteSetTheorems, SequenceTheorems, TLAPS

Batch == [kind: {"facts", "coverage"}, body: SUBSET (Offered \union Asserted)]

\* The admitted batches, and what they state taken together.
InboxInv ==
  /\ inbox \in Seq(Batch)
  /\ \A i \in DOMAIN inbox : IF inbox[i].kind = "facts" THEN inbox[i].body \subseteq Offered
                             ELSE inbox[i].body \subseteq Asserted
  /\ \A kind \in {"facts", "coverage"} :
       /\ IsFiniteSet(Stated(kind))
       /\ \A content \in Stated(kind) : \E i \in BatchesOf(kind) :
            /\ content \in inbox[i].body
            /\ \A j \in BatchesOf(kind) : content \in inbox[j].body => i <= j
  /\ \A f, g \in Stated("facts") :
       /\ f.source = g.source /\ f.id = g.id => f.person = g.person
       /\ f.source = g.source /\ f.id = g.id /\ f.revision = g.revision => f = g
  /\ \A a, b \in Stated("coverage") : a.revision = b.revision => a = b

\* The batch that brought something is the first that states it.
LEMMA BroughtByFirst ==
  ASSUME InboxInv, NEW kind \in {"facts", "coverage"}, NEW content \in Stated(kind)
  PROVE  LET i == BroughtBy(kind, content)
         IN  /\ i \in BatchesOf(kind) /\ content \in inbox[i].body
             /\ \A j \in BatchesOf(kind) : content \in inbox[j].body => i <= j
BY DEF BroughtBy, InboxInv

\* The batches up to a sequence.
First(batches, known) == SubSeq(batches, 1, IF known < Len(batches) THEN known ELSE Len(batches))

\* What they state is what was brought by one of them.
LEMMA RawIsBrought ==
  ASSUME InboxInv, NEW kind \in {"facts", "coverage"}, NEW known \in 0..Len(inbox), NEW content
  PROVE  content \in Raw(First(inbox, known), kind)
           <=> content \in Stated(kind) /\ BroughtBy(kind, content) <= known
<1> DEFINE first == First(inbox, known)
<1>1. /\ Len(inbox) \in Nat /\ DOMAIN inbox = 1..Len(inbox)
      /\ DOMAIN first = 1..known /\ \A i \in 1..known : first[i] = inbox[i]
  BY DEF First, InboxInv
<1> HIDE DEF first
<1>2. content \in Raw(first, kind)
        <=> \E i \in 1..known : inbox[i].kind = kind /\ content \in inbox[i].body
  BY <1>1 DEF Raw
<1>3. content \in Stated(kind)
        <=> \E i \in BatchesOf(kind) : content \in inbox[i].body
  BY DEF Stated
<1>4. BatchesOf(kind) \subseteq 1..Len(inbox)
  BY <1>1 DEF BatchesOf
<1>5. ASSUME NEW i \in 1..known, inbox[i].kind = kind, content \in inbox[i].body
      PROVE  content \in Stated(kind) /\ BroughtBy(kind, content) <= known
  <2>1. i \in BatchesOf(kind)
    BY <1>1, <1>5 DEF BatchesOf
  <2>2. content \in Stated(kind)
    BY <1>3, <1>5, <2>1
  <2>3. BroughtBy(kind, content) \in 1..Len(inbox) /\ BroughtBy(kind, content) <= i
    BY <1>4, <1>5, <2>1, <2>2, BroughtByFirst
  <2> QED
    BY <2>2, <2>3
<1>6. ASSUME content \in Stated(kind), BroughtBy(kind, content) <= known
      PROVE  \E i \in 1..known : inbox[i].kind = kind /\ content \in inbox[i].body
  <2>1. /\ BroughtBy(kind, content) \in BatchesOf(kind)
        /\ content \in inbox[BroughtBy(kind, content)].body
    BY <1>6, BroughtByFirst
  <2>2. BroughtBy(kind, content) \in 1..known /\ inbox[BroughtBy(kind, content)].kind = kind
    BY <1>4, <1>6, <2>1 DEF BatchesOf
  <2> QED
    BY <2>1, <2>2
<1> QED
  BY <1>2, <1>5, <1>6 DEF first

-------------------------------------------------------------------------------
(* The rows of the replayed store. *)

Stored(f) ==
  [source |-> f.source, id |-> f.id, revision |-> f.revision, person |-> f.person,
   effective |-> f.effective, value |-> f.value, retracted |-> f.retracted,
   known |-> BroughtBy("facts", f)]

StoredAssertion(a) ==
  [revision |-> a.revision, after |-> a.after, through |-> a.through,
   retracted |-> a.retracted, known |-> BroughtBy("coverage", a)]

\* What a batch states is offered, so it is well formed.
LEMMA StatedIsOffered ==
  ASSUME InboxInv
  PROVE  /\ Stated("facts") \subseteq Engine!FactVersion
         /\ Stated("coverage") \subseteq Engine!Assertion
<1>1. ASSUME NEW kind \in {"facts", "coverage"}, NEW content \in Stated(kind)
      PROVE  content \in IF kind = "facts" THEN Offered ELSE Asserted
  BY <1>1 DEF InboxInv, Stated, BatchesOf
<1> QED
  BY <1>1, BridgeAssumption

\* A row tells which content it stores.
LEMMA StoredParts ==
  ASSUME InboxInv, NEW f \in Stated("facts")
  PROVE  /\ Stored(f) \in Facts
         /\ Stored(f).source = f.source /\ Stored(f).id = f.id /\ Stored(f).revision = f.revision
         /\ Stored(f).person = f.person /\ Stored(f).effective = f.effective
         /\ Stored(f).value = f.value /\ Stored(f).retracted = f.retracted
         /\ Stored(f).known = BroughtBy("facts", f)
         /\ \A g \in Stated("facts") : Stored(f) = Stored(g) => f = g
<1>1. Stored(f) \in Facts
  BY DEF Stored, Facts
<1>2. /\ Stored(f).source = f.source /\ Stored(f).id = f.id /\ Stored(f).revision = f.revision
      /\ Stored(f).person = f.person /\ Stored(f).effective = f.effective
      /\ Stored(f).value = f.value /\ Stored(f).retracted = f.retracted
      /\ Stored(f).known = BroughtBy("facts", f)
  BY DEF Stored
<1>3. ASSUME NEW g \in Stated("facts"), Stored(f) = Stored(g) PROVE f = g
  <2>1. f.source = g.source /\ f.id = g.id /\ f.revision = g.revision
    BY <1>3 DEF Stored
  <2> QED
    BY <1>3, <2>1 DEF InboxInv
<1> QED
  BY <1>1, <1>2, <1>3

LEMMA FactsAreStored ==
  ASSUME NEW row
  PROVE  row \in Facts <=> \E f \in Stated("facts") : row = Stored(f)
BY DEF Facts, Stored

LEMMA CoverageIsStored ==
  ASSUME NEW row
  PROVE  row \in Coverage <=> \E a \in Stated("coverage") : row = StoredAssertion(a)
BY DEF Coverage, StoredAssertion

\* What is known, in the store, at a sequence is what the batches up to it state.
LEMMA KnownIsRaw ==
  ASSUME InboxInv, NEW known \in 0..Len(inbox)
  PROVE  /\ \A row : row \in Facts /\ row.known <= known
                       <=> \E f \in Raw(First(inbox, known), "facts") : row = Stored(f)
         /\ Raw(First(inbox, known), "facts") \subseteq Stated("facts")
<1> DEFINE raw == Raw(First(inbox, known), "facts")
<1>1. \A f : f \in raw <=> f \in Stated("facts") /\ BroughtBy("facts", f) <= known
  BY RawIsBrought
<1> HIDE DEF raw
<1>2. \A f \in Stated("facts") : Stored(f).known = BroughtBy("facts", f)
  BY StoredParts
<1>3. ASSUME NEW row
      PROVE  row \in Facts /\ row.known <= known <=> \E f \in raw : row = Stored(f)
  BY <1>1, <1>2, FactsAreStored
<1> QED
  BY <1>1, <1>3 DEF raw

\* The person's selection of the reference evaluator.
SelectedOf(batches, p) == {f \in Latest(batches) : ~f.retracted /\ f.person = p}

\* What the query sees of a person are the rows of what the reference selects of it.
LEMMA VisibleIsSelected ==
  ASSUME InboxInv, NEW known \in 0..Len(inbox), NEW p
  PROVE  /\ SelectedOf(First(inbox, known), p) \subseteq Stated("facts")
         /\ \A row : row \in Engine!Visible(Facts, p, known)
                       <=> \E f \in SelectedOf(First(inbox, known), p) : row = Stored(f)
<1> DEFINE raw == Raw(First(inbox, known), "facts")
           selected == SelectedOf(First(inbox, known), p)
<1>1. /\ raw \subseteq Stated("facts")
      /\ \A row : row \in Facts /\ row.known <= known <=> \E f \in raw : row = Stored(f)
  BY KnownIsRaw
<1>2. \A f : f \in selected <=> /\ f \in raw /\ ~f.retracted /\ f.person = p
                                /\ \A g \in raw : g.source = f.source /\ g.id = f.id
                                                    => g.revision <= f.revision
  BY DEF SelectedOf, Latest
<1> HIDE DEF raw, selected
<1> DEFINE Of(row) == row \in Facts /\ row.person = p /\ row.known <= known
<1>3. \A row : row \in Engine!Visible(Facts, p, known)
                 <=> /\ Of(row) /\ ~row.retracted
                     /\ \A other : Of(other) /\ other.source = row.source /\ other.id = row.id
                                     => other.revision <= row.revision
  BY DEF Engine!Visible, Engine!Ranked, Engine!KnownOf
<1>4. \A f \in raw : /\ Stored(f).source = f.source /\ Stored(f).id = f.id
                     /\ Stored(f).revision = f.revision /\ Stored(f).person = f.person
                     /\ Stored(f).retracted = f.retracted
  BY <1>1, StoredParts
<1>5. \A row : Of(row) <=> \E f \in raw : row = Stored(f) /\ f.person = p
  BY <1>1, <1>4
<1>6. ASSUME NEW f \in selected PROVE Stored(f) \in Engine!Visible(Facts, p, known)
  <2>1. /\ f \in raw /\ ~f.retracted /\ f.person = p
        /\ \A g \in raw : g.source = f.source /\ g.id = f.id => g.revision <= f.revision
    BY <1>2
  <2> HIDE DEF Of
  <2>2. Of(Stored(f))
    BY <1>5, <2>1
  <2>3. ASSUME NEW other, Of(other), other.source = f.source, other.id = f.id
        PROVE  other.revision <= f.revision
    BY <1>4, <1>5, <2>1, <2>3
  <2> QED
    BY <1>3, <1>4, <2>1, <2>2, <2>3
<1>7. ASSUME NEW row \in Engine!Visible(Facts, p, known)
      PROVE  \E f \in selected : row = Stored(f)
  <2> HIDE DEF Of
  <2>1. /\ Of(row) /\ ~row.retracted
        /\ \A other : Of(other) /\ other.source = row.source /\ other.id = row.id
                        => other.revision <= row.revision
    BY <1>3
  <2>2. PICK f \in raw : row = Stored(f) /\ f.person = p
    BY <1>5, <2>1
  <2>3. ASSUME NEW g \in raw, g.source = f.source, g.id = f.id PROVE g.revision <= f.revision
    <3>1. g.person = p
      BY <1>1, <2>2, <2>3 DEF InboxInv
    <3>2. Of(Stored(g))
      BY <1>5, <3>1
    <3> QED
      BY <1>4, <2>1, <2>2, <2>3, <3>2
  <2>4. f \in selected
    BY <1>2, <1>4, <2>1, <2>2, <2>3
  <2> QED
    BY <2>2, <2>4
<1> QED
  BY <1>1, <1>2, <1>6, <1>7 DEF selected

-------------------------------------------------------------------------------
(* One person's features, from the rows and from what the reference selects. *)

ProfilesOf(selected, at) == {f \in selected : f.source = "profile" /\ f.effective <= at}

StatesOf(selected, at) ==
  {f.value : f \in {g \in ProfilesOf(selected, at) :
                      \A h \in ProfilesOf(selected, at) : h.effective <= g.effective}}

EventsOf(selected, at, window) ==
  {f \in selected : /\ f.source = "activity" /\ f.value = "qualified"
                    /\ at - window < f.effective /\ f.effective <= at}

\* What is finite, and the number of its members, is the same in each instance.
LEMMA SameCount ==
  ASSUME NEW S
  PROVE  Engine!Cardinality(S) = Cardinality(S) /\ (Engine!IsFiniteSet(S) <=> IsFiniteSet(S))
BY DEF Engine!Cardinality, Cardinality, Engine!IsFiniteSet, IsFiniteSet

\* A state is trial where the set of states is the set of trial.
LEMMA OneState ==
  ASSUME NEW visible, NEW at,
         NEW states, states = {f.value : f \in Engine!ProfileNow(visible, at)},
         IsFiniteSet(states)
  PROVE  Engine!ProfileState(visible, at) = "trial" <=> states = {"trial"}
<1>1. Engine!ProfileState(visible, at)
        = IF states = {} THEN "missing"
          ELSE IF Cardinality(states) > 1 THEN "ambiguous"
          ELSE CHOOSE v \in states : TRUE
  <2> DEFINE values == {f.value : f \in Engine!ProfileNow(visible, at)}
  <2>1. Engine!ProfileState(visible, at)
          = IF values = {} THEN "missing"
            ELSE IF Engine!Cardinality(values) > 1 THEN "ambiguous"
            ELSE CHOOSE v \in values : TRUE
    BY Zenon DEF Engine!ProfileState
  <2>2. values = states
    OBVIOUS
  <2> HIDE DEF values
  <2>3. Engine!Cardinality(states) = Cardinality(states)
    BY Zenon, SameCount
  <2> QED
    BY Zenon, <2>1, <2>2, <2>3
<1>3. Cardinality(states) \in Nat /\ (Cardinality(states) = 0 <=> states = {})
  BY FS_CardinalityType, FS_EmptySet
<1>4. Cardinality({"trial"}) = 1 /\ (Cardinality(states) = 1 => \E x : states = {x})
  BY FS_Singleton
<1>5. CASE states = {} \/ Cardinality(states) > 1
  <2>1. states # {"trial"}
    BY <1>3, <1>4, <1>5
  <2> QED
    BY <1>1, <1>5, <2>1
<1>6. CASE states # {} /\ ~(Cardinality(states) > 1)
  <2>1. Cardinality(states) = 1
    BY <1>3, <1>6
  <2>2. PICK x : states = {x}
    BY <1>4, <2>1
  <2>3. Engine!ProfileState(visible, at) = x
    BY <1>1, <1>6, <2>2
  <2> QED
    BY <2>2, <2>3
<1> QED
  BY <1>5, <1>6

\* What an evaluation of a person rests on.
LEMMA SameFeatures ==
  ASSUME InboxInv, NEW known \in 0..Len(inbox), NEW p, NEW at \in Nat,
         NEW selected, selected = SelectedOf(First(inbox, known), p),
         NEW visible, visible = Engine!Visible(Facts, p, known)
  PROVE  /\ Engine!ProfileState(visible, at) = "trial" <=> StatesOf(selected, at) = {"trial"}
         /\ \A window : Cardinality(Engine!Within(visible, at, window))
                          = Cardinality(EventsOf(selected, at, window))
<1>1. /\ selected \subseteq Stated("facts")
      /\ \A row : row \in visible <=> \E f \in selected : row = Stored(f)
  BY VisibleIsSelected
<1>2. /\ IsFiniteSet(selected)
      /\ \A f \in selected :
           /\ Stored(f).source = f.source /\ Stored(f).effective = f.effective
           /\ Stored(f).value = f.value
      /\ \A f, g \in selected : Stored(f) = Stored(g) => f = g
  BY <1>1, StoredParts, FS_Subset DEF InboxInv
<1>3. ASSUME NEW window
      PROVE  Cardinality(Engine!Within(visible, at, window))
               = Cardinality(EventsOf(selected, at, window))
  <2> DEFINE events == EventsOf(selected, at, window)
             rows == Engine!Within(visible, at, window)
             stored == [f \in events |-> Stored(f)]
  <2>1. \A row : row \in rows <=> \E f \in events : row = Stored(f)
    BY <1>1, <1>2 DEF Engine!Within, Engine!Qualified, EventsOf
  <2>2. events \subseteq selected
    BY DEF EventsOf
  <2> HIDE DEF events, rows
  <2>3. stored \in Surjection(events, rows) /\ stored \in Injection(events, rows)
    BY <1>2, <2>1, <2>2 DEF Surjection, Injection, IsInjective
  <2>4. IsFiniteSet(events)
    BY <1>2, <2>2, FS_Subset
  <2> HIDE DEF stored
  <2>5. Cardinality(rows) = Cardinality(events)
    BY <2>3, <2>4, FS_Surjection
  <2> QED
    BY <2>5 DEF events, rows
<1>4. Engine!ProfileState(visible, at) = "trial" <=> StatesOf(selected, at) = {"trial"}
  <2> DEFINE Lasts == {g \in ProfilesOf(selected, at) :
                         \A h \in ProfilesOf(selected, at) : h.effective <= g.effective}
             states == StatesOf(selected, at)
  <2>1. \A row : row \in Engine!ProfileNow(visible, at) <=> \E f \in Lasts : row = Stored(f)
    BY <1>1, <1>2 DEF Engine!ProfileNow, ProfilesOf
  <2>2. Lasts \subseteq selected
    BY DEF ProfilesOf
  <2>3. states = {f.value : f \in Lasts}
    BY DEF StatesOf
  <2> HIDE DEF Lasts, states
  <2>4. states = {f.value : f \in Engine!ProfileNow(visible, at)}
    BY <1>2, <2>1, <2>2, <2>3
  <2>5. IsFiniteSet(states)
    <3> DEFINE value == [f \in Lasts |-> f.value]
    <3>1. value \in Surjection(Lasts, states)
      BY <2>3 DEF Surjection
    <3>2. IsFiniteSet(Lasts)
      BY <1>2, <2>2, FS_Subset
    <3> QED
      BY <3>1, <3>2, FS_Surjection
  <2>6. Engine!ProfileState(visible, at) = "trial" <=> states = {"trial"}
    BY <2>4, <2>5, OneState
  <2> QED
    BY <2>6 DEF states
<1> QED
  BY <1>3, <1>4

\* The reference evaluation, person by person.
LEMMA OracleByPerson ==
  ASSUME NEW batches, NEW at, NEW known
  PROVE  LET first == First(batches, known)
             Trial(p) == StatesOf(SelectedOf(first, p), at) = {"trial"}
             Number(p, window) == Cardinality(EventsOf(SelectedOf(first, p), at, window))
         IN  Oracle(batches, at, known) =
               [k \in {f.person : f \in Raw(first, "facts")} \X Segments |->
                  IF k[2] = "engaged_trial"
                  THEN [covered |-> TRUE,
                        member |-> /\ Trial(k[1])
                                   /\ Number(k[1], Rules.engaged_window) >= Rules.minimum_events]
                  ELSE [covered |-> \E a \in LatestCoverage(first) :
                                      /\ ~a.retracted /\ a.after <= at - Rules.quiet_window
                                      /\ a.through >= at,
                        member |-> Trial(k[1]) /\ Number(k[1], Rules.quiet_window) = 0]]
<1> DEFINE first == First(batches, known)
           selected == {f \in Latest(first) : ~f.retracted}
           profiles(p) ==
             {f \in selected : f.person = p /\ f.source = "profile" /\ f.effective <= at}
           states(p) == {f.value : f \in {g \in profiles(p) :
                                            \A h \in profiles(p) : h.effective <= g.effective}}
           events(p, window) ==
             {f \in selected : /\ f.person = p /\ f.source = "activity" /\ f.value = "qualified"
                               /\ at - window < f.effective /\ f.effective <= at}
           covered == \E a \in LatestCoverage(first) :
                        ~a.retracted /\ a.after <= at - Rules.quiet_window /\ a.through >= at
<1>1. Oracle(batches, at, known) =
        [k \in {f.person : f \in Raw(first, "facts")} \X Segments |->
           IF k[2] = "engaged_trial"
           THEN [covered |-> TRUE,
                 member |->
                   /\ states(k[1]) = {"trial"}
                   /\ Cardinality(events(k[1], Rules.engaged_window)) >= Rules.minimum_events]
           ELSE [covered |-> covered,
                 member |-> /\ states(k[1]) = {"trial"}
                            /\ Cardinality(events(k[1], Rules.quiet_window)) = 0]]
  BY Zenon DEF Oracle, First
<1>2. \A p : profiles(p) = ProfilesOf(SelectedOf(first, p), at)
  BY DEF ProfilesOf, SelectedOf
<1>3. \A p : states(p) = StatesOf(SelectedOf(first, p), at)
  <2> HIDE DEF profiles, first
  <2> QED
    BY Zenon, <1>2 DEF StatesOf
<1>4. \A p, window : events(p, window) = EventsOf(SelectedOf(first, p), at, window)
  BY DEF EventsOf, SelectedOf
<1> HIDE DEF states, events, first
<1> QED
  BY Zenon, <1>1, <1>3, <1>4 DEF first

\* The coverage gate of the replay is the reference's.
LEMMA CoveredIsOracle ==
  ASSUME InboxInv, NEW known \in 0..Len(inbox), NEW at
  PROVE  Covered(at, known)
           <=> \E a \in LatestCoverage(First(inbox, known)) :
                 ~a.retracted /\ a.after <= at - Rules.quiet_window /\ a.through >= at
<1> DEFINE raw == Raw(First(inbox, known), "coverage")
<1>1. \A a : a \in raw <=> a \in Stated("coverage") /\ BroughtBy("coverage", a) <= known
  BY RawIsBrought
<1>2. \A a : a \in LatestCoverage(First(inbox, known))
               <=> a \in raw /\ \A b \in raw : b.revision <= a.revision
  BY DEF LatestCoverage
<1> HIDE DEF raw
<1>3. \A a : /\ StoredAssertion(a).revision = a.revision /\ StoredAssertion(a).after = a.after
             /\ StoredAssertion(a).through = a.through /\ StoredAssertion(a).retracted = a.retracted
             /\ StoredAssertion(a).known = BroughtBy("coverage", a)
  BY DEF StoredAssertion
<1>4. \A row : row \in Coverage /\ row.known <= known <=> \E a \in raw : row = StoredAssertion(a)
  BY <1>1, <1>3, CoverageIsStored
<1>5. \A row : row \in Engine!InForce(Coverage, known)
                 <=> \E a \in LatestCoverage(First(inbox, known)) : row = StoredAssertion(a)
  <2>1. \A row : row \in Engine!InForce(Coverage, known)
                   <=> /\ \E a \in raw : row = StoredAssertion(a)
                       /\ \A b \in raw : b.revision <= row.revision
    <3>1. \A row : row \in Engine!InForce(Coverage, known)
                     <=> /\ row \in Coverage /\ row.known <= known
                         /\ \A other \in Coverage : other.known <= known
                                                      => other.revision <= row.revision
      BY DEF Engine!InForce
    <3> QED
      BY <1>3, <1>4, <3>1
  <2> QED
    BY <1>2, <1>3, <2>1
<1>6. Covered(at, known) <=> \E row \in Engine!InForce(Coverage, known) :
                               /\ ~row.retracted /\ row.after <= at - Rules.quiet_window
                               /\ row.through >= at
  BY DEF Covered, Engine!Covered, Engine!Reaches
<1> QED
  BY <1>3, <1>5, <1>6

\* The persons a replay decides are those the batches state facts of.
LEMMA EveryoneIsRaw ==
  ASSUME InboxInv, NEW known \in 0..Len(inbox)
  PROVE  Engine!Everyone(known) = {f.person : f \in Raw(First(inbox, known), "facts")}
<1> DEFINE raw == Raw(First(inbox, known), "facts")
<1>1. /\ raw \subseteq Stated("facts")
      /\ \A row : row \in Facts /\ row.known <= known <=> \E f \in raw : row = Stored(f)
  BY KnownIsRaw
<1> HIDE DEF raw
<1>2. \A f \in raw : Stored(f).person = f.person
  BY <1>1, StoredParts
<1>3. \A p : p \in Engine!Everyone(known) <=> \E f \in raw : p = f.person
  <2>1. \A p : p \in Engine!Everyone(known)
                 <=> \E row : row \in Facts /\ row.known <= known /\ p = row.person
    BY DEF Engine!Everyone
  <2> QED
    BY <1>1, <1>2, <2>1
<1> QED
  BY <1>3 DEF raw

\* What the replay decides is what the reference makes of the batches.
LEMMA DecisionsByOracle ==
  ASSUME InboxInv, NEW known \in 0..Len(inbox), NEW at \in Nat
  PROVE  Decisions(at, known) = Oracle(inbox, at, known)
<1> DEFINE first == First(inbox, known)
           persons == {f.person : f \in Raw(first, "facts")}
           rows == Engine!People(at, known, Rules, TRUE)
           covered == \E a \in LatestCoverage(first) :
                        ~a.retracted /\ a.after <= at - Rules.quiet_window /\ a.through >= at
           Trial(p) == StatesOf(SelectedOf(first, p), at) = {"trial"}
           Number(p, window) == Cardinality(EventsOf(SelectedOf(first, p), at, window))
           Engaged(p) == Trial(p) /\ Number(p, Rules.engaged_window) >= Rules.minimum_events
           Quiet(p) == Trial(p) /\ Number(p, Rules.quiet_window) = 0
<1>1. rows = [p \in persons |-> Engine!Evaluate(p, at, known, Rules)]
  <2>1. Engine!Everyone(known) = persons
    BY EveryoneIsRaw
  <2>2. rows = [p \in Engine!Everyone(known) |-> Engine!Evaluate(p, at, known, Rules)]
    BY DEF Engine!People
  <2> QED
    BY <2>1, <2>2
<1>2. ASSUME NEW p \in persons
      PROVE  /\ "engaged_trial" \in rows[p].membership <=> Engaged(p)
             /\ "quiet_trial" \in rows[p].membership <=> Quiet(p)
  <2> DEFINE visible == Engine!Visible(Facts, p, known)
             features == Engine!Features(Facts, p, at, known, Rules)
  <2>1. rows[p].membership = Engine!SegmentsOf(features, Rules)
    <3>1. rows[p] = Engine!Evaluate(p, at, known, Rules)
      BY <1>1
    <3> HIDE DEF rows
    <3>2. Engine!Evaluate(p, at, known, Rules).membership = Engine!SegmentsOf(features, Rules)
      BY DEF Engine!Evaluate
    <3> QED
      BY <3>1, <3>2
  <2>2. /\ features.profile_state = Engine!ProfileState(visible, at)
        /\ features.engaged_events
             = Engine!Cardinality(Engine!Within(visible, at, Rules.engaged_window))
        /\ features.quiet_events
             = Engine!Cardinality(Engine!Within(visible, at, Rules.quiet_window))
    BY DEF Engine!Features
  <2> HIDE DEF visible, features, rows
  <2>3. /\ features.profile_state = "trial" <=> Trial(p)
        /\ features.engaged_events = Number(p, Rules.engaged_window)
        /\ features.quiet_events = Number(p, Rules.quiet_window)
    <3>1. /\ Engine!ProfileState(visible, at) = "trial" <=> Trial(p)
          /\ \A window : Cardinality(Engine!Within(visible, at, window)) = Number(p, window)
      BY SameFeatures DEF visible
    <3>2. \A S : Engine!Cardinality(S) = Cardinality(S)
      BY SameCount
    <3> HIDE DEF Trial, Number
    <3> QED
      BY Zenon, <2>2, <3>1, <3>2
  <2> HIDE DEF Trial, Number
  <2> QED
    BY <2>1, <2>3 DEF Engine!SegmentsOf
<1>3. ASSUME NEW k \in persons \X Segments
      PROVE  [member |-> k[2] \in rows[k[1]].membership,
              covered |-> k[2] # "quiet_trial" \/ Covered(at, known)]
               = IF k[2] = "engaged_trial" THEN [covered |-> TRUE, member |-> Engaged(k[1])]
                 ELSE [covered |-> covered, member |-> Quiet(k[1])]
  <2>1. Covered(at, known) <=> covered
    BY CoveredIsOracle
  <2>2. k[1] \in persons /\ (k[2] = "engaged_trial" \/ k[2] = "quiet_trial")
    BY DEF Segments
  <2>3. /\ "engaged_trial" \in rows[k[1]].membership <=> Engaged(k[1])
        /\ "quiet_trial" \in rows[k[1]].membership <=> Quiet(k[1])
    BY <1>2, <2>2
  <2> HIDE DEF persons, rows, Trial, Number
  <2>4. CASE k[2] = "engaged_trial"
    <3>1. (k[2] \in rows[k[1]].membership) = Engaged(k[1])
      BY <2>3, <2>4
    <3>2. (k[2] # "quiet_trial" \/ Covered(at, known)) = TRUE
      BY <2>4
    <3> QED
      BY Zenon, <2>4, <3>1, <3>2
  <2>5. CASE k[2] = "quiet_trial"
    <3>1. (k[2] \in rows[k[1]].membership) = Quiet(k[1])
      BY <2>3, <2>5
    <3>2. (k[2] # "quiet_trial" \/ Covered(at, known)) = covered
      BY <2>1, <2>5
    <3>3. k[2] # "engaged_trial"
      BY <2>5
    <3> QED
      BY Zenon, <3>1, <3>2, <3>3
  <2> QED
    BY <2>2, <2>4, <2>5
<1>4. Decisions(at, known)
        = [k \in persons \X Segments |->
             [member |-> k[2] \in rows[k[1]].membership,
              covered |-> k[2] # "quiet_trial" \/ Covered(at, known)]]
  <2>1. DOMAIN rows = persons
    BY <1>1
  <2>2. Decisions(at, known)
          = [k \in (DOMAIN rows) \X Segments |->
               [member |-> k[2] \in rows[k[1]].membership,
                covered |-> k[2] # "quiet_trial" \/ Covered(at, known)]]
    BY DEF Decisions
  <2> HIDE DEF rows, persons
  <2> QED
    BY <2>1, <2>2
<1>5. Oracle(inbox, at, known)
        = [k \in persons \X Segments |->
             IF k[2] = "engaged_trial" THEN [covered |-> TRUE, member |-> Engaged(k[1])]
             ELSE [covered |-> covered, member |-> Quiet(k[1])]]
  BY Zenon, OracleByPerson
<1> HIDE DEF persons, rows, covered, Engaged, Quiet
<1> QED
  BY Zenon, <1>3, <1>4, <1>5

-------------------------------------------------------------------------------
(* Ingestion. *)

\* Versions agree on whom a fact is about, and on what each revision says.
Agree(f, g) ==
  /\ f.source = g.source /\ f.id = g.id => f.person = g.person
  /\ f.source = g.source /\ f.id = g.id /\ f.revision = g.revision => f = g

\* A batch adds to what is stated what it states.
LEMMA StatedGrows ==
  ASSUME InboxInv, NEW kind \in {"facts", "coverage"}, NEW body,
         inbox' = Append(inbox, [kind |-> kind, body |-> body])
  PROVE  /\ Len(inbox) \in Nat /\ DOMAIN inbox = 1..Len(inbox)
         /\ DOMAIN inbox' = 1..Len(inbox) + 1
         /\ \A i \in DOMAIN inbox : inbox'[i] = inbox[i]
         /\ inbox'[Len(inbox) + 1] = [kind |-> kind, body |-> body]
         /\ \A other : /\ BatchesOf(other)' = BatchesOf(other) \union
                            IF other = kind THEN {Len(inbox) + 1} ELSE {}
                       /\ Stated(other)' = Stated(other) \union IF other = kind THEN body ELSE {}
<1>1. /\ Len(inbox) \in Nat /\ DOMAIN inbox = 1..Len(inbox)
      /\ DOMAIN inbox' = 1..Len(inbox) + 1
      /\ \A i \in DOMAIN inbox : inbox'[i] = inbox[i]
      /\ inbox'[Len(inbox) + 1] = [kind |-> kind, body |-> body]
  BY DEF InboxInv
<1>2. ASSUME NEW other
      PROVE  BatchesOf(other)' = BatchesOf(other) \union
               IF other = kind THEN {Len(inbox) + 1} ELSE {}
  BY <1>1 DEF BatchesOf
<1>3. ASSUME NEW other
      PROVE  Stated(other)' = Stated(other) \union IF other = kind THEN body ELSE {}
  <2>1. Stated(other)' = UNION {inbox'[i].body : i \in BatchesOf(other)'}
    BY DEF Stated
  <2>2. Stated(other) = UNION {inbox[i].body : i \in BatchesOf(other)}
    BY DEF Stated
  <2>3. BatchesOf(other) \subseteq DOMAIN inbox
    BY DEF BatchesOf
  <2>4. \A i \in BatchesOf(other) : inbox'[i].body = inbox[i].body
    BY <1>1, <2>3
  <2>5. inbox'[Len(inbox) + 1].body = body
    BY <1>1
  <2> DEFINE next == Len(inbox) + 1
  <2>6. BatchesOf(other)' = BatchesOf(other) \union IF other = kind THEN {next} ELSE {}
    BY <1>2
  <2>7. inbox'[next].body = body
    BY <2>5
  <2> HIDE DEF next
  <2> QED
    BY <2>1, <2>2, <2>4, <2>6, <2>7
<1> QED
  BY <1>1, <1>2, <1>3

\* A batch of well-formed content that agrees with what is stated keeps the invariant.
LEMMA InboxGrows ==
  ASSUME InboxInv, NEW kind \in {"facts", "coverage"}, NEW body,
         inbox' = Append(inbox, [kind |-> kind, body |-> body]),
         body \subseteq IF kind = "facts" THEN Offered ELSE Asserted,
         IsFiniteSet(body),
         kind = "facts" => \A f, g \in Stated("facts") \union body : Agree(f, g),
         kind = "coverage" =>
           \A a, b \in Stated("coverage") \union body : a.revision = b.revision => a = b
  PROVE  InboxInv'
<1> DEFINE next == Len(inbox) + 1
           new == [kind |-> kind, body |-> body]
<1>1. /\ Len(inbox) \in Nat /\ DOMAIN inbox = 1..Len(inbox) /\ DOMAIN inbox' = 1..next
      /\ \A i \in DOMAIN inbox : inbox'[i] = inbox[i]
      /\ inbox'[next] = new
      /\ \A other : /\ BatchesOf(other)'
                         = BatchesOf(other) \union IF other = kind THEN {next} ELSE {}
                    /\ Stated(other)' = Stated(other) \union IF other = kind THEN body ELSE {}
  BY StatedGrows
<1>2. (inbox \in Seq(Batch))'
  BY DEF Batch, InboxInv
<1>3. (\A i \in DOMAIN inbox : IF inbox[i].kind = "facts" THEN inbox[i].body \subseteq Offered
                               ELSE inbox[i].body \subseteq Asserted)'
  BY <1>1 DEF InboxInv
<1>4. ASSUME NEW other \in {"facts", "coverage"} PROVE IsFiniteSet(Stated(other)')
  BY <1>1, FS_Union DEF InboxInv
<1>5. ASSUME NEW other \in {"facts", "coverage"}, NEW content \in Stated(other)'
      PROVE  \E i \in BatchesOf(other)' :
               /\ content \in inbox'[i].body
               /\ \A j \in BatchesOf(other)' : content \in inbox'[j].body => i <= j
  <2>1. BatchesOf(other) \subseteq DOMAIN inbox
    BY DEF BatchesOf
  <2>2. CASE content \in Stated(other)
    <3>1. PICK i \in BatchesOf(other) :
            /\ content \in inbox[i].body
            /\ \A j \in BatchesOf(other) : content \in inbox[j].body => i <= j
      BY <2>2 DEF InboxInv
    <3>2. i \in BatchesOf(other)' /\ content \in inbox'[i].body
      BY <1>1, <2>1, <3>1
    <3>3. \A j \in BatchesOf(other)' : content \in inbox'[j].body => i <= j
      BY <1>1, <2>1, <3>1
    <3> QED
      BY <3>2, <3>3
  <2>3. CASE content \notin Stated(other)
    <3>1. other = kind /\ content \in body
      BY <1>1, <1>5, <2>3
    <3>2. \A j \in BatchesOf(other) : content \notin inbox[j].body
      BY <2>3 DEF Stated
    <3>3. \A j \in BatchesOf(other)' : content \in inbox'[j].body => j = next
      BY <1>1, <2>1, <3>2
    <3>4. next \in BatchesOf(other)' /\ content \in inbox'[next].body /\ next <= next
      BY <1>1, <3>1
    <3> HIDE DEF next
    <3> QED
      BY <3>3, <3>4
  <2> QED
    BY <2>2, <2>3
<1>6. (\A f, g \in Stated("facts") :
         /\ f.source = g.source /\ f.id = g.id => f.person = g.person
         /\ f.source = g.source /\ f.id = g.id /\ f.revision = g.revision => f = g)'
  BY <1>1 DEF InboxInv, Agree
<1>7. (\A a, b \in Stated("coverage") : a.revision = b.revision => a = b)'
  BY <1>1 DEF InboxInv
<1> QED
  BY <1>2, <1>3, <1>4, <1>5, <1>6, <1>7 DEF InboxInv

\* What the replayed store admits agrees with what is stated.
LEMMA AdmissibleAgrees ==
  ASSUME InboxInv, NEW body \in SUBSET Offered, Engine!Admissible(body),
         NEW f \in Stated("facts") \union body, NEW g \in Stated("facts") \union body
  PROVE  Agree(f, g)
<1> DEFINE stated == Stated("facts")
<1>1. stated \subseteq Engine!FactVersion /\ body \subseteq Engine!FactVersion
  BY StatedIsOffered, BridgeAssumption
<1>2. /\ \A x, y \in body : Engine!Identity(x) = Engine!Identity(y) => x = y
      /\ \A x \in body, y \in Facts \union body :
           y.source = x.source /\ y.id = x.id => y.person = x.person
      /\ \A x \in body, y \in Facts :
           Engine!Identity(y) = Engine!Identity(x) => y = Engine!Row(x, y.known)
  BY DEF Engine!Admissible
<1>3. ASSUME NEW x \in body, NEW y \in stated PROVE Agree(x, y) /\ Agree(y, x)
  <2>1. /\ Stored(y) \in Facts
        /\ Stored(y).source = y.source /\ Stored(y).id = y.id /\ Stored(y).revision = y.revision
        /\ Stored(y).person = y.person /\ Stored(y).effective = y.effective
        /\ Stored(y).value = y.value /\ Stored(y).retracted = y.retracted
    BY StoredParts
  <2>2. x.source = y.source /\ x.id = y.id => x.person = y.person
    BY <1>2, <2>1
  <2>3. ASSUME x.source = y.source, x.id = y.id, x.revision = y.revision PROVE x = y
    <3>1. Engine!Identity(Stored(y)) = Engine!Identity(x)
      BY <2>1, <2>3 DEF Engine!Identity
    <3>2. Stored(y) = Engine!Row(x, Stored(y).known)
      BY <1>2, <2>1, <3>1
    <3>3. /\ x.person = y.person /\ x.effective = y.effective
          /\ x.value = y.value /\ x.retracted = y.retracted
      BY <2>1, <3>2 DEF Engine!Row
    <3> QED
      BY <1>1, <2>3, <3>3 DEF Engine!FactVersion
  <2> QED
    BY <2>2, <2>3 DEF Agree
<1>4. ASSUME NEW x \in body, NEW y \in body PROVE Agree(x, y)
  BY <1>2 DEF Agree, Engine!Identity
<1>5. ASSUME NEW x \in stated, NEW y \in stated PROVE Agree(x, y)
  BY DEF Agree, InboxInv
<1> HIDE DEF stated
<1> QED
  BY <1>3, <1>4, <1>5 DEF stated

LEMMA InboxInit == Init => InboxInv
BY FS_EmptySet DEF Init, InboxInv, Stated, BatchesOf

\* Ingestion is what changes the inbox, and it keeps the invariant.
LEMMA InboxStep == InboxInv /\ [Next]_vars => InboxInv'
<1> SUFFICES ASSUME InboxInv, [Next]_vars PROVE InboxInv'
  OBVIOUS
<1>1. CASE UNCHANGED inbox
  <2>1. \A kind : BatchesOf(kind)' = BatchesOf(kind) /\ Stated(kind)' = Stated(kind)
    BY <1>1 DEF Stated, BatchesOf
  <2> QED
    BY <1>1, <2>1 DEF InboxInv
<1>2. ASSUME NEW body \in Engine!Batches, Ingest("facts", body) PROVE InboxInv'
  <2>1. body \subseteq Offered /\ IsFiniteSet(body)
    BY SameCount DEF Engine!Batches
  <2>2. Engine!Admissible(body) /\ inbox' = Append(inbox, [kind |-> "facts", body |-> body])
    BY <1>2 DEF Ingest
  <2>3. \A f, g \in Stated("facts") \union body : Agree(f, g)
    BY <2>1, <2>2, AdmissibleAgrees
  <2> QED
    BY <2>1, <2>2, <2>3, InboxGrows
<1>3. ASSUME NEW a \in Asserted, Ingest("coverage", {a}) PROVE InboxInv'
  <2>1. /\ \A b \in Stated("coverage") : b.revision = a.revision => b = a
        /\ inbox' = Append(inbox, [kind |-> "coverage", body |-> {a}])
    BY <1>3 DEF Ingest
  <2>2. \A b, c \in Stated("coverage") \union {a} : b.revision = c.revision => b = c
    BY <2>1 DEF InboxInv
  <2>3. IsFiniteSet({a}) /\ {a} \subseteq Asserted
    BY FS_Singleton
  <2> QED
    BY <2>1, <2>2, <2>3, InboxGrows
<1> QED
  BY <1>1, <1>2, <1>3 DEF Next, vars, Again, Publish, Permit

-------------------------------------------------------------------------------
(* Publication and permission. *)

\* Coverage, as the reference evaluation of the batches up to a sequence has it.
CoverageOf(batches, at, known) ==
  \E a \in LatestCoverage(First(batches, known)) :
    ~a.retracted /\ a.after <= at - Rules.quiet_window /\ a.through >= at

Decided ==
  UNION {[keys -> [member: BOOLEAN, covered: BOOLEAN]] : keys \in SUBSET (Person \X Segments)}

Published ==
  [mode: {"current", "historical"}, clock: Nat, known: Nat, decisions: Decided, covered: BOOLEAN]

\* What was published is what the reference makes of the batches it knew of; the
\* newest current publication is active, and of the brand's clock.
PublicationsInv ==
  /\ clock \in Nat
  /\ publications \in Seq(Published)
  /\ \A i \in DOMAIN publications :
       /\ publications[i].known <= Len(inbox)
       /\ publications[i].decisions = Oracle(inbox, publications[i].clock, publications[i].known)
       /\ publications[i].covered = CoverageOf(inbox, publications[i].clock, publications[i].known)
  /\ active \in 0..Len(publications)
  /\ \A i \in DOMAIN publications : publications[i].mode = "current" => i <= active
  /\ active # 0 => publications[active].mode = "current" /\ publications[active].clock = clock

Beginning(s, t) == Len(s) <= Len(t) /\ \A i \in 1..Len(s) : s[i] = t[i]

LEMMA BeginningOfItself ==
  ASSUME NEW S, NEW s \in Seq(S)
  PROVE  Beginning(s, s)
BY DEF Beginning

\* What begins a sequence begins what is appended to it, and then is not all of it.
LEMMA BeginningStays ==
  ASSUME NEW S, NEW s \in Seq(S), NEW t \in Seq(S), NEW x, Beginning(s, t)
  PROVE  Beginning(s, Append(t, x)) /\ s # Append(t, x)
BY DEF Beginning

\* The evaluation up to a sequence rests on nothing after it.
LEMMA BeginningDecides ==
  ASSUME NEW old \in Seq(Batch), NEW new \in Seq(Batch), Beginning(old, new),
         NEW known \in 0..Len(old), NEW at
  PROVE  /\ Oracle(new, at, known) = Oracle(old, at, known)
         /\ CoverageOf(new, at, known) = CoverageOf(old, at, known)
<1>1. First(new, known) = First(old, known)
  <2>1. /\ Len(old) \in Nat /\ Len(new) \in Nat /\ Len(old) <= Len(new)
        /\ \A i \in 1..Len(old) : new[i] = old[i]
    BY DEF Beginning
  <2>2. First(old, known) = SubSeq(old, 1, known) /\ First(new, known) = SubSeq(new, 1, known)
    <3>1. (IF known < Len(old) THEN known ELSE Len(old)) = known
      BY <2>1
    <3>2. (IF known < Len(new) THEN known ELSE Len(new)) = known
      BY <2>1
    <3> QED
      BY <3>1, <3>2 DEF First
  <2>3. SubSeq(old, 1, known) = [i \in 1..known |-> old[i]]
    BY <2>1
  <2>4. SubSeq(new, 1, known) = [i \in 1..known |-> new[i]]
    BY <2>1
  <2> QED
    BY <2>1, <2>2, <2>3, <2>4
<1>2. Oracle(new, at, known) = Oracle(old, at, known)
  BY Zenon, <1>1, OracleByPerson
<1>3. CoverageOf(new, at, known) = CoverageOf(old, at, known)
  BY Zenon, <1>1 DEF CoverageOf
<1> QED
  BY <1>2, <1>3

\* What a publication decides is a decision of membership and coverage by key.
LEMMA DecisionsType ==
  ASSUME InboxInv, NEW known \in 0..Len(inbox), NEW at \in Nat
  PROVE  Decisions(at, known) \in Decided
<1> DEFINE rows == Engine!People(at, known, Rules, TRUE)
           keys == (DOMAIN rows) \X Segments
<1>1. DOMAIN rows \subseteq Person
  <2>1. DOMAIN rows = Engine!Everyone(known)
    BY DEF Engine!People
  <2>2. Raw(First(inbox, known), "facts") \subseteq Stated("facts")
    BY KnownIsRaw
  <2>3. \A f \in Raw(First(inbox, known), "facts") : f.person \in Person
    BY <2>2, StatedIsOffered DEF Engine!FactVersion
  <2>4. Engine!Everyone(known) = {f.person : f \in Raw(First(inbox, known), "facts")}
    BY EveryoneIsRaw
  <2> HIDE DEF rows
  <2> QED
    BY <2>1, <2>3, <2>4
<1>2. Decisions(at, known) = [k \in keys |->
        [member |-> k[2] \in rows[k[1]].membership,
         covered |-> k[2] # "quiet_trial" \/ Covered(at, known)]]
  BY Zenon DEF Decisions
<1>3. Covered(at, known) \in BOOLEAN
  BY DEF Covered, Engine!Covered
<1> HIDE DEF rows
<1>4. keys \subseteq Person \X Segments
  BY <1>1
<1> HIDE DEF keys
<1>5. Decisions(at, known) \in [keys -> [member: BOOLEAN, covered: BOOLEAN]]
  BY <1>2, <1>3
<1> QED
  BY <1>4, <1>5 DEF Decided

\* The journal sees the same inbox and the same publications.
JournalInbox == [i \in DOMAIN inbox |-> PersonsIn(inbox[i])]

LEMMA SameLengths ==
  ASSUME InboxInv
  PROVE  /\ JournalInbox \in Seq(SUBSET Person)
         /\ Len(JournalInbox) = Len(inbox) /\ Len(inbox) \in Nat
         /\ DOMAIN JournalInbox = 1..Len(inbox)
<1>1. inbox \in Seq(Batch) /\ DOMAIN inbox = 1..Len(inbox) /\ Len(inbox) \in Nat
  BY DEF InboxInv
<1>2. \A i \in 1..Len(inbox) : PersonsIn(inbox[i]) \subseteq Person
  BY <1>1, BridgeAssumption DEF InboxInv, PersonsIn, Engine!FactVersion
<1>3. JournalInbox = [i \in 1..Len(inbox) |-> PersonsIn(inbox[i])]
  BY <1>1 DEF JournalInbox
<1>4. JournalInbox \in Seq(SUBSET Person)
  BY <1>1, <1>2, <1>3, IsASeq
<1> QED
  BY <1>1, <1>3, <1>4, LenProperties

LEMMA PublicationsInit == Init => PublicationsInv
BY DEF Init, PublicationsInv

\* A batch keeps what was published true.
LEMMA PublicationsSurviveIngestion ==
  ASSUME InboxInv, PublicationsInv, NEW batch \in Batch, inbox' = Append(inbox, batch),
         UNCHANGED <<clock, publications, active>>
  PROVE  PublicationsInv'
<1>1. /\ inbox \in Seq(Batch) /\ inbox' \in Seq(Batch)
      /\ Len(inbox) \in Nat /\ Len(inbox') = Len(inbox) + 1
  BY DEF InboxInv
<1>2. Beginning(inbox, inbox')
  BY DEF InboxInv, Beginning
<1>3. ASSUME NEW i \in DOMAIN publications
      PROVE  /\ publications[i].known <= Len(inbox')
             /\ publications[i].decisions
                  = Oracle(inbox', publications[i].clock, publications[i].known)
             /\ publications[i].covered
                  = CoverageOf(inbox', publications[i].clock, publications[i].known)
  <2> DEFINE at == publications[i].clock
             known == publications[i].known
  <2>1. /\ known \in 0..Len(inbox)
        /\ publications[i].decisions = Oracle(inbox, at, known)
        /\ publications[i].covered = CoverageOf(inbox, at, known)
    <3>1. publications[i] \in Published
      BY DEF PublicationsInv
    <3>2. /\ known <= Len(inbox)
          /\ publications[i].decisions = Oracle(inbox, at, known)
          /\ publications[i].covered = CoverageOf(inbox, at, known)
      BY Zenon DEF PublicationsInv
    <3> QED
      BY <1>1, <3>1, <3>2 DEF Published
  <2> HIDE DEF at, known
  <2>2. Oracle(inbox', at, known) = Oracle(inbox, at, known)
    BY <1>1, <1>2, <2>1, BeginningDecides
  <2>3. CoverageOf(inbox', at, known) = CoverageOf(inbox, at, known)
    BY <1>1, <1>2, <2>1, BeginningDecides
  <2>4. known <= Len(inbox')
    BY <1>1, <2>1
  <2> QED
    BY Zenon, <2>1, <2>2, <2>3, <2>4 DEF at, known
<1> QED
  BY <1>3 DEF PublicationsInv

\* So does a publication, which tells the truth itself.
LEMMA PublicationsGrow ==
  ASSUME InboxInv, PublicationsInv,
         NEW mode \in Mode, NEW at \in 0..MaxClock, NEW known \in 0..MaxInbox,
         Publish(mode, at, known)
  PROVE  /\ PublicationsInv'
         /\ at \in Nat /\ known \in 0..Len(inbox) /\ UNCHANGED <<inbox, permissions>>
         /\ mode = "current" => known = Len(inbox) /\ clock <= at
<1> DEFINE new == [mode |-> mode, clock |-> at, known |-> known,
                   decisions |-> Decisions(at, known), covered |-> Covered(at, known)]
           next == Len(publications) + 1
<1>1. at \in Nat /\ known \in Nat /\ mode \in {"current", "historical"}
  BY BridgeAssumption
<1>2. known <= Len(inbox) /\ (mode = "current" => known = Len(inbox) /\ at >= clock)
  <2>1. Journal!PublishAllowed(mode, at, known)
    BY DEF Publish
  <2>2. Len(JournalInbox) = Len(inbox)
    BY SameLengths
  <2>3. known <= Len(JournalInbox) /\ (mode = "current" => known = Len(JournalInbox) /\ at >= clock)
    BY <2>1 DEF Journal!PublishAllowed, Journal!OnTime, JournalInbox
  <2> QED
    BY <2>2, <2>3
<1>3. known \in 0..Len(inbox)
  BY <1>1, <1>2 DEF InboxInv
<1>4. Decisions(at, known) = Oracle(inbox, at, known) /\ Decisions(at, known) \in Decided
  BY <1>1, <1>3, DecisionsByOracle, DecisionsType
<1>5. Covered(at, known) = CoverageOf(inbox, at, known) /\ Covered(at, known) \in BOOLEAN
  <2>1. Covered(at, known) <=> CoverageOf(inbox, at, known)
    BY <1>3, CoveredIsOracle DEF CoverageOf
  <2>2. Covered(at, known) \in BOOLEAN /\ CoverageOf(inbox, at, known) \in BOOLEAN
    BY DEF Covered, Engine!Covered, CoverageOf
  <2> QED
    BY <2>1, <2>2
<1>6. /\ publications' = Append(publications, new)
      /\ clock' = IF mode = "current" THEN at ELSE clock
      /\ active' = IF mode = "current" THEN Len(publications') ELSE active
      /\ UNCHANGED <<inbox, permissions>>
  BY DEF Publish, Moves
<1>7. new \in Published
  BY <1>1, <1>4, <1>5 DEF Published
<1> HIDE DEF new
<1>8. /\ publications \in Seq(Published) /\ publications' \in Seq(Published)
      /\ Len(publications) \in Nat /\ Len(publications') = next
      /\ DOMAIN publications = 1..Len(publications) /\ DOMAIN publications' = 1..next
      /\ \A i \in DOMAIN publications : publications'[i] = publications[i]
      /\ publications'[next] = new
  BY <1>6, <1>7 DEF PublicationsInv
<1>9. ASSUME NEW i \in DOMAIN publications'
      PROVE  /\ publications'[i].known <= Len(inbox')
             /\ publications'[i].decisions
                  = Oracle(inbox', publications'[i].clock, publications'[i].known)
             /\ publications'[i].covered
                  = CoverageOf(inbox', publications'[i].clock, publications'[i].known)
  <2>1. inbox' = inbox
    BY <1>6
  <2>2. CASE i = next
    <3>1. /\ publications'[i].clock = at /\ publications'[i].known = known
          /\ publications'[i].decisions = Decisions(at, known)
          /\ publications'[i].covered = Covered(at, known)
      BY <1>8, <2>2 DEF new
    <3> QED
      BY Zenon, <1>2, <1>4, <1>5, <2>1, <3>1
  <2>3. CASE i # next
    <3>1. i \in DOMAIN publications /\ publications'[i] = publications[i]
      BY <1>8, <2>3
    <3> QED
      BY Zenon, <2>1, <3>1 DEF PublicationsInv
  <2> QED
    BY <2>2, <2>3
<1>10. clock' \in Nat /\ active' \in 0..Len(publications')
  BY <1>1, <1>6, <1>8 DEF PublicationsInv
<1>11. publications'[next].mode = mode /\ publications'[next].clock = at
  BY <1>8 DEF new
<1>12. /\ \A i \in DOMAIN publications' : publications'[i].mode = "current" => i <= active'
       /\ active' # 0 => /\ publications'[active'].mode = "current"
                         /\ publications'[active'].clock = clock'
  <2>1. CASE mode = "current"
    BY <1>6, <1>8, <1>11, <2>1
  <2>2. CASE mode # "current"
    BY <1>6, <1>8, <1>11, <2>2 DEF PublicationsInv
  <2> QED
    BY <2>1, <2>2
<1> QED
  BY <1>1, <1>2, <1>3, <1>6, <1>8, <1>9, <1>10, <1>12 DEF PublicationsInv

LEMMA PublicationsStep ==
  InboxInv /\ PublicationsInv /\ [Next]_vars => PublicationsInv'
<1> SUFFICES ASSUME InboxInv, PublicationsInv, [Next]_vars PROVE PublicationsInv'
  OBVIOUS
<1>1. CASE UNCHANGED <<inbox, clock, publications, active>>
  BY <1>1 DEF PublicationsInv
<1>2. ASSUME NEW body \in Engine!Batches, Ingest("facts", body) PROVE PublicationsInv'
  <2>1. [kind |-> "facts", body |-> body] \in Batch
    BY DEF Engine!Batches, Batch
  <2> QED
    BY <1>2, <2>1, PublicationsSurviveIngestion DEF Ingest
<1>3. ASSUME NEW a \in Asserted, Ingest("coverage", {a}) PROVE PublicationsInv'
  <2>1. [kind |-> "coverage", body |-> {a}] \in Batch
    BY DEF Batch
  <2> QED
    BY <1>3, <2>1, PublicationsSurviveIngestion DEF Ingest
<1>4. ASSUME NEW mode \in Mode, NEW at \in 0..MaxClock, NEW known \in 0..MaxInbox,
             Publish(mode, at, known)
      PROVE  PublicationsInv'
  BY <1>4, PublicationsGrow
<1> QED
  BY <1>1, <1>2, <1>3, <1>4 DEF Next, vars, Again, Permit

\* Every publication's decisions are, now and for good, what the operating layer's own
\* evaluator makes of the raw bodies of the batches it knew of (oracle.py:50-59).
THEOREM PublicationsAreReproducible == Spec => []DecisionsAreOracle
<1> DEFINE Inv == InboxInv /\ PublicationsInv
<1>1. Init => Inv
  BY InboxInit, PublicationsInit
<1>2. Inv /\ [Next]_vars => Inv'
  BY InboxStep, PublicationsStep
<1>3. Inv => DecisionsAreOracle
  BY DEF PublicationsInv, DecisionsAreOracle
<1> QED
  BY <1>1, <1>2, <1>3, PTL DEF Spec

-------------------------------------------------------------------------------
(* Permission. *)

Permission == [person: Person, revision: Nat \ {0}, terms: Terms]

\* A person's revisions rise, and each person who has one has a latest.
PermissionsInv ==
  /\ permissions \in Seq(Permission)
  /\ \A i, j \in DOMAIN permissions :
       i < j /\ permissions[i].person = permissions[j].person
         => permissions[i].revision < permissions[j].revision
  /\ \A p \in Person : Journal!RevisionsOf(p) # {} => Journal!HighestOf(p) # {}

\* The revision in force is the only highest one.
LEMMA InForceIsLatest ==
  ASSUME PermissionsInv, NEW p \in Person
  PROVE  /\ Journal!PermissionFor(p) = 0 <=> Journal!RevisionsOf(p) = {}
         /\ Journal!PermissionFor(p) # 0 =>
              /\ Journal!PermissionFor(p) \in Journal!RevisionsOf(p)
              /\ permissions[Journal!PermissionFor(p)] \in Permission
         /\ \A i : i \in Grants(permissions, p)
                     <=> Journal!PermissionFor(p) # 0 /\ i = Journal!PermissionFor(p)
<1>1. /\ Len(permissions) \in Nat /\ DOMAIN permissions = 1..Len(permissions)
      /\ \A i \in DOMAIN permissions : permissions[i] \in Permission
  BY DEF PermissionsInv
<1>2. \A i : i \in Journal!RevisionsOf(p) <=> i \in DOMAIN permissions /\ permissions[i].person = p
  BY <1>1 DEF Journal!RevisionsOf
<1>3. Grants(permissions, p) = Journal!HighestOf(p)
  BY <1>2 DEF Grants, Journal!HighestOf
<1>4. CASE Journal!RevisionsOf(p) = {}
  BY <1>3, <1>4 DEF Journal!PermissionFor, Journal!HighestOf
<1>5. CASE Journal!RevisionsOf(p) # {}
  <2>1. PICK i : i \in Journal!HighestOf(p)
    BY <1>5 DEF PermissionsInv
  <2>2. \A j \in Journal!HighestOf(p) : j = i
    <3>1. ASSUME NEW j \in Journal!HighestOf(p) PROVE j = i
      <4>1. /\ i \in Journal!RevisionsOf(p) /\ j \in Journal!RevisionsOf(p)
            /\ permissions[i].revision <= permissions[j].revision
            /\ permissions[j].revision <= permissions[i].revision
        BY <2>1 DEF Journal!HighestOf
      <4>2. /\ i \in 1..Len(permissions) /\ j \in 1..Len(permissions)
            /\ permissions[i].person = permissions[j].person
            /\ permissions[i].revision \in Nat /\ permissions[j].revision \in Nat
        BY <1>1, <1>2, <4>1 DEF Permission
      <4>3. ~(i < j) /\ ~(j < i)
        BY <1>1, <4>1, <4>2 DEF PermissionsInv
      <4> QED
        BY <1>1, <4>2, <4>3
    <3> QED
      BY <3>1
  <2>3. Journal!PermissionFor(p) = i
    <3>1. Journal!PermissionFor(p) \in Journal!HighestOf(p)
      BY <1>5, <2>1 DEF Journal!PermissionFor
    <3> QED
      BY <2>2, <3>1
  <2>4. i \in Journal!RevisionsOf(p) /\ i # 0
    BY <1>1, <1>2, <2>1 DEF Journal!HighestOf
  <2>5. permissions[i] \in Permission
    BY <1>1, <1>2, <2>4
  <2> QED
    BY <1>3, <1>5, <2>1, <2>2, <2>3, <2>4, <2>5
<1> QED
  BY <1>4, <1>5

LEMMA PermissionsInit == Init => PermissionsInv
BY DEF Init, PermissionsInv, Journal!RevisionsOf

\* A revision is above what its person has.
LEMMA PermissionsGrow ==
  ASSUME PermissionsInv, NEW p \in Person, NEW revision \in 1..MaxPermissions,
         NEW terms \in Terms, Permit(p, revision, terms)
  PROVE  PermissionsInv'
<1> DEFINE new == [person |-> p, revision |-> revision, terms |-> terms]
           next == Len(permissions) + 1
<1>1. revision \in Nat \ {0}
  BY BridgeAssumption
<1>2. permissions' = Append(permissions, new) /\ revision = Journal!NextRevision(p)
  BY DEF Permit, Journal!RevisePermission
<1>3. new \in Permission /\ new.person = p /\ new.revision = revision
  BY <1>1 DEF Permission
<1> HIDE DEF new
<1>4. /\ Len(permissions) \in Nat /\ DOMAIN permissions = 1..Len(permissions)
      /\ \A i \in DOMAIN permissions : permissions[i] \in Permission
      /\ permissions' \in Seq(Permission) /\ Len(permissions') = next
      /\ DOMAIN permissions' = 1..next
      /\ \A i \in DOMAIN permissions : permissions'[i] = permissions[i]
      /\ permissions'[next] = new
  BY <1>2, <1>3 DEF PermissionsInv
<1>5. \A q : /\ Journal!RevisionsOf(q) \subseteq DOMAIN permissions
             /\ Journal!RevisionsOf(q)'
                  = Journal!RevisionsOf(q) \union IF q = p THEN {next} ELSE {}
  BY <1>3, <1>4 DEF Journal!RevisionsOf
<1>6. \A i \in Journal!RevisionsOf(p) : permissions[i].revision < revision
  <2>1. ASSUME NEW i \in Journal!RevisionsOf(p) PROVE permissions[i].revision < revision
    <3> DEFINE latest == Journal!PermissionFor(p)
    <3>1. /\ latest # 0 /\ latest \in DOMAIN permissions
          /\ latest \in Journal!HighestOf(p)
      <4>1. latest # 0 /\ latest \in Journal!RevisionsOf(p)
        BY <2>1, InForceIsLatest
      <4>2. latest \in Journal!HighestOf(p)
        BY <2>1 DEF PermissionsInv, Journal!PermissionFor
      <4> QED
        BY <1>5, <4>1, <4>2
    <3>2. revision = permissions[latest].revision + 1
      BY <1>2, <3>1 DEF Journal!NextRevision
    <3>3. permissions[i].revision <= permissions[latest].revision
      BY <2>1, <3>1 DEF Journal!HighestOf
    <3>4. permissions[i].revision \in Nat /\ permissions[latest].revision \in Nat
      BY <1>4, <1>5, <2>1, <3>1 DEF Permission
    <3> QED
      BY <3>2, <3>3, <3>4
  <2> QED
    BY <2>1
<1>7. ASSUME NEW i \in DOMAIN permissions', NEW j \in DOMAIN permissions',
             i < j, permissions'[i].person = permissions'[j].person
      PROVE  permissions'[i].revision < permissions'[j].revision
  <2>1. i \in DOMAIN permissions /\ permissions'[i] = permissions[i]
    BY <1>4, <1>7
  <2>2. CASE j = next
    <3>1. permissions[i].person = p
      BY <1>3, <1>4, <1>7, <2>1, <2>2
    <3>2. i \in Journal!RevisionsOf(p)
      BY <1>4, <2>1, <3>1 DEF Journal!RevisionsOf
    <3> QED
      BY <1>3, <1>4, <1>6, <2>1, <2>2, <3>2
  <2>3. CASE j # next
    BY <1>4, <1>7, <2>1, <2>3 DEF PermissionsInv
  <2> QED
    BY <2>2, <2>3
<1>8. ASSUME NEW q \in Person, Journal!RevisionsOf(q)' # {} PROVE Journal!HighestOf(q)' # {}
  <2>1. CASE q = p
    <3>1. \A i \in Journal!RevisionsOf(p)' : permissions'[i].revision <= permissions'[next].revision
      BY <1>1, <1>3, <1>4, <1>5, <1>6 DEF Permission
    <3>2. next \in Journal!RevisionsOf(p)'
      BY <1>5
    <3>3. next \in Journal!HighestOf(p)'
      BY <3>1, <3>2 DEF Journal!HighestOf
    <3> QED
      BY <2>1, <3>3
  <2>2. CASE q # p
    <3>1. Journal!RevisionsOf(q)' = Journal!RevisionsOf(q)
      BY <1>5, <2>2
    <3>2. \A i \in Journal!RevisionsOf(q) : permissions'[i] = permissions[i]
      BY <1>4, <1>5
    <3>3. Journal!HighestOf(q) # {}
      BY <1>8, <3>1 DEF PermissionsInv
    <3> QED
      BY <3>1, <3>2, <3>3 DEF Journal!HighestOf
  <2> QED
    BY <2>1, <2>2
<1> QED
  BY <1>4, <1>7, <1>8 DEF PermissionsInv

LEMMA PermissionsStep == PermissionsInv /\ [Next]_vars => PermissionsInv'
<1> SUFFICES ASSUME PermissionsInv, [Next]_vars PROVE PermissionsInv'
  OBVIOUS
<1>1. CASE UNCHANGED permissions
  <2>1. \A p : /\ Journal!RevisionsOf(p)' = Journal!RevisionsOf(p)
               /\ Journal!HighestOf(p)' = Journal!HighestOf(p)
    BY <1>1 DEF Journal!RevisionsOf, Journal!HighestOf
  <2> QED
    BY <1>1, <2>1 DEF PermissionsInv
<1>2. ASSUME NEW p \in Person, NEW revision \in 1..MaxPermissions, NEW terms \in Terms,
             Permit(p, revision, terms)
      PROVE  PermissionsInv'
  BY <1>2, PermissionsGrow
<1> QED
  BY <1>1, <1>2 DEF Next, vars, Again, Ingest, Publish

-------------------------------------------------------------------------------
(* What a sender may act on. *)

JournalPublications ==
  [i \in DOMAIN publications |->
    LET p == publications[i]
    IN  [mode |-> p.mode, clock |-> p.clock, known |-> p.known, coverage |-> p.covered,
         member |-> {k \in DOMAIN p.decisions : p.decisions[k].member}]]

\* The persons the journal knows of are those the batches state facts of.
LEMMA IntroducedIsRaw ==
  ASSUME InboxInv, NEW known \in 0..Len(inbox)
  PROVE  Journal!Introduced(known) = {f.person : f \in Raw(First(inbox, known), "facts")}
<1>1. /\ Len(inbox) \in Nat /\ DOMAIN inbox = 1..Len(inbox)
      /\ DOMAIN First(inbox, known) = 1..known
      /\ \A i \in 1..known : First(inbox, known)[i] = inbox[i]
  BY DEF First, InboxInv
<1>2. \A i \in 1..known : JournalInbox[i] = PersonsIn(inbox[i])
  BY <1>1 DEF JournalInbox
<1>3. \A p : p \in Journal!Introduced(known)
               <=> p \in Person /\ \E i \in 1..known : p \in PersonsIn(inbox[i])
  BY <1>2 DEF Journal!Introduced, JournalInbox
<1>4. \A f : f \in Raw(First(inbox, known), "facts")
               <=> \E i \in 1..known : inbox[i].kind = "facts" /\ f \in inbox[i].body
  BY <1>1 DEF Raw
<1>5. \A p : p \in {f.person : f \in Raw(First(inbox, known), "facts")}
               <=> \E i \in 1..known : p \in PersonsIn(inbox[i])
  BY <1>4 DEF PersonsIn
<1>6. \A i \in 1..known : PersonsIn(inbox[i]) \subseteq Person
  BY <1>1, BridgeAssumption DEF InboxInv, PersonsIn, Engine!FactVersion
<1> QED
  BY <1>3, <1>5, <1>6

\* A reference decision is about the persons and audiences the journal knows of.
LEMMA DecisionsAreOfIntroduced ==
  ASSUME InboxInv, PublicationsInv, NEW i \in DOMAIN publications
  PROVE  LET p == publications[i]
         IN  /\ DOMAIN p.decisions = Journal!Introduced(p.known) \X Segments
             /\ \A k \in DOMAIN p.decisions :
                  p.decisions[k].covered <=> k[2] # "quiet_trial" \/ p.covered
<1> DEFINE p == publications[i]
           persons == {f.person : f \in Raw(First(inbox, p.known), "facts")}
<1>1. /\ p \in Published /\ p.known <= Len(inbox)
      /\ p.decisions = Oracle(inbox, p.clock, p.known)
      /\ p.covered = CoverageOf(inbox, p.clock, p.known)
  BY DEF PublicationsInv
<1>2. p.known \in 0..Len(inbox) /\ p.clock \in Nat
  BY <1>1 DEF Published, InboxInv
<1> HIDE DEF p
<1>3. persons = Journal!Introduced(p.known)
  BY <1>2, IntroducedIsRaw
<1>4. DOMAIN p.decisions = persons \X Segments
  BY <1>1, OracleByPerson
<1>5. \A k \in persons \X Segments :
        p.decisions[k].covered = IF k[2] = "engaged_trial" THEN TRUE ELSE p.covered
  <2> DEFINE Trial(x) == StatesOf(SelectedOf(First(inbox, p.known), x), p.clock) = {"trial"}
             Number(x, window) ==
               Cardinality(EventsOf(SelectedOf(First(inbox, p.known), x), p.clock, window))
             Engaged(x) == Trial(x) /\ Number(x, Rules.engaged_window) >= Rules.minimum_events
             Quiet(x) == Trial(x) /\ Number(x, Rules.quiet_window) = 0
  <2>1. Oracle(inbox, p.clock, p.known)
          = [k \in persons \X Segments |->
               IF k[2] = "engaged_trial" THEN [covered |-> TRUE, member |-> Engaged(k[1])]
               ELSE [covered |-> CoverageOf(inbox, p.clock, p.known), member |-> Quiet(k[1])]]
    BY Zenon, OracleByPerson DEF CoverageOf
  <2> HIDE DEF persons, Engaged, Quiet
  <2> QED
    BY <1>1, <2>1
<1>6. ASSUME NEW k \in DOMAIN p.decisions
      PROVE  p.decisions[k].covered <=> k[2] # "quiet_trial" \/ p.covered
  <2>1. k[2] = "engaged_trial" \/ k[2] = "quiet_trial"
    BY <1>4 DEF Segments
  <2> QED
    BY <1>4, <1>5, <2>1
<1> QED
  BY <1>3, <1>4, <1>6 DEF p

\* A permission lets a sender act exactly if the reference grants it.
LEMMA PermissionIsGranted ==
  ASSUME PermissionsInv, NEW p \in Person, clock \in Nat
  PROVE  Journal!PermissionReason(p) = "eligible"
           <=> \E i \in Grants(permissions, p) : LET t == permissions[i].terms IN
                 t.allowed /\ ~t.suppressed /\ Open(t, clock)
<1> DEFINE latest == Journal!PermissionFor(p)
<1>1. \A i : i \in Grants(permissions, p) <=> latest # 0 /\ i = latest
  BY InForceIsLatest
<1>2. CASE latest = 0
  BY <1>1, <1>2 DEF Journal!PermissionReason
<1>3. CASE latest # 0
  <2> DEFINE t == permissions[latest].terms
  <2>1. t \in Journal!Term
    BY <1>3, InForceIsLatest, BridgeAssumption DEF Permission
  <2>2. Journal!PermissionReason(p) = "eligible"
          <=> t.allowed /\ ~t.suppressed /\ t.validFrom <= clock /\ clock < t.expires
    BY <1>3, <2>1 DEF Journal!PermissionReason, Journal!Term
  <2> QED
    BY <1>1, <1>3, <2>2 DEF Open
<1> QED
  BY <1>2, <1>3

\* The view shows what the reference expects.
LEMMA ViewIsExpected ==
  ASSUME InboxInv, PublicationsInv, PermissionsInv
  PROVE  EligibleKeys = Expected(inbox, publications, permissions, clock, active)
<1>1. ASSUME NEW k \in Journal!Key
      PROVE  Journal!Eligible(k)
               <=> /\ Journal!PublicationFor(k) # 0 /\ ~Journal!Stale
                   /\ k \in JournalPublications[active].member /\ Journal!Covered(k)
                   /\ Journal!PermissionReason(k[1]) = "eligible"
  BY DEF Journal!Eligible, Journal!Reason, Journal!PersonOf, JournalPublications
<1>2. DOMAIN publications = 1..Len(publications) /\ Len(publications) \in Nat
  BY DEF PublicationsInv
<1>3. CASE active = 0
  <2>1. \A k \in Journal!Key : Journal!PublicationFor(k) = 0
    BY <1>3 DEF Journal!PublicationFor
  <2>2. Expected(inbox, publications, permissions, clock, active) = {}
    BY <1>2, <1>3 DEF Expected
  <2> QED
    BY <1>1, <2>1, <2>2 DEF EligibleKeys
<1>4. CASE active # 0
  <2>1. active \in DOMAIN publications /\ clock \in Nat
    BY <1>2, <1>4 DEF PublicationsInv
  <2> DEFINE p == publications[active]
             Granted(k) == \E i \in Grants(permissions, k[1]) : LET t == permissions[i].terms IN
                             t.allowed /\ ~t.suppressed /\ Open(t, clock)
  <2>2. /\ JournalPublications[active].known = p.known
        /\ JournalPublications[active].clock = p.clock
        /\ JournalPublications[active].coverage = p.covered
        /\ JournalPublications[active].member = {k \in DOMAIN p.decisions : p.decisions[k].member}
    BY <2>1 DEF JournalPublications
  <2>3. /\ DOMAIN p.decisions = Journal!Introduced(p.known) \X Segments
        /\ \A k \in DOMAIN p.decisions :
             p.decisions[k].covered <=> k[2] # "quiet_trial" \/ p.covered
    BY <2>1, DecisionsAreOfIntroduced
  <2>4. Journal!Stale <=> p.clock # clock \/ p.known # Len(inbox)
    <3>1. Journal!Stale <=> \/ JournalPublications[active].clock # clock
                            \/ JournalPublications[active].known # Len(JournalInbox)
      BY DEF Journal!Stale, JournalPublications, JournalInbox
    <3> QED
      BY <2>2, <3>1, SameLengths
  <2>5. \A k \in Journal!Key :
          Journal!PublicationFor(k) # 0 <=> k[1] \in Journal!Introduced(p.known)
    <3>1. \A k \in Journal!Key : Journal!PublicationFor(k)
            = IF active # 0 /\ k[1] \in Journal!Introduced(JournalPublications[active].known)
              THEN active ELSE 0
      BY DEF Journal!PublicationFor, Journal!PersonOf, JournalPublications
    <3> QED
      BY <1>4, <2>2, <3>1
  <2>6. \A k \in Journal!Key : Journal!Covered(k) <=> k[2] # "quiet_trial" \/ p.covered
    <3>1. \A k \in Journal!Key : Journal!Covered(k)
            <=> k[2] \notin {"quiet_trial"} \/ JournalPublications[active].coverage
      BY DEF Journal!Covered, JournalPublications
    <3> QED
      BY <2>2, <3>1
  <2>7. \A k \in Journal!Key : Journal!PermissionReason(k[1]) = "eligible" <=> Granted(k)
    <3>1. \A k \in Journal!Key : k[1] \in Person
      BY DEF Journal!Key
    <3> QED
      BY Zenon, <2>1, <3>1, PermissionIsGranted
  <2>8. Journal!Introduced(p.known) \subseteq Person
    BY DEF Journal!Introduced
  <2>9. Journal!Key = Person \X Segments
    BY DEF Journal!Key
  <2>10. Expected(inbox, publications, permissions, clock, active)
           = {k \in DOMAIN p.decisions :
                /\ p.clock = clock /\ p.known = Len(inbox)
                /\ p.decisions[k].member /\ p.decisions[k].covered
                /\ Granted(k)}
    <3>1. p.decisions = Oracle(inbox, p.clock, p.known)
      BY <2>1 DEF PublicationsInv
    <3> QED
      BY Zenon, <2>1, <3>1 DEF Expected
  <2> HIDE DEF p, Granted
  <2>11. ASSUME NEW k
         PROVE  k \in EligibleKeys
                  <=> /\ k \in DOMAIN p.decisions
                      /\ p.clock = clock /\ p.known = Len(inbox)
                      /\ p.decisions[k].member /\ p.decisions[k].covered
                      /\ Granted(k)
    <3>1. k \in EligibleKeys <=> k \in Journal!Key /\ Journal!Eligible(k)
      BY DEF EligibleKeys
    <3>2. k \in DOMAIN p.decisions
            <=> k \in Journal!Key /\ k[1] \in Journal!Introduced(p.known)
      BY <2>3, <2>8, <2>9
    <3> QED
      BY <1>1, <2>2, <2>3, <2>4, <2>5, <2>6, <2>7, <3>1, <3>2
  <2> QED
    BY <2>10, <2>11
<1> QED
  BY <1>3, <1>4

\* For every journal: the view lets a sender act on exactly what the reference
\* evaluation of the active publication and the permissions allow (oracle.py:60-73,
\* operating.sql:60-77).
THEOREM ViewIsTheReference == Spec => []EligibilityIsOracle
<1> DEFINE Inv == InboxInv /\ PublicationsInv /\ PermissionsInv
<1>1. Init => Inv
  BY InboxInit, PublicationsInit, PermissionsInit
<1>2. Inv /\ [Next]_vars => Inv'
  BY InboxStep, PublicationsStep, PermissionsStep
<1>3. Inv => EligibilityIsOracle
  BY ViewIsExpected DEF EligibilityIsOracle
<1> QED
  BY <1>1, <1>2, <1>3, PTL DEF Spec

-------------------------------------------------------------------------------
(* The replay is the store. *)

\* A later batch brings only what none before it stated.
LEMMA BroughtByStays ==
  ASSUME InboxInv, InboxInv', NEW kind \in {"facts", "coverage"}, NEW body,
         inbox' = Append(inbox, [kind |-> kind, body |-> body]),
         NEW other \in {"facts", "coverage"}, NEW content \in Stated(other)'
  PROVE  BroughtBy(other, content)'
           = IF content \in Stated(other) THEN BroughtBy(other, content) ELSE Len(inbox) + 1
<1> DEFINE next == Len(inbox) + 1
           later == BroughtBy(other, content)'
<1>1. /\ Len(inbox) \in Nat /\ DOMAIN inbox = 1..Len(inbox)
      /\ \A i \in DOMAIN inbox : inbox'[i] = inbox[i]
      /\ inbox'[next] = [kind |-> kind, body |-> body]
      /\ BatchesOf(other)' = BatchesOf(other) \union IF other = kind THEN {next} ELSE {}
      /\ BatchesOf(other) \subseteq DOMAIN inbox
  BY StatedGrows DEF BatchesOf
<1>2. /\ later \in BatchesOf(other)' /\ content \in inbox'[later].body
      /\ \A j \in BatchesOf(other)' : content \in inbox'[j].body => later <= j
  BY DEF BroughtBy, InboxInv
<1> HIDE DEF later
<1>3. CASE content \in Stated(other)
  <2> DEFINE earlier == BroughtBy(other, content)
  <2>1. /\ earlier \in BatchesOf(other) /\ content \in inbox[earlier].body
        /\ \A j \in BatchesOf(other) : content \in inbox[j].body => earlier <= j
    BY <1>3, BroughtByFirst
  <2> HIDE DEF earlier
  <2>2. later <= earlier
    BY <1>1, <1>2, <2>1
  <2>3. later \in BatchesOf(other) /\ content \in inbox[later].body
    BY <1>1, <1>2, <2>1, <2>2
  <2>4. later = earlier
    BY <1>1, <2>1, <2>2, <2>3
  <2> QED
    BY <1>3, <2>4 DEF earlier, later
<1>4. CASE content \notin Stated(other)
  <2>1. \A j \in BatchesOf(other) : content \notin inbox[j].body
    BY <1>4 DEF Stated
  <2>2. later \notin BatchesOf(other)
    BY <1>1, <1>2, <2>1
  <2> QED
    BY <1>1, <1>2, <1>4, <2>2 DEF later
<1> QED
  BY <1>3, <1>4

\* A row states its content: the reading of Row in this module.
LEMMA RowIsStored ==
  ASSUME NEW f, NEW known
  PROVE  Engine!Row(f, known)
           = [source |-> f.source, id |-> f.id, revision |-> f.revision, person |-> f.person,
              effective |-> f.effective, value |-> f.value, retracted |-> f.retracted,
              known |-> known]
BY DEF Engine!Row

\* Ingestion of facts adds to the replayed store the rows of its news.
LEMMA FactsGrow ==
  ASSUME InboxInv, InboxInv', NEW body \in SUBSET Offered, Engine!Admissible(body),
         inbox' = Append(inbox, [kind |-> "facts", body |-> body])
  PROVE  /\ Facts' = Facts \union {Engine!Row(f, Len(inbox')) : f \in Engine!News(body)}
         /\ Coverage' = Coverage
<1> DEFINE next == Len(inbox) + 1
           RowOf(f, known) ==
             [source |-> f.source, id |-> f.id, revision |-> f.revision, person |-> f.person,
              effective |-> f.effective, value |-> f.value, retracted |-> f.retracted,
              known |-> known]
<1>1. /\ Stated("facts")' = Stated("facts") \union body
      /\ Stated("coverage")' = Stated("coverage")
      /\ Len(inbox') = next
  <2>1. \A other : Stated(other)' = Stated(other) \union IF other = "facts" THEN body ELSE {}
    BY StatedGrows
  <2>2. Len(inbox') = next
    BY DEF InboxInv
  <2> QED
    BY <2>1, <2>2
<1>2. /\ \A f \in Stated("facts") : BroughtBy("facts", f)' = BroughtBy("facts", f)
      /\ \A f \in body \ Stated("facts") : BroughtBy("facts", f)' = next
      /\ \A a \in Stated("coverage") : BroughtBy("coverage", a)' = BroughtBy("coverage", a)
  BY <1>1, BroughtByStays
<1>3. \A f : f \in Engine!News(body) <=> f \in body \ Stated("facts")
  <2>1. ASSUME NEW f \in body
        PROVE  (\E g \in Facts : Engine!Identity(g) = Engine!Identity(f)) <=> f \in Stated("facts")
    <3>1. \A g \in Stated("facts") :
            /\ Stored(g).source = g.source /\ Stored(g).id = g.id
            /\ Stored(g).revision = g.revision
      BY StoredParts
    <3>2. (\E g \in Facts : Engine!Identity(g) = Engine!Identity(f))
            <=> \E g \in Stated("facts") :
                  g.source = f.source /\ g.id = f.id /\ g.revision = f.revision
      BY <3>1, FactsAreStored DEF Engine!Identity
    <3>3. \A g \in Stated("facts") :
            g.source = f.source /\ g.id = f.id /\ g.revision = f.revision => g = f
      BY AdmissibleAgrees DEF Agree
    <3> QED
      BY <3>2, <3>3
  <2> QED
    BY <2>1 DEF Engine!News
<1>4. Facts = {RowOf(f, BroughtBy("facts", f)) : f \in Stated("facts")}
  BY DEF Facts
<1>5. Facts' = {RowOf(f, BroughtBy("facts", f)') : f \in Stated("facts")'}
  BY DEF Facts
<1>6. \A f : Engine!Row(f, Len(inbox')) = RowOf(f, next)
  BY <1>1, RowIsStored
<1> HIDE DEF RowOf, next
<1>7. ASSUME NEW row
      PROVE  row \in Facts' <=> row \in Facts
               \/ row \in {Engine!Row(f, Len(inbox')) : f \in Engine!News(body)}
  BY <1>1, <1>2, <1>3, <1>4, <1>5, <1>6
<1>8. Facts' = Facts \union {Engine!Row(f, Len(inbox')) : f \in Engine!News(body)}
  BY <1>7
<1>9. Coverage' = Coverage
  BY <1>1, <1>2 DEF Coverage
<1> QED
  BY <1>8, <1>9

\* Ingestion of coverage adds the assertion unless it was there.
LEMMA CoverageGrows ==
  ASSUME InboxInv, InboxInv', NEW a \in Asserted,
         inbox' = Append(inbox, [kind |-> "coverage", body |-> {a}])
  PROVE  /\ \A b \in Coverage : b.revision = a.revision => b = Engine!AssertionRow(a, b.known)
         /\ Coverage' = IF \E b \in Coverage : b.revision = a.revision THEN Coverage
                        ELSE Coverage \union {Engine!AssertionRow(a, Len(inbox'))}
         /\ Facts' = Facts
<1> DEFINE next == Len(inbox) + 1
<1>1. /\ Stated("coverage")' = Stated("coverage") \union {a}
      /\ Stated("facts")' = Stated("facts")
      /\ Len(inbox') = next
  <2>1. \A other : Stated(other)' = Stated(other) \union IF other = "coverage" THEN {a} ELSE {}
    BY StatedGrows
  <2>2. Len(inbox') = next
    BY DEF InboxInv
  <2> QED
    BY <2>1, <2>2
<1>2. /\ \A b \in Stated("coverage") : BroughtBy("coverage", b)' = BroughtBy("coverage", b)
      /\ a \notin Stated("coverage") => BroughtBy("coverage", a)' = next
      /\ \A f \in Stated("facts") : BroughtBy("facts", f)' = BroughtBy("facts", f)
  BY <1>1, BroughtByStays
<1>3. \A b \in Stated("coverage") : b.revision = a.revision => b = a
  BY <1>1 DEF InboxInv
<1>4. \A row : row \in Coverage <=> \E b \in Stated("coverage") : row = StoredAssertion(b)
  BY CoverageIsStored
<1>5. \A row : row \in Coverage' <=> \E b \in Stated("coverage")' : row = StoredAssertion(b)'
  BY DEF Coverage, StoredAssertion
<1>6. /\ \A b \in Stated("coverage") : StoredAssertion(b)' = StoredAssertion(b)
      /\ a \notin Stated("coverage") => StoredAssertion(a)' = Engine!AssertionRow(a, next)
  BY <1>2 DEF StoredAssertion, Engine!AssertionRow
<1>7. \A b : StoredAssertion(b).revision = b.revision
             /\ StoredAssertion(b) = Engine!AssertionRow(b, StoredAssertion(b).known)
  BY DEF StoredAssertion, Engine!AssertionRow
<1>8. (\E b \in Coverage : b.revision = a.revision) <=> a \in Stated("coverage")
  BY <1>3, <1>4, <1>7
<1>9. \A b \in Coverage : b.revision = a.revision => b = Engine!AssertionRow(a, b.known)
  BY <1>3, <1>4, <1>7
<1> HIDE DEF next
<1>10. CASE a \in Stated("coverage")
  <2>1. \A row : row \in Coverage' <=> row \in Coverage
    BY <1>1, <1>4, <1>5, <1>6, <1>10
  <2>2. Coverage' = Coverage
    BY <2>1
  <2>3. Facts' = Facts
    BY <1>1, <1>2 DEF Facts
  <2> QED
    BY <1>8, <1>9, <1>10, <2>2, <2>3
<1>11. CASE a \notin Stated("coverage")
  <2>1. \A row : row \in Coverage' <=> row \in Coverage \/ row = Engine!AssertionRow(a, next)
    BY <1>1, <1>4, <1>5, <1>6, <1>11
  <2>2. Coverage' = Coverage \union {Engine!AssertionRow(a, next)}
    BY <2>1
  <2>3. Facts' = Facts
    BY <1>1, <1>2 DEF Facts
  <2> QED
    BY <1>1, <1>8, <1>9, <1>11, <2>2, <2>3
<1> QED
  BY <1>10, <1>11

\* Admission into the journal is ingestion by the engine's store; the rest leaves it.
LEMMA ReplayStep ==
  ASSUME InboxInv, InboxInv', [Next]_vars
  PROVE  [Engine!StoreNext]_(Engine!storeVars)
<1>1. CASE UNCHANGED inbox
  <2>1. \A kind : BatchesOf(kind)' = BatchesOf(kind) /\ Stated(kind)' = Stated(kind)
    BY <1>1 DEF BatchesOf, Stated
  <2>2. \A kind, content : BroughtBy(kind, content)' = BroughtBy(kind, content)
    BY <1>1, <2>1 DEF BroughtBy
  <2>3. Facts' = Facts /\ Coverage' = Coverage /\ Len(inbox') = Len(inbox)
    BY <1>1, <2>1, <2>2 DEF Facts, Coverage
  <2> QED
    BY <2>3 DEF Engine!storeVars
<1>2. ASSUME NEW body \in Engine!Batches, Ingest("facts", body)
      PROVE  Engine!StoreNext
  <2>1. body \in SUBSET Offered
    BY DEF Engine!Batches
  <2>2. /\ Len(inbox) < MaxInbox /\ Engine!Admissible(body)
        /\ inbox' = Append(inbox, [kind |-> "facts", body |-> body])
    BY <1>2 DEF Ingest
  <2>3. Len(inbox') = Len(inbox) + 1
    BY <2>2 DEF InboxInv
  <2>4. Engine!Ingest(body)
    BY <2>1, <2>2, <2>3, FactsGrow DEF Engine!Ingest
  <2> QED
    BY <2>4 DEF Engine!StoreNext
<1>3. ASSUME NEW a \in Asserted, Ingest("coverage", {a}) PROVE Engine!StoreNext
  <2>1. Len(inbox) < MaxInbox /\ inbox' = Append(inbox, [kind |-> "coverage", body |-> {a}])
    BY <1>3 DEF Ingest
  <2>2. Len(inbox') = Len(inbox) + 1
    BY <2>1 DEF InboxInv
  <2>3. Engine!IngestCoverage(a)
    BY <2>1, <2>2, CoverageGrows DEF Engine!IngestCoverage
  <2> QED
    BY <2>3 DEF Engine!StoreNext
<1> QED
  BY <1>1, <1>2, <1>3 DEF Next, vars, Again, Publish, Permit

\* Replaying the inbox, whenever, is the store the batches would have made one by one
\* (bridge.py:19-25,55-58).
THEOREM ReplayIsTheStoreOfTheBatches == Spec => ReplayIsTheStore
<1>1. Init => InboxInv
  BY InboxInit
<1>2. InboxInv /\ [Next]_vars => InboxInv'
  BY InboxStep
<1>3. Init => Engine!StoreInit
  BY DEF Init, Engine!StoreInit, Facts, Coverage, Stated, BatchesOf
<1>4. InboxInv /\ InboxInv' /\ [Next]_vars => [Engine!StoreNext]_(Engine!storeVars)
  BY ReplayStep
<1> QED
  BY <1>1, <1>2, <1>3, <1>4, PTL DEF Spec, ReplayIsTheStore, Engine!StoreSpec

-------------------------------------------------------------------------------
(* The journal senders are checked with. *)

\* What the journal keeps of a publication.
Summary(p) ==
  [mode |-> p.mode, clock |-> p.clock, known |-> p.known, coverage |-> p.covered,
   member |-> {k \in DOMAIN p.decisions : p.decisions[k].member}]

LEMMA JournalIsSummary ==
  ASSUME PublicationsInv
  PROVE  /\ Len(JournalPublications) = Len(publications) /\ Len(publications) \in Nat
         /\ DOMAIN publications = 1..Len(publications)
         /\ JournalPublications = [i \in 1..Len(publications) |-> Summary(publications[i])]
<1>1. DOMAIN publications = 1..Len(publications) /\ Len(publications) \in Nat
  BY DEF PublicationsInv
<1>2. JournalPublications = [i \in 1..Len(publications) |-> Summary(publications[i])]
  BY <1>1 DEF JournalPublications, Summary
<1> QED
  BY <1>1, <1>2

\* Ingestion is the journal's.
LEMMA IngestFits ==
  ASSUME InboxInv, NEW kind \in {"facts", "coverage"}, NEW body, Len(inbox) < MaxInbox,
         body \subseteq IF kind = "facts" THEN Offered ELSE Asserted,
         inbox' = Append(inbox, [kind |-> kind, body |-> body]),
         UNCHANGED <<clock, publications, active, permissions>>
  PROVE  Journal!PolicyNext
<1> DEFINE batch == [kind |-> kind, body |-> body]
           persons == PersonsIn(batch)
<1>1. persons \in SUBSET Person
  BY BridgeAssumption DEF PersonsIn, Engine!FactVersion
<1>2. JournalInbox' = Append(JournalInbox, persons)
  <2>1. /\ Len(inbox) \in Nat /\ DOMAIN inbox = 1..Len(inbox)
        /\ DOMAIN inbox' = 1..Len(inbox) + 1
        /\ \A i \in DOMAIN inbox : inbox'[i] = inbox[i]
        /\ inbox'[Len(inbox) + 1] = batch
    BY StatedGrows
  <2>2. /\ Len(JournalInbox) = Len(inbox)
        /\ JournalInbox = [i \in 1..Len(inbox) |-> PersonsIn(inbox[i])]
    BY <2>1, SameLengths DEF JournalInbox
  <2>3. JournalInbox' = [i \in 1..Len(inbox) + 1 |-> PersonsIn(inbox'[i])]
    BY <2>1 DEF JournalInbox
  <2>4. Append(JournalInbox, persons)
          = [i \in 1..Len(inbox) + 1 |-> IF i = Len(inbox) + 1 THEN persons ELSE JournalInbox[i]]
    BY <2>1, <2>2, SameLengths, AppendProperties
  <2> HIDE DEF batch
  <2>5. \A i \in 1..Len(inbox) + 1 :
          PersonsIn(inbox'[i]) = IF i = Len(inbox) + 1 THEN persons ELSE JournalInbox[i]
    BY <2>1, <2>2
  <2> QED
    BY <2>3, <2>4, <2>5
<1>3. Len(JournalInbox) < MaxInbox
  BY SameLengths
<1>4. UNCHANGED <<clock, JournalPublications, active, permissions>>
  BY DEF JournalPublications
<1> HIDE DEF persons
<1>5. Journal!Ingest(persons)
  BY <1>2, <1>3, <1>4 DEF Journal!Ingest, JournalInbox, JournalPublications
<1> QED
  BY <1>1, <1>5 DEF Journal!PolicyNext

\* A publication is an evaluation the journal allows: decisions are about whom the
\* batches introduced, and are the same whenever they are made of the same knowledge
\* and clock.
LEMMA PublicationFits ==
  ASSUME InboxInv, PublicationsInv,
         NEW mode \in Mode, NEW at \in 0..MaxClock, NEW known \in 0..MaxInbox,
         Publish(mode, at, known)
  PROVE  Journal!PolicyNext
<1> DEFINE next == Len(publications) + 1
<1> PICK new : new = publications'[next]
  OBVIOUS
<1> DEFINE p == Summary(new)
<1>1. /\ PublicationsInv' /\ at \in Nat /\ known \in 0..Len(inbox)
      /\ inbox' = inbox /\ permissions' = permissions
  BY PublicationsGrow
<1>2. /\ Len(publications) \in Nat /\ DOMAIN publications = 1..Len(publications)
      /\ Len(publications') = next /\ DOMAIN publications' = 1..next
      /\ \A i \in DOMAIN publications : publications'[i] = publications[i]
      /\ new.mode = mode /\ new.clock = at /\ new.known = known
  BY DEF PublicationsInv, Publish
<1>3. /\ new \in Published
      /\ new.decisions = Oracle(inbox, at, known) /\ new.covered = CoverageOf(inbox, at, known)
  <2>1. next \in DOMAIN publications'
    BY <1>2
  <2> HIDE DEF next
  <2> QED
    BY <1>1, <1>2, <2>1 DEF PublicationsInv
<1>4. DOMAIN new.decisions = Journal!Introduced(known) \X Segments
  <2>1. known \in 0..Len(inbox)
    BY <1>1
  <2>2. DOMAIN Oracle(inbox, at, known)
          = {f.person : f \in Raw(First(inbox, known), "facts")} \X Segments
    BY OracleByPerson
  <2> QED
    BY <1>3, <2>1, <2>2, IntroducedIsRaw
<1>5. p \in [mode: Mode, clock: 0..MaxClock, known: 0..MaxInbox,
             member: SUBSET Journal!Key, coverage: BOOLEAN]
  <2>1. Journal!Introduced(known) \subseteq Person
    BY DEF Journal!Introduced
  <2>2. {k \in DOMAIN new.decisions : new.decisions[k].member} \in SUBSET Journal!Key
    BY <1>4, <2>1 DEF Journal!Key
  <2>3. new.covered \in BOOLEAN
    BY <1>3 DEF Published
  <2> QED
    BY <1>2, <2>2, <2>3 DEF Summary
<1>6. Journal!Evaluates(p)
  <2>1. p.clock = at /\ p.known = known /\ p.coverage = new.covered
        /\ p.member = {k \in DOMAIN new.decisions : new.decisions[k].member}
    BY <1>2 DEF Summary
  <2> HIDE DEF p
  <2>2. \A k \in p.member : Journal!PersonOf(k) \in Journal!Introduced(p.known)
    BY <1>4, <2>1 DEF Journal!PersonOf
  <2>3. ASSUME NEW i \in 1..Len(publications),
               JournalPublications[i].clock = at, JournalPublications[i].known = known
        PROVE  /\ JournalPublications[i].member = p.member
               /\ JournalPublications[i].coverage = p.coverage
    <3>1. JournalPublications[i] = Summary(publications[i])
      BY JournalIsSummary
    <3>2. publications[i].clock = at /\ publications[i].known = known
      BY <2>3, <3>1 DEF Summary
    <3>3. /\ publications[i].decisions = new.decisions
          /\ publications[i].covered = new.covered
      BY <1>2, <1>3, <3>2 DEF PublicationsInv
    <3> QED
      BY <2>1, <3>1, <3>3 DEF Summary
  <2>4. Len(JournalPublications) = Len(publications)
    BY JournalIsSummary
  <2> QED
    BY <2>1, <2>2, <2>3, <2>4 DEF Journal!Evaluates, JournalPublications
<1>7. JournalPublications' = Append(JournalPublications, p)
  <2>1. JournalPublications = [i \in 1..Len(publications) |-> Summary(publications[i])]
    BY JournalIsSummary
  <2>2. JournalPublications' = [i \in 1..next |-> Summary(publications'[i])]
    BY <1>2 DEF JournalPublications, Summary
  <2>3. Append(JournalPublications, p)
          = [i \in 1..next |-> IF i = next THEN p ELSE JournalPublications[i]]
    BY <1>2, <2>1
  <2>4. \A i \in 1..next :
          Summary(publications'[i]) = IF i = next THEN p ELSE JournalPublications[i]
    BY <1>2, <2>1
  <2> QED
    BY <2>2, <2>3, <2>4
<1>8. /\ Len(JournalPublications) < MaxPublications
      /\ Journal!PublishAllowed(p.mode, p.clock, p.known)
      /\ IF Journal!TakesEffect(p.mode)
         THEN clock' = p.clock /\ active' = Len(JournalPublications) + 1
         ELSE UNCHANGED <<clock, active>>
  <2>1. p.mode = mode /\ p.clock = at /\ p.known = known
    BY <1>2 DEF Summary
  <2>2. Len(JournalPublications) = Len(publications)
    BY JournalIsSummary
  <2> HIDE DEF p
  <2> QED
    BY <1>2, <2>1, <2>2 DEF Publish, Moves, Journal!TakesEffect
<1>9. UNCHANGED JournalInbox
  BY <1>1 DEF JournalInbox
<1> HIDE DEF p
<1>10. Journal!Publish(p)
  BY <1>1, <1>6, <1>7, <1>8, <1>9
     DEF Journal!Publish, Journal!Position, JournalInbox, JournalPublications
<1>11. \E q \in [mode: Mode, clock: 0..MaxClock, known: 0..MaxInbox,
                member: SUBSET Journal!Key, coverage: BOOLEAN] : Journal!Publish(q)
  BY Zenon, <1>5, <1>10
<1> QED
  BY Zenon, <1>11 DEF Journal!PolicyNext

\* Every step of the journal with the engine behind it is a step of the journal alone.
LEMMA JournalStep ==
  ASSUME InboxInv, PublicationsInv, [Next]_vars
  PROVE  [Journal!PolicyNext]_(Journal!policyVars)
<1>1. CASE UNCHANGED vars
  BY <1>1 DEF vars, Journal!policyVars
<1>2. ASSUME NEW body \in Engine!Batches, Ingest("facts", body) PROVE Journal!PolicyNext
  <2>1. body \subseteq Offered
    BY DEF Engine!Batches
  <2> QED
    BY <1>2, <2>1, IngestFits DEF Ingest
<1>3. ASSUME NEW a \in Asserted, Ingest("coverage", {a}) PROVE Journal!PolicyNext
  BY <1>3, IngestFits DEF Ingest
<1>4. ASSUME NEW mode \in Mode, NEW at \in 0..MaxClock, NEW known \in 0..MaxInbox,
             Publish(mode, at, known)
      PROVE  Journal!PolicyNext
  BY <1>4, PublicationFits
<1>5. ASSUME NEW p \in Person, NEW revision \in 1..MaxPermissions, NEW terms \in Terms,
             Permit(p, revision, terms)
      PROVE  Journal!PolicyNext
  <2>1. Journal!RevisePermission(p, revision, terms)
    BY <1>5 DEF Permit
  <2> QED
    BY <2>1 DEF Journal!PolicyNext
<1> QED
  BY <1>1, <1>2, <1>3, <1>4, <1>5 DEF Next, Again

\* The journal with the engine behind it implements the journal Activation is checked
\* with: evaluation is a function of knowledge and clock (bridge.py:64-106).
THEOREM TheEngineFitsTheJournal == Spec => EvaluationFitsTheJournal
<1> DEFINE Inv == InboxInv /\ PublicationsInv
<1>1. Init => Inv
  BY InboxInit, PublicationsInit
<1>2. Inv /\ [Next]_vars => Inv'
  BY InboxStep, PublicationsStep
<1>3. Init => Journal!PolicyInit
  <2>1. ASSUME Init PROVE Journal!PolicyInit
    <3>1. DOMAIN inbox = {} /\ DOMAIN publications = {}
      BY <2>1 DEF Init
    <3> QED
      BY <2>1, <3>1 DEF Init, Journal!PolicyInit
  <2> QED
    BY <2>1
<1>4. Inv /\ [Next]_vars => [Journal!PolicyNext]_(Journal!policyVars)
  BY JournalStep
<1> QED
  BY <1>1, <1>2, <1>3, <1>4, PTL DEF Spec, EvaluationFitsTheJournal, Journal!PolicySpec

-------------------------------------------------------------------------------
(* The audit. *)

\* No current publication is newer than those the check has read.
NoneNewer ==
  \A i \in Len(seen.publications) + 1 .. Len(publications) : publications[i].mode # "current"

Unmoved == inbox = seen.inbox /\ permissions = seen.permissions /\ NoneNewer

Fields == {"inbox", "publications", "permissions", "clock", "active", "view"}

\* What was read is what the tables began with; and where nothing has overtaken the
\* check, the clock, the pointer and the view it read are those of the tables it read.
AuditInv ==
  /\ step \in 1..Len(Statements) + 1
  /\ verdict # "none" => step = Len(Statements) + 1
  /\ seen = [x \in Fields |-> seen[x]]
  /\ seen.inbox \in Seq(Batch) /\ Beginning(seen.inbox, inbox)
  /\ seen.publications \in Seq(Published) /\ Beginning(seen.publications, publications)
  /\ seen.permissions \in Seq(Permission) /\ Beginning(seen.permissions, permissions)
  /\ step > 4 /\ NoneNewer => seen.clock = clock
  /\ step > 5 /\ NoneNewer => seen.active = active
  /\ step > 6 /\ Unmoved => ~EligibilityDiffers

\* Once raised, an alarm tells of what was overtaken.
AlarmInv == SourceAlarmIsLate /\ AlarmMeansMoved

\* A publication that was read with the batches it knew of passes.
LEMMA KnownPublicationsPass ==
  ASSUME InboxInv, PublicationsInv, AuditInv,
         \A i \in DOMAIN seen.publications : ~(seen.publications[i].known > Len(seen.inbox))
  PROVE  ~SourceDiffers
<1>1. ASSUME NEW i \in DOMAIN seen.publications
      PROVE  LET p == seen.publications[i] IN p.decisions = Oracle(seen.inbox, p.clock, p.known)
  <2> DEFINE p == seen.publications[i]
  <2>1. /\ Len(seen.publications) \in Nat /\ DOMAIN seen.publications = 1..Len(seen.publications)
        /\ Len(publications) \in Nat /\ DOMAIN publications = 1..Len(publications)
        /\ p \in Published /\ Len(seen.inbox) \in Nat
    BY DEF AuditInv, PublicationsInv
  <2>2. i \in DOMAIN publications /\ publications[i] = p
    <3>1. Beginning(seen.publications, publications)
      BY DEF AuditInv
    <3> QED
      BY <2>1, <3>1 DEF Beginning
  <2>3. p.decisions = Oracle(inbox, p.clock, p.known)
    BY <2>2 DEF PublicationsInv
  <2>4. p.known \in 0..Len(seen.inbox)
    BY <2>1 DEF Published
  <2>5. seen.inbox \in Seq(Batch) /\ inbox \in Seq(Batch) /\ Beginning(seen.inbox, inbox)
    BY DEF AuditInv, InboxInv
  <2> HIDE DEF p
  <2>6. Oracle(inbox, p.clock, p.known) = Oracle(seen.inbox, p.clock, p.known)
    BY <2>4, <2>5, BeginningDecides
  <2> QED
    BY <2>3, <2>6 DEF p
<1> QED
  BY <1>1 DEF SourceDiffers

\* Where nothing has moved, the reference expects of what was read what it expects now.
LEMMA ExpectedOfWhatWasRead ==
  ASSUME InboxInv, PublicationsInv, AuditInv, Unmoved
  PROVE  Expected(seen.inbox, seen.publications, seen.permissions, clock, active)
           = Expected(inbox, publications, permissions, clock, active)
<1>1. /\ Len(seen.publications) \in Nat /\ DOMAIN seen.publications = 1..Len(seen.publications)
      /\ Len(publications) \in Nat /\ DOMAIN publications = 1..Len(publications)
      /\ Beginning(seen.publications, publications)
  BY DEF AuditInv, PublicationsInv
<1>2. active \in DOMAIN publications => active \in DOMAIN seen.publications
  BY <1>1 DEF PublicationsInv, Unmoved, NoneNewer
<1>3. \A i \in DOMAIN seen.publications :
        i \in DOMAIN publications /\ seen.publications[i] = publications[i]
  BY <1>1 DEF Beginning
<1>4. seen.inbox = inbox /\ seen.permissions = permissions
  BY DEF Unmoved
<1>5. CASE active \in DOMAIN publications
  <2>1. active \in DOMAIN seen.publications /\ seen.publications[active] = publications[active]
    BY <1>2, <1>3, <1>5
  <2> QED
    BY Zenon, <1>4, <1>5, <2>1 DEF Expected
<1>6. CASE active \notin DOMAIN publications
  <2>1. active \notin DOMAIN seen.publications
    BY <1>3, <1>6
  <2> QED
    BY Zenon, <1>6, <2>1 DEF Expected
<1> QED
  BY <1>5, <1>6

\* Tables only grow, and only a current publication moves the clock and the pointer.
LEMMA TablesGrow ==
  ASSUME [Next]_vars
  PROVE  /\ inbox' = inbox \/ \E x : inbox' = Append(inbox, x)
         /\ permissions' = permissions \/ \E x : permissions' = Append(permissions, x)
         /\ \/ UNCHANGED <<publications, clock, active>>
            \/ \E x : /\ publications' = Append(publications, x)
                      /\ x.mode = "current" \/ UNCHANGED <<clock, active>>
<1>1. ASSUME NEW mode, NEW at, NEW known, Publish(mode, at, known)
      PROVE  /\ UNCHANGED <<inbox, permissions>>
             /\ \E x : /\ publications' = Append(publications, x)
                       /\ x.mode = "current" \/ UNCHANGED <<clock, active>>
  <2> PICK x : x = [mode |-> mode, clock |-> at, known |-> known,
                    decisions |-> Decisions(at, known), covered |-> Covered(at, known)]
    OBVIOUS
  <2>1. publications' = Append(publications, x) /\ x.mode = mode
    BY <1>1 DEF Publish
  <2>2. mode = "current" \/ UNCHANGED <<clock, active>>
    BY <1>1 DEF Publish, Moves
  <2> QED
    BY <1>1, <2>1, <2>2 DEF Publish
<1>2. ASSUME NEW kind, NEW body, Ingest(kind, body)
      PROVE  /\ UNCHANGED <<permissions, publications, clock, active>>
             /\ \E x : inbox' = Append(inbox, x)
  BY <1>2 DEF Ingest
<1>3. ASSUME NEW p, NEW revision, NEW terms, Permit(p, revision, terms)
      PROVE  /\ UNCHANGED <<inbox, publications, clock, active>>
             /\ \E x : permissions' = Append(permissions, x)
  <2>1. permissions' = Append(permissions, [person |-> p, revision |-> revision, terms |-> terms])
    BY <1>3 DEF Permit, Journal!RevisePermission
  <2> QED
    BY <1>3, <2>1 DEF Permit
<1>4. CASE UNCHANGED vars
  BY <1>4 DEF vars
<1>5. CASE Again
  BY <1>5 DEF Again, vars
<1> QED
  BY <1>1, <1>2, <1>3, <1>4, <1>5 DEF Next

\* Beside the check: what has been read stays a beginning, and what has moved stays moved.
LEMMA MovedStaysMoved ==
  ASSUME InboxInv, PublicationsInv, PermissionsInv, AuditInv, [Next]_vars, UNCHANGED auditVars
  PROVE  /\ Beginning(seen.inbox, inbox') /\ Beginning(seen.publications, publications')
         /\ Beginning(seen.permissions, permissions')
         /\ NoneNewer' => NoneNewer /\ UNCHANGED <<clock, active>>
         /\ Unmoved' => Unmoved
<1>1. seen' = seen
  BY DEF auditVars
<1>2. /\ inbox \in Seq(Batch) /\ seen.inbox \in Seq(Batch) /\ Beginning(seen.inbox, inbox)
      /\ publications \in Seq(Published) /\ seen.publications \in Seq(Published)
      /\ Beginning(seen.publications, publications)
      /\ permissions \in Seq(Permission) /\ seen.permissions \in Seq(Permission)
      /\ Beginning(seen.permissions, permissions)
  BY DEF InboxInv, PublicationsInv, PermissionsInv, AuditInv
<1>3. Beginning(seen.inbox, inbox') /\ (inbox' = seen.inbox => inbox = seen.inbox)
  <2>1. CASE inbox' = inbox
    BY <1>2, <2>1
  <2>2. ASSUME NEW x, inbox' = Append(inbox, x)
        PROVE  Beginning(seen.inbox, inbox') /\ inbox' # seen.inbox
    BY <1>2, <2>2, BeginningStays
  <2> QED
    BY <2>1, <2>2, TablesGrow
<1>4. Beginning(seen.permissions, permissions')
      /\ (permissions' = seen.permissions => permissions = seen.permissions)
  <2>1. CASE permissions' = permissions
    BY <1>2, <2>1
  <2>2. ASSUME NEW x, permissions' = Append(permissions, x)
        PROVE  Beginning(seen.permissions, permissions') /\ permissions' # seen.permissions
    BY <1>2, <2>2, BeginningStays
  <2> QED
    BY <2>1, <2>2, TablesGrow
<1>5. /\ Beginning(seen.publications, publications')
      /\ NoneNewer' => NoneNewer /\ UNCHANGED <<clock, active>>
  <2>1. CASE UNCHANGED <<publications, clock, active>>
    BY <1>1, <1>2, <2>1 DEF NoneNewer
  <2>2. ASSUME NEW x, publications' = Append(publications, x),
               x.mode = "current" \/ UNCHANGED <<clock, active>>
        PROVE  /\ Beginning(seen.publications, publications')
               /\ NoneNewer' => NoneNewer /\ UNCHANGED <<clock, active>>
    <3>1. Beginning(seen.publications, publications')
      BY <1>2, <2>2, BeginningStays
    <3>2. /\ Len(publications) \in Nat /\ Len(publications') = Len(publications) + 1
          /\ \A i \in 1..Len(publications) : publications'[i] = publications[i]
          /\ publications'[Len(publications) + 1] = x
          /\ Len(seen.publications) \in Nat /\ Len(seen.publications) <= Len(publications)
      BY <1>2, <2>2 DEF Beginning
    <3>3. ASSUME NoneNewer' PROVE NoneNewer /\ x.mode # "current"
      BY <1>1, <3>2, <3>3 DEF NoneNewer
    <3> QED
      BY <2>2, <3>1, <3>3
  <2> QED
    BY <2>1, <2>2, TablesGrow
<1>6. Unmoved' => Unmoved
  BY <1>1, <1>3, <1>4, <1>5 DEF Unmoved
<1> QED
  BY <1>3, <1>4, <1>5, <1>6

\* A step of the journal beside the check.
LEMMA AuditBeside ==
  ASSUME InboxInv, PublicationsInv, PermissionsInv, AuditInv, AlarmInv,
         [Next]_vars, UNCHANGED auditVars
  PROVE  AuditInv' /\ AlarmInv'
<1>1. seen' = seen /\ step' = step /\ verdict' = verdict
  BY DEF auditVars
<1>2. /\ Beginning(seen.inbox, inbox') /\ Beginning(seen.publications, publications')
      /\ Beginning(seen.permissions, permissions')
      /\ NoneNewer' => NoneNewer /\ UNCHANGED <<clock, active>>
      /\ Unmoved' => Unmoved
  BY MovedStaysMoved
<1>3. EligibilityDiffers' <=> EligibilityDiffers
  BY <1>1 DEF EligibilityDiffers
<1>4. AuditInv'
  BY <1>1, <1>2, <1>3 DEF AuditInv
<1>5. SourceAlarmIsLate'
  BY <1>1 DEF AlarmInv, SourceAlarmIsLate
<1>6. AlarmMeansMoved'
  <2>1. AlarmMeansMoved <=> (verdict \notin {"none", "row_differences_0"} => ~Unmoved)
    BY DEF AlarmMeansMoved, Unmoved, NoneNewer
  <2>2. AlarmMeansMoved' <=> (verdict' \notin {"none", "row_differences_0"} => ~Unmoved')
    BY DEF AlarmMeansMoved, Unmoved, NoneNewer
  <2> QED
    BY <1>1, <1>2, <2>1, <2>2 DEF AlarmInv
<1> QED
  BY <1>4, <1>5, <1>6 DEF AlarmInv

\* A read returns what its table holds now.
LEMMA ReadReturns ==
  ASSUME AuditInv, Read
  PROVE  /\ step \in 1..6 /\ step' = step + 1 /\ verdict = "none" /\ UNCHANGED <<vars, verdict>>
         /\ seen' = [x \in Fields |-> seen'[x]]
         /\ seen'.inbox = IF step = 1 THEN inbox ELSE seen.inbox
         /\ seen'.publications = IF step = 2 THEN publications ELSE seen.publications
         /\ seen'.permissions = IF step = 3 THEN permissions ELSE seen.permissions
         /\ seen'.clock = IF step = 4 THEN clock ELSE seen.clock
         /\ seen'.active = IF step = 5 THEN active ELSE seen.active
         /\ seen'.view = IF step = 6 THEN EligibleKeys ELSE seen.view
<1>1. /\ step \in 1..6 /\ step' = step + 1 /\ verdict = "none" /\ UNCHANGED <<vars, verdict>>
      /\ seen = [x \in Fields |-> seen[x]]
      /\ seen' = [seen EXCEPT ![Statements[step]] = Now[Statements[step]]]
  BY DEF AuditInv, Read, Statements
<1>2. /\ Statements[1] = "inbox" /\ Statements[2] = "publications" /\ Statements[3] = "permissions"
      /\ Statements[4] = "clock" /\ Statements[5] = "active" /\ Statements[6] = "view"
  BY DEF Statements
<1>3. /\ Now["inbox"] = inbox /\ Now["publications"] = publications
      /\ Now["permissions"] = permissions
      /\ Now["clock"] = clock /\ Now["active"] = active /\ Now["view"] = EligibleKeys
  BY DEF Now
<1>4. step = 1 \/ step = 2 \/ step = 3 \/ step = 4 \/ step = 5 \/ step = 6
  BY <1>1
<1>5. \A x \in Fields : seen'[x] = IF x = Statements[step] THEN Now[x] ELSE seen[x]
  BY <1>1
<1>6. seen' = [x \in Fields |-> seen'[x]]
  BY <1>1
<1>7. /\ seen'["inbox"] = IF step = 1 THEN inbox ELSE seen["inbox"]
      /\ seen'["publications"] = IF step = 2 THEN publications ELSE seen["publications"]
      /\ seen'["permissions"] = IF step = 3 THEN permissions ELSE seen["permissions"]
      /\ seen'["clock"] = IF step = 4 THEN clock ELSE seen["clock"]
      /\ seen'["active"] = IF step = 5 THEN active ELSE seen["active"]
      /\ seen'["view"] = IF step = 6 THEN EligibleKeys ELSE seen["view"]
  BY <1>2, <1>3, <1>4, <1>5 DEF Fields
<1> QED
  BY <1>1, <1>6, <1>7

\* A read of the check.
LEMMA AuditReads ==
  ASSUME InboxInv, PublicationsInv, PermissionsInv, AuditInv, Read
  PROVE  AuditInv' /\ AlarmInv'
<1>1. /\ step \in 1..6 /\ step' = step + 1 /\ verdict = "none" /\ verdict' = "none"
      /\ inbox' = inbox /\ publications' = publications /\ permissions' = permissions
      /\ clock' = clock /\ active' = active
      /\ seen' = [x \in Fields |-> seen'[x]]
      /\ seen'.inbox = IF step = 1 THEN inbox ELSE seen.inbox
      /\ seen'.publications = IF step = 2 THEN publications ELSE seen.publications
      /\ seen'.permissions = IF step = 3 THEN permissions ELSE seen.permissions
      /\ seen'.clock = IF step = 4 THEN clock ELSE seen.clock
      /\ seen'.active = IF step = 5 THEN active ELSE seen.active
      /\ seen'.view = IF step = 6 THEN EligibleKeys ELSE seen.view
  BY ReadReturns DEF vars
<1>2. /\ seen'.inbox \in Seq(Batch) /\ Beginning(seen'.inbox, inbox)
      /\ seen'.publications \in Seq(Published) /\ Beginning(seen'.publications, publications)
      /\ seen'.permissions \in Seq(Permission) /\ Beginning(seen'.permissions, permissions)
  <2>1. /\ inbox \in Seq(Batch) /\ publications \in Seq(Published)
        /\ permissions \in Seq(Permission)
    BY DEF InboxInv, PublicationsInv, PermissionsInv
  <2>2. /\ Beginning(inbox, inbox) /\ Beginning(publications, publications)
        /\ Beginning(permissions, permissions)
    BY <2>1, BeginningOfItself
  <2>3. /\ seen.inbox \in Seq(Batch) /\ Beginning(seen.inbox, inbox)
        /\ seen.publications \in Seq(Published) /\ Beginning(seen.publications, publications)
        /\ seen.permissions \in Seq(Permission) /\ Beginning(seen.permissions, permissions)
    BY DEF AuditInv
  <2> QED
    BY <1>1, <2>1, <2>2, <2>3
<1>3. step' \in 1..Len(Statements) + 1 /\ Len(Statements) = 6
  BY <1>1 DEF Statements
<1>4. step # 2 => (NoneNewer' <=> NoneNewer)
  BY <1>1 DEF NoneNewer
<1>5. step' > 4 /\ NoneNewer' => seen'.clock = clock'
  BY <1>1, <1>4 DEF AuditInv
<1>6. step' > 5 /\ NoneNewer' => seen'.active = active'
  BY <1>1, <1>4 DEF AuditInv
<1>7. ASSUME step' > 6, Unmoved' PROVE ~EligibilityDiffers'
  <2>1. /\ step = 6 /\ seen'.inbox = seen.inbox /\ seen'.publications = seen.publications
        /\ seen'.permissions = seen.permissions /\ seen'.view = EligibleKeys
    BY <1>1, <1>7
  <2>2. Unmoved
    BY <1>1, <1>4, <1>7, <2>1 DEF Unmoved
  <2>3. seen'.clock = clock /\ seen'.active = active
    BY <1>1, <1>5, <1>6, <1>7, <2>1 DEF Unmoved
  <2>4. EligibleKeys = Expected(seen.inbox, seen.publications, seen.permissions, clock, active)
    BY Zenon, <2>2, ViewIsExpected, ExpectedOfWhatWasRead
  <2>5. seen'.view
          = Expected(seen'.inbox, seen'.publications, seen'.permissions, seen'.clock, seen'.active)
    BY Zenon, <2>1, <2>3, <2>4
  <2> QED
    BY Zenon, <2>5 DEF EligibilityDiffers
<1>8. AuditInv'
  BY <1>1, <1>2, <1>3, <1>5, <1>6, <1>7 DEF AuditInv
<1>9. AlarmInv'
  BY <1>1 DEF AlarmInv, SourceAlarmIsLate, AlarmMeansMoved
<1> QED
  BY <1>8, <1>9

\* The comparison.
LEMMA AuditConcludes ==
  ASSUME InboxInv, PublicationsInv, PermissionsInv, AuditInv, Conclude
  PROVE  AuditInv' /\ AlarmInv'
<1>1. /\ step = 7 /\ seen' = seen /\ step' = step
      /\ inbox' = inbox /\ publications' = publications /\ permissions' = permissions
      /\ clock' = clock /\ active' = active
      /\ verdict' = IF SourceDiffers THEN "raw_source_temporal_oracle_difference"
                    ELSE IF EligibilityDiffers THEN "current_permission_or_grain_oracle_difference"
                    ELSE "row_differences_0"
  BY DEF Conclude, vars, Statements
<1>2. Len(Statements) = 6
  BY DEF Statements
<1>3. EligibilityDiffers' <=> EligibilityDiffers
  BY <1>1 DEF EligibilityDiffers
<1>4. (NoneNewer' <=> NoneNewer) /\ (Unmoved' <=> Unmoved)
  BY <1>1 DEF NoneNewer, Unmoved
<1>5. AuditInv'
  BY <1>1, <1>2, <1>3, <1>4 DEF AuditInv
<1>6. SourceDiffers => \E i \in DOMAIN seen.publications :
                         seen.publications[i].known > Len(seen.inbox)
  BY KnownPublicationsPass
<1>7. ASSUME SourceDiffers PROVE ~Unmoved
  <2>1. PICK i \in DOMAIN seen.publications : seen.publications[i].known > Len(seen.inbox)
    BY <1>6, <1>7
  <2>2. /\ DOMAIN seen.publications = 1..Len(seen.publications)
        /\ Len(seen.publications) \in Nat /\ Len(publications) \in Nat
        /\ DOMAIN publications = 1..Len(publications)
        /\ Beginning(seen.publications, publications)
    BY DEF AuditInv, PublicationsInv
  <2>3. i \in DOMAIN publications /\ publications[i] = seen.publications[i]
    BY <2>1, <2>2 DEF Beginning
  <2>4. publications[i] \in Published /\ publications[i].known <= Len(inbox)
    BY <2>3 DEF PublicationsInv
  <2>5. publications[i].known \in Nat /\ Len(inbox) \in Nat
    BY <2>4 DEF Published, InboxInv
  <2>6. Len(seen.inbox) # Len(inbox)
    BY <2>1, <2>3, <2>4, <2>5
  <2> QED
    BY <2>6 DEF Unmoved
<1>8. EligibilityDiffers => ~Unmoved
  BY <1>1 DEF AuditInv
<1>9. SourceAlarmIsLate'
  BY <1>1, <1>6 DEF SourceAlarmIsLate
<1>10. AlarmMeansMoved'
  <2>1. AlarmMeansMoved' <=> (verdict' \notin {"none", "row_differences_0"} => ~Unmoved')
    BY DEF AlarmMeansMoved, Unmoved, NoneNewer
  <2> QED
    BY <1>1, <1>4, <1>7, <1>8, <2>1
<1> QED
  BY <1>5, <1>9, <1>10 DEF AlarmInv

LEMMA AuditInitInv == AuditInit => AuditInv /\ AlarmInv
<1> SUFFICES ASSUME AuditInit PROVE AuditInv /\ AlarmInv
  OBVIOUS
<1>1. /\ step = 1 /\ verdict = "none" /\ seen = Now
      /\ inbox = <<>> /\ publications = <<>> /\ permissions = <<>>
  BY DEF AuditInit, Init
<1>2. /\ seen = [x \in Fields |-> seen[x]]
      /\ seen.inbox = inbox /\ seen.publications = publications /\ seen.permissions = permissions
  BY <1>1 DEF Now, Fields
<1>3. /\ seen.inbox \in Seq(Batch) /\ Beginning(seen.inbox, inbox)
      /\ seen.publications \in Seq(Published) /\ Beginning(seen.publications, publications)
      /\ seen.permissions \in Seq(Permission) /\ Beginning(seen.permissions, permissions)
  <2>1. <<>> \in Seq(Batch) /\ <<>> \in Seq(Published) /\ <<>> \in Seq(Permission)
    OBVIOUS
  <2>2. Beginning(<<>>, <<>>)
    BY <2>1, BeginningOfItself
  <2> QED
    BY <1>1, <1>2, <2>1, <2>2
<1>4. AuditInv
  BY <1>1, <1>2, <1>3 DEF AuditInv, Statements
<1>5. AlarmInv
  BY <1>1 DEF AlarmInv, SourceAlarmIsLate, AlarmMeansMoved
<1> QED
  BY <1>4, <1>5

AllInv == InboxInv /\ PublicationsInv /\ PermissionsInv /\ AuditInv /\ AlarmInv

LEMMA AuditStep == AllInv /\ [AuditNext]_<<vars, auditVars>> => AllInv'
<1> SUFFICES ASSUME AllInv, [AuditNext]_<<vars, auditVars>> PROVE AllInv'
  OBVIOUS
<1>1. InboxInv /\ PublicationsInv /\ PermissionsInv /\ AuditInv /\ AlarmInv
  BY DEF AllInv
<1>2. [Next]_vars
  BY DEF AuditNext, Read, Conclude
<1>3. InboxInv' /\ PublicationsInv' /\ PermissionsInv'
  BY <1>1, <1>2, InboxStep, PublicationsStep, PermissionsStep
<1>4. CASE UNCHANGED auditVars
  BY <1>1, <1>2, <1>3, <1>4, AuditBeside DEF AllInv
<1>5. CASE Read
  BY <1>1, <1>3, <1>5, AuditReads DEF AllInv
<1>6. CASE Conclude
  BY <1>1, <1>3, <1>6, AuditConcludes DEF AllInv
<1> QED
  BY <1>4, <1>5, <1>6 DEF AuditNext

\* Decisions are called wrong only if the check has read a publication of batches it
\* had not read: only ingestion and publication between its first two reads can make
\* it say so (oracle.py:40-41,50-54).
THEOREM SourceAlarmsAreLate == AuditSpec => []SourceAlarmIsLate
<1>1. AuditInit => AllInv
  BY AuditInitInv, InboxInit, PublicationsInit, PermissionsInit DEF AuditInit, AllInv
<1>2. AllInv => SourceAlarmIsLate
  BY DEF AllInv, AlarmInv
<1> QED
  BY <1>1, <1>2, AuditStep, PTL DEF AuditSpec

\* Whatever the requests beside it, a difference is reported only if ingestion, a
\* current publication or a permission revision overtook the check
\* (oracle.py:40-45,72-74, console.py:82).
THEOREM AlarmsMeanMoved == AuditSpec => []AlarmMeansMoved
<1>1. AuditInit => AllInv
  BY AuditInitInv, InboxInit, PublicationsInit, PermissionsInit DEF AuditInit, AllInv
<1>2. AllInv => AlarmMeansMoved
  BY DEF AllInv, AlarmInv
<1> QED
  BY <1>1, <1>2, AuditStep, PTL DEF AuditSpec

================================================================================
