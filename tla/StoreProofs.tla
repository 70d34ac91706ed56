------------------------------ MODULE StoreProofs ------------------------------
(***************************************************************************)
(* Lemmas about the store and about what is computed from it, for every    *)
(* set of offered facts and assertions and any number of batches: what a   *)
(* stored row looks like and that each fact has one latest version; that   *)
(* an evaluation at some knowledge reads no row that became known later;   *)
(* and that nothing about a person changes before its timer is due.        *)
(***************************************************************************)
EXTENDS Store, FiniteSetTheorems, TLAPS

\* Rows as they are stored.
StoredVersion ==
  [source: {"profile", "activity"}, id: FactId, revision: Nat \ {0}, person: Person,
   effective: Nat, value: FactValue, retracted: BOOLEAN, known: Nat]

StoredAssertion ==
  [revision: Nat \ {0}, after: Nat, through: Nat, retracted: BOOLEAN, known: Nat]

\* Finitely many rows, one per revision, all versions of a fact about one person.
FactsInv ==
  /\ facts \subseteq StoredVersion /\ IsFiniteSet(facts)
  /\ \A f, g \in facts : Identity(f) = Identity(g) => f = g
  /\ \A f, g \in facts : f.source = g.source /\ f.id = g.id => f.person = g.person

CoverageInv ==
  /\ coverage \subseteq StoredAssertion /\ IsFiniteSet(coverage)
  /\ \A a, b \in coverage : a.revision = b.revision => a = b
  /\ \A a \in coverage : a.after < a.through

StoreInv == head \in Nat /\ FactsInv /\ CoverageInv

-------------------------------------------------------------------------------
(* The store's invariant. *)

LEMMA RowParts ==
  ASSUME NEW f \in FactVersion, NEW known \in Nat
  PROVE  /\ Row(f, known) \in StoredVersion
         /\ Identity(Row(f, known)) = Identity(f)
         /\ Row(f, known).source = f.source /\ Row(f, known).id = f.id
         /\ Row(f, known).person = f.person
BY DEF FactVersion, StoredVersion, Row, Identity

LEMMA IngestKeepsFacts ==
  ASSUME StoreInv, NEW batch \in Batches, Ingest(batch)
  PROVE  FactsInv'
<1> DEFINE new == {Row(f, head') : f \in News(batch)}
<1>1. head' \in Nat /\ facts' = facts \union new
  BY DEF StoreInv, Ingest
<1>2. News(batch) \subseteq batch /\ batch \subseteq FactVersion /\ IsFiniteSet(batch)
  BY StoreAssumption DEF Batches, News
<1>3. \A f \in News(batch) : /\ Row(f, head') \in StoredVersion
                             /\ Identity(Row(f, head')) = Identity(f)
                             /\ Row(f, head').source = f.source /\ Row(f, head').id = f.id
                             /\ Row(f, head').person = f.person
  BY <1>1, <1>2, RowParts
<1>4. IsFiniteSet(new)
  <2> DEFINE row == [f \in News(batch) |-> Row(f, head')]
  <2>1. row \in Surjection(News(batch), new)
    BY DEF Surjection
  <2>2. IsFiniteSet(News(batch))
    BY <1>2, FS_Subset
  <2> QED
    BY <2>1, <2>2, FS_Surjection
<1>5. facts' \subseteq StoredVersion /\ IsFiniteSet(facts')
  BY <1>1, <1>3, <1>4, FS_Union DEF StoreInv, FactsInv
<1>6. ASSUME NEW f \in facts', NEW g \in facts', Identity(f) = Identity(g)
      PROVE  f = g
  <2>1. ASSUME NEW x \in News(batch), NEW y \in News(batch), Identity(x) = Identity(y)
        PROVE  x = y
    BY <1>2, <2>1 DEF Ingest, Admissible
  <2>2. ASSUME NEW x \in News(batch), NEW y \in facts PROVE Identity(x) # Identity(y)
    BY <2>2 DEF News
  <2> QED
    BY <1>1, <1>3, <1>6, <2>1, <2>2 DEF StoreInv, FactsInv
<1>7. ASSUME NEW f \in facts', NEW g \in facts', f.source = g.source, f.id = g.id
      PROVE  f.person = g.person
  <2>1. ASSUME NEW x \in News(batch), NEW y \in facts \union batch,
               x.source = y.source, x.id = y.id
        PROVE  x.person = y.person
    BY <1>2, <2>1 DEF Ingest, Admissible
  <2> QED
    BY <1>1, <1>2, <1>3, <1>7, <2>1 DEF StoreInv, FactsInv
<1> QED
  BY <1>5, <1>6, <1>7 DEF FactsInv

LEMMA IngestKeepsCoverage ==
  ASSUME StoreInv, NEW a \in Asserted, IngestCoverage(a)
  PROVE  CoverageInv'
<1> DEFINE row == AssertionRow(a, head')
<1>1. head' \in Nat /\ a \in Assertion /\ a.after < a.through
  BY StoreAssumption DEF StoreInv, IngestCoverage
<1>2. row \in StoredAssertion /\ row.revision = a.revision /\ row.after < row.through
  BY <1>1 DEF AssertionRow, Assertion, StoredAssertion
<1>3. CASE coverage' = coverage
  BY <1>3 DEF StoreInv, CoverageInv
<1>4. CASE coverage' # coverage
  <2>1. coverage' = coverage \union {row} /\ \A b \in coverage : b.revision # a.revision
    BY <1>4 DEF IngestCoverage
  <2>2. IsFiniteSet(coverage')
    BY <2>1, FS_AddElement DEF StoreInv, CoverageInv
  <2> HIDE DEF row
  <2> QED
    BY <1>2, <2>1, <2>2 DEF StoreInv, CoverageInv
<1> QED
  BY <1>3, <1>4

LEMMA StoreInitInv == StoreInit => StoreInv
BY FS_EmptySet DEF StoreInit, StoreInv, FactsInv, CoverageInv

LEMMA StoreStepInv == StoreInv /\ [StoreNext]_storeVars => StoreInv'
<1> SUFFICES ASSUME StoreInv, [StoreNext]_storeVars PROVE StoreInv'
  OBVIOUS
<1>1. ASSUME NEW batch \in Batches, Ingest(batch) PROVE StoreInv'
  BY <1>1, IngestKeepsFacts DEF Ingest, StoreInv, CoverageInv
<1>2. ASSUME NEW a \in Asserted, IngestCoverage(a) PROVE StoreInv'
  BY <1>2, IngestKeepsCoverage DEF IngestCoverage, StoreInv, FactsInv
<1>3. CASE IngestAgain \/ UNCHANGED storeVars
  BY <1>3 DEF IngestAgain, storeVars, StoreInv, FactsInv, CoverageInv
<1> QED
  BY <1>1, <1>2, <1>3 DEF StoreNext

LEMMA StoreInvHolds == StoreSpec => []StoreInv
BY StoreInitInv, StoreStepInv, PTL DEF StoreSpec

-------------------------------------------------------------------------------
(* Evaluations read what is known, and nothing else. *)

\* Where the same is known of p, p has the same features.
LEMMA FeaturesRestOnKnown ==
  ASSUME NEW one, NEW other, NEW p, NEW clock, NEW known, NEW later, NEW rules,
         KnownOf(one, p, known) = KnownOf(other, p, later)
  PROVE  Features(one, p, clock, known, rules) = Features(other, p, clock, later, rules)
<1>1. Ranked(one, p, known) = Ranked(other, p, later)
  BY DEF Ranked
<1>2. Visible(one, p, known) = Visible(other, p, later)
  BY <1>1 DEF Visible
<1>3. QED
  BY <1>2 DEF Features

\* Two sets of assertions with the same one in force give the same gate.
LEMMA GateRestsOnInForce ==
  ASSUME NEW one, NEW other, NEW clock, NEW known, NEW window,
         InForce(one, known) = InForce(other, known)
  PROVE  Covered(one, clock, known, window) = Covered(other, clock, known, window)
BY DEF Covered

-------------------------------------------------------------------------------
(* What a batch adds is not known before it. *)

LEMMA IngestKeepsKnown ==
  ASSUME StoreInv, NEW batch, Ingest(batch), NEW p, NEW known \in 0..head
  PROVE  KnownOf(facts', p, known) = KnownOf(facts, p, known)
<1>1. \A f \in News(batch) : ~(Row(f, head').known <= known)
  BY DEF StoreInv, Ingest, Row
<1>2. facts' = facts \union {Row(f, head') : f \in News(batch)}
  BY DEF Ingest
<1>3. \A g \in facts' : g.known <= known => g \in facts
  BY <1>1, <1>2
<1>4. QED
  BY <1>2, <1>3 DEF KnownOf

LEMMA CoverageKeepsInForce ==
  ASSUME StoreInv, NEW a, IngestCoverage(a), NEW known \in 0..head
  PROVE  InForce(coverage', known) = InForce(coverage, known)
<1>1. ~(AssertionRow(a, head').known <= known)
  BY DEF StoreInv, IngestCoverage, AssertionRow
<1>2. coverage' = coverage \/ coverage' = coverage \union {AssertionRow(a, head')}
  BY DEF IngestCoverage
<1>3. /\ coverage \subseteq coverage'
      /\ \A b \in coverage' : b.known <= known => b \in coverage
  BY <1>1, <1>2
<1>4. QED
  BY <1>3 DEF InForce

-------------------------------------------------------------------------------
(* Time. *)

\* A set of times that is not empty has a least one.
LEMMA LeastExists ==
  ASSUME NEW times \in SUBSET Nat, times # {}
  PROVE  \E t \in times : \A u \in times : t <= u
<1> DEFINE Before == OpToRel(<, Nat)
<1>1. IsWellFoundedOn(Before, Nat)
  BY NatLessThanWellFounded
<1>2. \A x, y \in Nat : y < x => <<y, x>> \in Before
  BY DEF OpToRel
<1> HIDE DEF Before
<1>3. PICK t \in times : \A u \in times : ~(<<u, t>> \in Before)
  BY <1>1, WFMin
<1>4. \A u \in times : t \in Nat /\ u \in Nat
  BY <1>3
<1>5. \A u \in times : ~(u < t)
  BY <1>2, <1>3, <1>4
<1>6. \A u \in times : t <= u
  BY <1>4, <1>5
<1>7. QED
  BY <1>3, <1>6

\* Before the earliest of some positive times, none of them has come.
LEMMA NoneBeforeEarliest ==
  ASSUME NEW times \in SUBSET (Nat \ {0}), NEW later \in Nat,
         Earliest(times) = 0 \/ later < Earliest(times)
  PROVE  \A t \in times : later < t
<1>1. CASE times = {}
  BY <1>1
<1>2. CASE times # {}
  <2>1. Earliest(times) \in times /\ \A u \in times : Earliest(times) <= u
    BY <1>2, LeastExists DEF Earliest
  <2>2. Earliest(times) \in Nat \ {0} /\ \A t \in times : t \in Nat
    BY <2>1
  <2>3. QED
    BY <2>1, <2>2
<1>3. QED
  BY <1>1, <1>2

\* The two ways to be a boundary.
LEMMA BoundaryMember ==
  ASSUME NEW visible, NEW clock, NEW rules, NEW t
  PROVE  t \in Boundaries(visible, clock, rules) <=>
           \/ \E f \in visible : f.effective > clock /\ t = f.effective
           \/ \E f \in Qualified(visible), w \in {rules.engaged_window, rules.quiet_window} :
                f.effective <= clock /\ t = f.effective + w /\ t > clock
BY DEF Boundaries, Starts

\* What the boundaries of a set of visible versions say of the time up to later: no
\* version becomes effective, and no qualified event leaves either window.
LEMMA BoundariesAreComplete ==
  ASSUME NEW visible, \A f \in visible : f.effective \in Nat,
         NEW rules \in RuleSet, NEW clock \in Nat, NEW later \in Nat, clock <= later,
         \A t \in Boundaries(visible, clock, rules) : later < t
  PROVE  /\ \A f \in visible : f.effective <= later <=> f.effective <= clock
         /\ \A f \in Qualified(visible) : f.effective <= clock =>
              \A w \in {rules.engaged_window, rules.quiet_window} :
                later < f.effective + w <=> clock < f.effective + w
<1>1. \A f \in visible : f.effective > clock => later < f.effective
  BY DEF Boundaries, Starts
<1>2. \A f \in visible : f.effective <= later <=> f.effective <= clock
  BY <1>1
<1>3. \A w \in {rules.engaged_window, rules.quiet_window} : w \in Nat
  BY DEF RuleSet
<1>4. \A f \in Qualified(visible) : f \in visible /\ f.effective \in Nat
  BY DEF Qualified
<1>5. \A f \in Qualified(visible), w \in {rules.engaged_window, rules.quiet_window} :
        f.effective <= clock /\ f.effective + w > clock => later < f.effective + w
  BY DEF Boundaries, Starts
<1>6. QED
  BY <1>2, <1>3, <1>4, <1>5

\* Whatever is not due at a later time is then as it was.
LEMMA FeaturesHoldUntilDue ==
  ASSUME NEW rows, \A f \in rows : f.effective \in Nat, NEW p, NEW known,
         NEW rules \in RuleSet, NEW clock \in Nat, NEW later \in Nat, clock <= later,
         \/ Features(rows, p, clock, known, rules).next_due = 0
         \/ later < Features(rows, p, clock, known, rules).next_due
  PROVE  Features(rows, p, later, known, rules) = Features(rows, p, clock, known, rules)
<1> DEFINE visible == Visible(rows, p, known)
           windows == {rules.engaged_window, rules.quiet_window}
<1>1. \A f \in visible : f.effective \in Nat
  BY DEF Visible, Ranked, KnownOf
<1>2. \A w \in windows : w \in Nat
  BY DEF RuleSet
<1>3. Boundaries(visible, clock, rules) \in SUBSET (Nat \ {0})
  <2>1. \A f \in visible : f.effective > clock => f.effective \in Nat \ {0}
    BY <1>1
  <2>2. \A f \in Qualified(visible), w \in windows :
          f.effective + w > clock => f.effective + w \in Nat \ {0}
    BY <1>1, <1>2 DEF Qualified
  <2>3. QED
    BY <2>1, <2>2 DEF Boundaries, Starts
<1>4. Features(rows, p, clock, known, rules).next_due
        = Earliest(Boundaries(visible, clock, rules))
  BY DEF Features
<1> HIDE DEF visible
<1>5. \A t \in Boundaries(visible, clock, rules) : later < t
  BY <1>3, <1>4, NoneBeforeEarliest
<1>6. \A f \in visible : f.effective <= later <=> f.effective <= clock
  BY <1>1, <1>5, BoundariesAreComplete
<1>7. \A f \in Qualified(visible), w \in windows :
        f.effective <= clock => (later < f.effective + w <=> clock < f.effective + w)
  BY <1>1, <1>5, BoundariesAreComplete
<1>8. \A f \in Qualified(visible) : f \in visible /\ f.effective \in Nat
  BY <1>1 DEF Qualified
<1>9. ProfileNow(visible, later) = ProfileNow(visible, clock)
  BY <1>6 DEF ProfileNow
<1>10. \A w \in windows : Within(visible, later, w) = Within(visible, clock, w)
  <2> SUFFICES ASSUME NEW w \in windows, NEW f \in Qualified(visible)
               PROVE  later - w < f.effective /\ f.effective <= later
                        <=> clock - w < f.effective /\ f.effective <= clock
    BY DEF Within
  <2>1. f.effective <= later <=> f.effective <= clock
    BY <1>6, <1>8
  <2>2. f.effective <= clock => (later < f.effective + w <=> clock < f.effective + w)
    BY <1>7
  <2>3. w \in Nat /\ f.effective \in Nat
    BY <1>2, <1>8
  <2>4. QED
    BY <2>1, <2>2, <2>3
<1>11. Boundaries(visible, later, rules) = Boundaries(visible, clock, rules)
  <2>1. \A f \in visible : f.effective > later <=> f.effective > clock
    BY <1>1, <1>6
  <2>2. \A f \in Qualified(visible) : f.effective <= later <=> f.effective <= clock
    BY <1>6, <1>8
  <2>3. \A f \in Qualified(visible), w \in windows :
          f.effective <= clock =>
            (f.effective + w > later <=> f.effective + w > clock)
    BY <1>2, <1>7, <1>8
  <2>4. QED
    <3> SUFFICES ASSUME NEW t
                 PROVE  t \in Boundaries(visible, later, rules)
                          <=> t \in Boundaries(visible, clock, rules)
      OBVIOUS
    <3>1. (\E f \in visible : f.effective > later /\ t = f.effective)
            <=> (\E f \in visible : f.effective > clock /\ t = f.effective)
      BY <2>1
    <3>2. (\E f \in Qualified(visible), w \in windows :
             f.effective <= later /\ t = f.effective + w /\ t > later)
            <=> (\E f \in Qualified(visible), w \in windows :
                   f.effective <= clock /\ t = f.effective + w /\ t > clock)
      BY <2>2, <2>3
    <3>3. QED
      BY <3>1, <3>2, BoundaryMember
<1>12. Wider(rules) \in windows
  BY DEF Wider
<1>13. ProfileState(visible, later) = ProfileState(visible, clock)
  BY <1>9 DEF ProfileState
<1>14. QED
  BY <1>9, <1>10, <1>11, <1>12, <1>13 DEF Features, visible
===============================================================================
