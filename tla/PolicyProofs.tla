----------------------------- MODULE PolicyProofs -----------------------------
(***************************************************************************)
(* What holds of the policy journal for every set of persons, audiences    *)
(* and permission terms, and every bound.                                  *)
(***************************************************************************)
EXTENDS Policy, TLAPS

\* Each person with a permission has a latest one.  PermissionFor is a CHOOSE, so
\* nothing can be said of it before this is known.
LatestExists ==
  \A p \in Person : RevisionsOf(p) # {} => HighestOf(p) # {}

\* No publication knows more than has been admitted.
KnownIsAdmitted ==
  \A i \in 1..Len(publications) : publications[i].known <= Len(inbox)

PolicyInv == PolicyTypeOK /\ LatestExists /\ ActiveIsNewestCurrent /\ KnownIsAdmitted

-------------------------------------------------------------------------------
\* PermissionFor(p) is 0 or the position of p's highest revision.
LEMMA PermissionForLatest ==
  ASSUME PolicyTypeOK, LatestExists, NEW p \in Person
  PROVE  /\ PermissionFor(p) \in 0..Len(permissions)
         /\ PermissionFor(p) = 0 <=> RevisionsOf(p) = {}
         /\ PermissionFor(p) # 0 =>
              /\ PermissionFor(p) \in RevisionsOf(p)
              /\ permissions[PermissionFor(p)] \in Permission
              /\ \A j \in RevisionsOf(p) :
                   permissions[j].revision <= permissions[PermissionFor(p)].revision
<1>1. Len(permissions) \in Nat /\ \A i \in 1..Len(permissions) : permissions[i] \in Permission
  BY DEF PolicyTypeOK
<1>2. RevisionsOf(p) \subseteq 1..Len(permissions)
  BY DEF RevisionsOf
<1>3. CASE RevisionsOf(p) = {}
  BY <1>1, <1>3 DEF PermissionFor
<1>4. CASE RevisionsOf(p) # {}
  <2>1. PermissionFor(p) \in HighestOf(p)
    BY <1>4 DEF LatestExists, PermissionFor
  <2> QED
    BY <1>1, <1>2, <1>4, <2>1 DEF HighestOf
<1> QED
  BY <1>3, <1>4

\* Every key's fingerprint is well formed.
LEMMA AuthorityType ==
  ASSUME PolicyTypeOK, LatestExists, NEW k \in Key
  PROVE  /\ PublicationFor(k) \in 0..Len(publications)
         /\ Authority(k) \in [publication: Nat, permission: Nat, reason: Reasons]
<1>1. PersonOf(k) \in Person
  BY DEF Key, PersonOf
<1>2. PublicationFor(k) \in 0..Len(publications) /\ Len(publications) \in Nat
  BY DEF PublicationFor, PolicyTypeOK
<1>3. PermissionFor(PersonOf(k)) \in Nat
  <2>1. Len(permissions) \in Nat
    BY DEF PolicyTypeOK
  <2> QED
    BY <1>1, <2>1, PermissionForLatest
<1>4. Reason(k) \in Reasons
  BY DEF Reason, PermissionReason, Reasons
<1> QED
  BY <1>2, <1>3, <1>4 DEF Authority

-------------------------------------------------------------------------------
(* The invariant is inductive. *)

LEMMA PolicyInitInv == PolicyInit => PolicyInv
<1> SUFFICES ASSUME PolicyInit PROVE PolicyInv
  OBVIOUS
<1>1. PolicyTypeOK
  BY DEF PolicyInit, PolicyTypeOK
<1>2. LatestExists
  BY DEF PolicyInit, LatestExists, RevisionsOf
<1>3. ActiveIsNewestCurrent
  BY DEF PolicyInit, ActiveIsNewestCurrent
<1>4. KnownIsAdmitted
  BY DEF PolicyInit, KnownIsAdmitted
<1> QED
  BY <1>1, <1>2, <1>3, <1>4 DEF PolicyInv

\* The journal after a new revision: p's latest is the new one, others keep theirs.
LEMMA ReviseKeepsLatest ==
  ASSUME PolicyTypeOK, LatestExists,
         NEW p \in Person, NEW revision \in Nat \ {0}, NEW terms \in Terms,
         RevisePermission(p, revision, terms)
  PROVE  /\ permissions' \in Seq(Permission)
         /\ LatestExists'
         /\ Len(permissions) \in Nat
         /\ \A i \in 1..Len(permissions) : permissions'[i] = permissions[i]
         /\ \A q \in Person :
              PermissionFor(q)' = IF q = p THEN Len(permissions) + 1 ELSE PermissionFor(q)
<1> DEFINE new == [person |-> p, revision |-> revision, terms |-> terms]
           n == Len(permissions) + 1
<1>1. new \in Permission
  BY DEF Permission
<1>2. /\ permissions \in Seq(Permission) /\ Len(permissions) \in Nat
      /\ \A i \in 1..Len(permissions) : permissions[i] \in Permission
  BY DEF PolicyTypeOK
<1>3. permissions' = Append(permissions, new)
  BY DEF RevisePermission
<1>4. /\ permissions' \in Seq(Permission)
      /\ Len(permissions') = n
      /\ permissions'[n] = new
      /\ \A i \in 1..Len(permissions) : permissions'[i] = permissions[i]
  BY <1>1, <1>2, <1>3
<1>5. \A q \in Person :
        /\ RevisionsOf(q) \subseteq 1..Len(permissions)
        /\ RevisionsOf(q)' = IF q = p THEN RevisionsOf(q) \union {n} ELSE RevisionsOf(q)
  BY <1>2, <1>4 DEF RevisionsOf
<1>6. ASSUME NEW q \in Person, q # p PROVE HighestOf(q)' = HighestOf(q)
  BY <1>4, <1>5, <1>6 DEF HighestOf
<1>7. \A j \in RevisionsOf(p) : permissions[j].revision \in Nat /\ permissions[j].revision < revision
  <2>1. \A j \in RevisionsOf(p) : permissions[j].revision \in Nat
    BY <1>2, <1>5 DEF Permission
  <2>2. CASE RevisionsOf(p) = {}
    BY <2>2
  <2>3. CASE RevisionsOf(p) # {}
    <3>1. /\ PermissionFor(p) \in RevisionsOf(p)
          /\ \A j \in RevisionsOf(p) :
               permissions[j].revision <= permissions[PermissionFor(p)].revision
          /\ PermissionFor(p) # 0
      BY <2>3, PermissionForLatest
    <3>2. revision = permissions[PermissionFor(p)].revision + 1
      BY <3>1 DEF RevisePermission, NextRevision
    <3> QED
      BY <2>1, <3>1, <3>2
  <2> QED
    BY <2>1, <2>2, <2>3
<1>8. HighestOf(p)' = {n}
  <2>1. \A j \in RevisionsOf(p) : permissions'[j].revision = permissions[j].revision
    BY <1>4, <1>5
  <2>2. permissions'[n].revision = revision
    BY <1>4
  <2>3. n \notin RevisionsOf(p) /\ RevisionsOf(p)' = RevisionsOf(p) \union {n}
    BY <1>2, <1>5
  <2> QED
    BY <1>7, <2>1, <2>2, <2>3 DEF HighestOf
<1>9. ASSUME NEW q \in Person
      PROVE  /\ RevisionsOf(q)' # {} => HighestOf(q)' # {}
             /\ PermissionFor(q)' = IF q = p THEN n ELSE PermissionFor(q)
  <2>1. CASE q = p
    <3>1. HighestOf(q)' = {n} /\ RevisionsOf(q)' # {}
      BY <1>5, <1>8, <2>1
    <3>2. PermissionFor(q)' = CHOOSE i \in {n} : TRUE
      BY <3>1 DEF PermissionFor
    <3> QED
      BY <2>1, <3>1, <3>2
  <2>2. CASE q # p
    <3>1. HighestOf(q)' = HighestOf(q) /\ RevisionsOf(q)' = RevisionsOf(q)
      BY <1>5, <1>6, <2>2
    <3> QED
      BY <2>2, <3>1 DEF PermissionFor, LatestExists
  <2> QED
    BY <2>1, <2>2
<1> QED
  BY <1>2, <1>4, <1>9 DEF LatestExists

\* The facts about the journal that the steps below start from.
LEMMA JournalShape ==
  ASSUME PolicyInv
  PROVE  /\ Len(inbox) \in Nat /\ Len(publications) \in Nat
         /\ active \in 0..Len(publications)
         /\ \A i \in 1..Len(publications) :
              /\ publications[i] \in Publication
              /\ publications[i].known \in Nat
              /\ publications[i].known <= Len(inbox)
<1>1. Len(inbox) \in Nat /\ Len(publications) \in Nat /\ active \in 0..Len(publications)
  BY DEF PolicyInv, PolicyTypeOK
<1>2. \A i \in 1..Len(publications) : publications[i] \in Publication
  BY DEF PolicyInv, PolicyTypeOK
<1>3. \A i \in 1..Len(publications) : publications[i].known \in Nat
  BY <1>2 DEF Publication
<1> QED
  BY <1>1, <1>2, <1>3 DEF PolicyInv, KnownIsAdmitted

\* What publishing does to the parts of the invariant.
LEMMA PublishKeepsInv ==
  ASSUME PolicyInv, NEW p \in Publication, Publish(p)
  PROVE  PolicyInv'
<1>1. /\ publications \in Seq(Publication) /\ Len(publications) \in Nat
      /\ active \in 0..Len(publications)
  BY DEF PolicyInv, PolicyTypeOK
<1>2. /\ publications' \in Seq(Publication)
      /\ Len(publications') = Len(publications) + 1
      /\ publications'[Len(publications) + 1] = p
      /\ \A i \in 1..Len(publications) : publications'[i] = publications[i]
  BY <1>1 DEF Publish
<1>3. p.clock \in Nat /\ p.mode \in {"current", "historical"}
  BY DEF Publication
<1>4. PolicyTypeOK'
  BY <1>1, <1>2, <1>3 DEF Publish, TakesEffect, Position, PolicyInv, PolicyTypeOK
<1>5. LatestExists'
  BY DEF Publish, PolicyInv, LatestExists, RevisionsOf, HighestOf
<1>6. ActiveIsNewestCurrent'
  <2>1. CASE p.mode = "current"
    BY <1>1, <1>2, <2>1 DEF Publish, TakesEffect, Position, ActiveIsNewestCurrent
  <2>2. CASE p.mode # "current"
    BY <1>1, <1>2, <2>2 DEF Publish, TakesEffect, PolicyInv, ActiveIsNewestCurrent
  <2> QED
    BY <2>1, <2>2
<1>7. KnownIsAdmitted'
  BY <1>1, <1>2 DEF Publish, PublishAllowed, PolicyInv, KnownIsAdmitted
<1> QED
  BY <1>4, <1>5, <1>6, <1>7 DEF PolicyInv

\* The publications PolicyNext tries are well formed.
LEMMA EnumeratedPublication ==
  [mode: Mode, clock: 0..MaxClock, known: 0..MaxInbox,
   member: SUBSET Key, coverage: BOOLEAN] \subseteq Publication
<1>1. 0..MaxClock \subseteq Nat /\ 0..MaxInbox \subseteq Nat
  BY PolicyAssumption
<1> QED
  BY <1>1, PolicyAssumption DEF Publication

LEMMA PolicyStepInv == PolicyInv /\ [PolicyNext]_policyVars => PolicyInv'
<1> SUFFICES ASSUME PolicyInv, [PolicyNext]_policyVars PROVE PolicyInv'
  OBVIOUS
<1>1. CASE UNCHANGED policyVars
  BY <1>1 DEF policyVars, PolicyInv, PolicyTypeOK, LatestExists, RevisionsOf, HighestOf,
              ActiveIsNewestCurrent, KnownIsAdmitted
<1>2. ASSUME NEW persons \in SUBSET Person, Ingest(persons) PROVE PolicyInv'
  <2>1. inbox' \in Seq(SUBSET Person) /\ Len(inbox') = Len(inbox) + 1
    BY <1>2 DEF Ingest, PolicyInv, PolicyTypeOK
  <2>2. KnownIsAdmitted'
    BY <1>2, <2>1, JournalShape DEF Ingest, KnownIsAdmitted
  <2> QED
    BY <1>2, <2>1, <2>2 DEF Ingest, PolicyInv, PolicyTypeOK, LatestExists, RevisionsOf,
                            HighestOf, ActiveIsNewestCurrent
<1>3. ASSUME NEW p \in [mode: Mode, clock: 0..MaxClock, known: 0..MaxInbox,
                        member: SUBSET Key, coverage: BOOLEAN],
             Publish(p)
      PROVE  PolicyInv'
  BY <1>3, EnumeratedPublication, PublishKeepsInv
<1>4. ASSUME NEW p \in Person, NEW revision \in 1..MaxPermissions, NEW terms \in Terms,
             RevisePermission(p, revision, terms)
      PROVE  PolicyInv'
  <2>1. revision \in Nat \ {0}
    BY PolicyAssumption
  <2>2. permissions' \in Seq(Permission) /\ LatestExists'
    BY <1>4, <2>1, ReviseKeepsLatest DEF PolicyInv
  <2> QED
    BY <1>4, <2>2 DEF RevisePermission, PolicyInv, PolicyTypeOK, ActiveIsNewestCurrent,
                      KnownIsAdmitted
<1> QED
  BY <1>1, <1>2, <1>3, <1>4 DEF PolicyNext, PublishAgain, PermissionAgain

\* The journal is well formed, its active publication is the newest current one and
\* the business clock is that publication's, in every reachable state.
THEOREM PolicyInvariant == PolicySpec => [](PolicyTypeOK /\ ActiveIsNewestCurrent)
<1>1. PolicySpec => []PolicyInv
  BY PolicyInitInv, PolicyStepInv, PTL DEF PolicySpec
<1>2. PolicyInv => PolicyTypeOK /\ ActiveIsNewestCurrent
  BY DEF PolicyInv
<1> QED
  BY <1>1, <1>2, PTL

-------------------------------------------------------------------------------
(* A fingerprint moves forward only.  One lemma per operation that moves it. *)

Forward(k) == Authority(k)' = Authority(k) \/ AuthorityPrecedes(Authority(k), Authority(k)')

LEMMA IngestMovesForward ==
  ASSUME PolicyInv, NEW persons \in SUBSET Person, Ingest(persons), NEW k \in Key
  PROVE  Forward(k)
<1>1. /\ Len(inbox) \in Nat /\ Len(publications) \in Nat
      /\ active \in 0..Len(publications)
      /\ \A i \in 1..Len(publications) :
            publications[i].known \in Nat /\ publications[i].known <= Len(inbox)
  BY JournalShape
<1>2. /\ Len(inbox') = Len(inbox) + 1
      /\ \A i \in 1..Len(inbox) : inbox'[i] = inbox[i]
  BY DEF Ingest, PolicyInv, PolicyTypeOK
<1>3. PublicationFor(k)' = PublicationFor(k)
  BY <1>1, <1>2 DEF Ingest, PublicationFor, Introduced
<1>4. PermissionFor(PersonOf(k))' = PermissionFor(PersonOf(k))
  BY DEF Ingest, PermissionFor, RevisionsOf, HighestOf
<1>5. PublicationFor(k) # 0 => Stale'
  BY <1>1, <1>2 DEF Ingest, Stale, PublicationFor
<1>6. Reason(k)' = IF PublicationFor(k) = 0 THEN "missing_publication" ELSE "stale_publication"
  BY <1>3, <1>5 DEF Reason
<1>7. PublicationFor(k) = 0 => Reason(k) = "missing_publication"
  BY DEF Reason
<1> QED
  BY <1>3, <1>4, <1>6, <1>7 DEF Forward, Authority, AuthorityPrecedes

LEMMA PublishMovesForward ==
  ASSUME PolicyInv, NEW p \in Publication, Publish(p), NEW k \in Key
  PROVE  /\ Forward(k)
         /\ p.mode = "historical" => Authority(k)' = Authority(k)
<1>1. /\ Len(inbox) \in Nat /\ Len(publications) \in Nat
      /\ active \in 0..Len(publications)
      /\ \A i \in 1..Len(publications) :
            publications[i].known \in Nat /\ publications[i].known <= Len(inbox)
  BY JournalShape
<1>2. /\ Len(publications') = Len(publications) + 1
      /\ publications'[Len(publications) + 1] = p
      /\ \A i \in 1..Len(publications) : publications'[i] = publications[i]
  BY DEF Publish, PolicyInv, PolicyTypeOK
<1>3. PermissionFor(PersonOf(k))' = PermissionFor(PersonOf(k))
  BY DEF Publish, PermissionFor, RevisionsOf, HighestOf
<1>4. CASE p.mode = "current"
  <2>1. active' = Len(publications) + 1 /\ p.known = Len(inbox) /\ inbox' = inbox
    BY <1>4 DEF Publish, PublishAllowed, TakesEffect, Position
  <2>2. PublicationFor(k)' \in {0, Len(publications) + 1}
    BY <1>1, <2>1 DEF PublicationFor
  <2>3. PublicationFor(k) # 0 => PublicationFor(k)' = Len(publications) + 1
    BY <1>1, <1>2, <2>1 DEF PublicationFor, Introduced
  <2>4. PublicationFor(k) \in 0..Len(publications)
    BY <1>1 DEF PublicationFor
  <2>5. CASE PublicationFor(k)' = 0
    BY <1>1, <1>3, <1>4, <2>3, <2>5 DEF Forward, Authority, Reason
  <2>6. CASE PublicationFor(k)' # 0
    <3>1. PublicationFor(k) < PublicationFor(k)'
      BY <1>1, <2>2, <2>4, <2>6
    <3> QED
      BY <1>4, <3>1 DEF Forward, Authority, AuthorityPrecedes
  <2> QED
    BY <1>4, <2>5, <2>6
<1>5. CASE p.mode # "current"
  <2>1. UNCHANGED <<inbox, clock, active, permissions>>
    BY <1>5 DEF Publish, TakesEffect
  <2>2. active # 0 => publications'[active] = publications[active]
    BY <1>1, <1>2
  <2>3. PublicationFor(k)' = PublicationFor(k)
    BY <2>1, <2>2 DEF PublicationFor, Introduced
  <2>4. PublicationFor(k) # 0 => Stale' = Stale /\ Covered(k)' = Covered(k)
    BY <2>1, <2>2 DEF PublicationFor, Stale, Covered
  <2>5. PermissionReason(PersonOf(k))' = PermissionReason(PersonOf(k))
    BY <1>3, <2>1 DEF PermissionReason
  <2>6. Reason(k)' = Reason(k)
    <3>1. CASE PublicationFor(k) = 0
      BY <2>3, <3>1 DEF Reason
    <3>2. CASE PublicationFor(k) # 0
      <4>1. active # 0
        BY <3>2 DEF PublicationFor
      <4> QED
        BY <2>2, <2>3, <2>4, <2>5, <2>1, <3>2, <4>1 DEF Reason
    <3> QED
      BY <3>1, <3>2
  <2> QED
    BY <1>3, <2>3, <2>6 DEF Forward, Authority
<1> QED
  BY <1>4, <1>5

LEMMA ReviseMovesForward ==
  ASSUME PolicyInv, NEW p \in Person, NEW revision \in Nat \ {0}, NEW terms \in Terms,
         RevisePermission(p, revision, terms), NEW k \in Key
  PROVE  Forward(k)
<1>1. PersonOf(k) \in Person
  BY DEF Key, PersonOf
<1>2. UNCHANGED <<inbox, clock, publications, active>>
  BY DEF RevisePermission
<1>3. /\ Len(permissions) \in Nat
      /\ \A i \in 1..Len(permissions) : permissions'[i] = permissions[i]
      /\ PermissionFor(PersonOf(k))' =
           IF PersonOf(k) = p THEN Len(permissions) + 1 ELSE PermissionFor(PersonOf(k))
      /\ PermissionFor(PersonOf(k)) \in 0..Len(permissions)
  BY <1>1, ReviseKeepsLatest, PermissionForLatest DEF PolicyInv
<1>4. PublicationFor(k)' = PublicationFor(k)
  BY <1>2 DEF PublicationFor, Introduced
<1>5. CASE PersonOf(k) = p
  <2>1. PermissionFor(PersonOf(k)) < PermissionFor(PersonOf(k))'
    BY <1>3, <1>5
  <2> QED
    BY <1>4, <2>1 DEF Forward, Authority, AuthorityPrecedes
<1>6. CASE PersonOf(k) # p
  <2>1. PermissionFor(PersonOf(k))' = PermissionFor(PersonOf(k))
    BY <1>3, <1>6
  <2>2. PermissionReason(PersonOf(k))' = PermissionReason(PersonOf(k))
    BY <1>2, <1>3, <2>1 DEF PermissionReason
  <2>3. Reason(k)' = Reason(k)
    BY <1>2, <1>4, <2>2 DEF Reason, Stale, Covered
  <2> QED
    BY <1>4, <2>1, <2>3 DEF Forward, Authority
<1> QED
  BY <1>5, <1>6

LEMMA StutterKeepsAuthority ==
  ASSUME UNCHANGED policyVars, NEW k
  PROVE  Authority(k)' = Authority(k) /\ Reason(k)' = Reason(k)
BY DEF policyVars, Authority, PublicationFor, Introduced, PermissionFor, RevisionsOf,
       HighestOf, Reason, Stale, Covered, PermissionReason

LEMMA StepMovesForward ==
  ASSUME PolicyInv, [PolicyNext]_policyVars, NEW k \in Key
  PROVE  Forward(k)
<1>1. CASE UNCHANGED policyVars
  BY <1>1, StutterKeepsAuthority DEF Forward
<1>2. ASSUME NEW persons \in SUBSET Person, Ingest(persons) PROVE Forward(k)
  BY <1>2, IngestMovesForward
<1>3. ASSUME NEW p \in [mode: Mode, clock: 0..MaxClock, known: 0..MaxInbox,
                        member: SUBSET Key, coverage: BOOLEAN],
             Publish(p)
      PROVE  Forward(k)
  BY <1>3, EnumeratedPublication, PublishMovesForward
<1>4. ASSUME NEW p \in Person, NEW revision \in 1..MaxPermissions, NEW terms \in Terms,
             RevisePermission(p, revision, terms)
      PROVE  Forward(k)
  BY <1>4, PolicyAssumption, ReviseMovesForward
<1> QED
  BY <1>1, <1>2, <1>3, <1>4 DEF PolicyNext, PublishAgain, PermissionAgain

\* An authority fingerprint that was replaced never comes back.
THEOREM FingerprintsMoveForward == PolicySpec => AuthorityMovesForward
<1>1. PolicyInv /\ [PolicyNext]_policyVars
      => [\A k \in Key : Authority(k)' = Authority(k)
                         \/ AuthorityPrecedes(Authority(k), Authority(k)')]_policyVars
  BY StepMovesForward DEF Forward
<1> QED
  BY <1>1, PolicyInitInv, PolicyStepInv, PTL DEF PolicySpec, AuthorityMovesForward

-------------------------------------------------------------------------------
(* Restatement and refusal. *)

\* Storing a historical publication changes no key's fingerprint.
THEOREM HistoricalPublicationIsInert == PolicySpec => HistoryIsInert
<1> DEFINE Restates == /\ Len(publications') > Len(publications)
                       /\ publications'[Len(publications')].mode = "historical"
<1>1. ASSUME PolicyInv, [PolicyNext]_policyVars, Restates, NEW k \in Key
      PROVE  Authority(k)' = Authority(k)
  <2>1. Len(publications) \in Nat /\ publications \in Seq(Publication)
    BY <1>1 DEF PolicyInv, PolicyTypeOK
  <2>2. publications' # publications
    BY <1>1, <2>1
  <2>3. PICK p \in [mode: Mode, clock: 0..MaxClock, known: 0..MaxInbox,
                    member: SUBSET Key, coverage: BOOLEAN] : Publish(p)
    BY <1>1, <2>2 DEF PolicyNext, policyVars, Ingest, PublishAgain, PermissionAgain,
                      RevisePermission
  <2>4. p \in Publication
    BY EnumeratedPublication
  <2>5. publications'[Len(publications')] = p
    BY <2>1, <2>3, <2>4 DEF Publish
  <2> QED
    BY <1>1, <2>3, <2>4, <2>5, PublishMovesForward
<1>2. PolicyInv /\ [PolicyNext]_policyVars
      => [Restates => \A k \in Key : Authority(k)' = Authority(k)]_policyVars
  BY <1>1
<1> QED
  BY <1>2, PolicyInitInv, PolicyStepInv, PTL DEF PolicySpec, HistoryIsInert

\* The clock never goes back and permission rows never change.
LEMMA StepKeepsRows ==
  ASSUME PolicyInv, [PolicyNext]_policyVars
  PROVE  /\ clock \in Nat /\ clock' \in Nat /\ clock <= clock'
         /\ \A i \in 1..Len(permissions) : permissions'[i] = permissions[i]
<1> DEFINE Kept == /\ clock' \in Nat /\ clock <= clock'
                   /\ \A i \in 1..Len(permissions) : permissions'[i] = permissions[i]
<1>0. clock \in Nat
  BY DEF PolicyInv, PolicyTypeOK
<1>1. ASSUME UNCHANGED <<clock, permissions>> PROVE Kept
  BY <1>0, <1>1
<1>2. ASSUME NEW p \in [mode: Mode, clock: 0..MaxClock, known: 0..MaxInbox,
                        member: SUBSET Key, coverage: BOOLEAN],
             Publish(p)
      PROVE  Kept
  <2>1. p.clock \in Nat /\ p.mode \in {"current", "historical"}
    BY EnumeratedPublication DEF Publication
  <2> QED
    BY <1>0, <1>2, <2>1 DEF Publish, PublishAllowed, OnTime, TakesEffect
<1>3. ASSUME NEW p \in Person, NEW revision \in 1..MaxPermissions, NEW terms \in Terms,
             RevisePermission(p, revision, terms)
      PROVE  Kept
  <2>1. revision \in Nat \ {0}
    BY PolicyAssumption
  <2>2. \A i \in 1..Len(permissions) : permissions'[i] = permissions[i]
    BY <1>3, <2>1, ReviseKeepsLatest DEF PolicyInv
  <2> QED
    BY <1>0, <1>3, <2>2 DEF RevisePermission
<1>4. ASSUME UNCHANGED policyVars PROVE Kept
  BY <1>1, <1>4 DEF policyVars
<1>5. ASSUME NEW persons \in SUBSET Person, Ingest(persons) PROVE Kept
  BY <1>1, <1>5 DEF Ingest
<1>6. Kept
  <2> HIDE DEF Kept
  <2> QED
    BY <1>2, <1>3, <1>4, <1>5 DEF PolicyNext, PublishAgain, PermissionAgain
<1> QED
  BY <1>0, <1>6

\* A withdrawal, a suppression and an expiry last until the next revision.
THEOREM RefusalLasts == PolicySpec => RefusalIsFinal
<1>1. ASSUME PolicyInv, [PolicyNext]_policyVars, NEW p \in Person,
             Refuses(p), PermissionFor(p)' = PermissionFor(p)
      PROVE  Refuses(p)'
  <2> DEFINE i == PermissionFor(p)
  <2>1. i \in 1..Len(permissions) /\ permissions[i] \in Permission
    BY <1>1, PermissionForLatest DEF Refuses, PolicyInv, PolicyTypeOK
  <2>2. /\ clock \in Nat /\ clock' \in Nat /\ clock <= clock'
        /\ permissions'[i] = permissions[i]
    BY <1>1, <2>1, StepKeepsRows
  <2>3. permissions[i].terms.expires \in Nat
    BY <2>1, PolicyAssumption DEF Permission, Term
  <2> QED
    BY <1>1, <2>2, <2>3 DEF Refuses
<1>2. PolicyInv /\ [PolicyNext]_policyVars
      => [\A p \in Person : Refuses(p) /\ PermissionFor(p)' = PermissionFor(p)
                            => Refuses(p)']_policyVars
  BY <1>1
<1> QED
  BY <1>2, PolicyInitInv, PolicyStepInv, PTL DEF PolicySpec, RefusalIsFinal
===============================================================================
