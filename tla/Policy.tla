-------------------------------- MODULE Policy --------------------------------
(***************************************************************************)
(* The policy journal of ONE brand: the source inbox, the publications     *)
(* evaluated from it, the active publication, the brand's business clock   *)
(* and the permission revisions (src/audience_ops/bridge.py), with the     *)
(* eligibility view every sender decision reads (operating.sql).           *)
(*                                                                         *)
(* Brands share nothing: every table is keyed by brand and every handler   *)
(* holds the brand's advisory lock for its whole transaction, so each      *)
(* handler is one atomic action.  A publication is identified by its       *)
(* position, a permission row by its position (bigserial).                 *)
(***************************************************************************)
EXTENDS Scope, Naturals, Sequences, FiniteSets

CONSTANTS
  CoverageGated,      \* the audiences that rest on absence of activity
  Terms,              \* what a permission revision may say
  Mode,               \* the publication modes a run exercises
  MaxClock,           \* bound on the business clock
  MaxInbox,           \* bound on admitted source batches
  MaxPublications,    \* bound on publications
  MaxPermissions      \* bound on permission revisions

Term == [allowed: BOOLEAN, suppressed: BOOLEAN, validFrom: Nat, expires: Nat]

ASSUME PolicyAssumption ==
  /\ CoverageGated \subseteq Segment
  /\ Terms \subseteq {t \in Term : t.validFrom < t.expires}
  /\ Mode \subseteq {"current", "historical"}
  /\ {MaxClock, MaxInbox, MaxPublications, MaxPermissions} \subseteq Nat

VARIABLES
  inbox,          \* sequence of admitted batches: the persons each one states facts of
  clock,          \* brands.clock
  publications,   \* sequence of evaluated publications
  active,         \* the active publication, 0 before the first
  permissions     \* sequence of permission revisions, of all persons

policyVars == <<inbox, clock, publications, active, permissions>>

Publication ==
  [mode: {"current", "historical"}, clock: Nat, known: Nat,
   member: SUBSET Key, coverage: BOOLEAN]

Permission == [person: Person, revision: Nat \ {0}, terms: Terms]

Reasons ==
  {"missing_publication", "stale_publication", "not_member",
   "incomplete_coverage", "missing_permission", "suppressed", "withdrawn",
   "permission_not_yet_valid", "permission_expired", "eligible"}

-------------------------------------------------------------------------------
(* The activation_eligibility view. *)

\* The persons the first n batches state a fact of: a full build decides exactly them.
Introduced(n) == {p \in Person : \E i \in 1..n : p \in inbox[i]}

\* The publication that decides k now; 0 is the view's NULL.
PublicationFor(k) ==
  IF active # 0 /\ PersonOf(k) \in Introduced(publications[active].known)
  THEN active ELSE 0

RevisionsOf(p) == {i \in 1..Len(permissions) : permissions[i].person = p}

HighestOf(p) ==
  {i \in RevisionsOf(p) :
     \A j \in RevisionsOf(p) : permissions[j].revision <= permissions[i].revision}

\* ORDER BY revision DESC LIMIT 1; 0 is the view's NULL.
PermissionFor(p) ==
  IF RevisionsOf(p) = {} THEN 0 ELSE CHOOSE i \in HighestOf(p) : TRUE

Covered(k) == k[2] \notin CoverageGated \/ publications[active].coverage

Stale == \/ publications[active].clock # clock
         \/ publications[active].known # Len(inbox)

\* The WHEN arms from missing_permission on.
PermissionReason(p) ==
  IF PermissionFor(p) = 0 THEN "missing_permission"
  ELSE LET t == permissions[PermissionFor(p)].terms
       IN  IF t.suppressed          THEN "suppressed"
           ELSE IF ~t.allowed       THEN "withdrawn"
           ELSE IF t.validFrom > clock THEN "permission_not_yet_valid"
           ELSE IF t.expires <= clock  THEN "permission_expired"
           ELSE "eligible"

Reason(k) ==
  IF PublicationFor(k) = 0                      THEN "missing_publication"
  ELSE IF Stale                                 THEN "stale_publication"
  ELSE IF k \notin publications[active].member  THEN "not_member"
  ELSE IF ~Covered(k)                           THEN "incomplete_coverage"
  ELSE PermissionReason(PersonOf(k))

Eligible(k) == Reason(k) = "eligible"

\* The fingerprint a sender binds an intent to.  The rules never change at run
\* time, so rule_hash is left out.
Authority(k) ==
  [publication |-> PublicationFor(k), permission |-> PermissionFor(PersonOf(k)),
   reason |-> Reason(k)]

-------------------------------------------------------------------------------
PolicyInit ==
  /\ inbox = <<>>
  /\ clock = 0
  /\ publications = <<>>
  /\ active = 0
  /\ permissions = <<>>

\* Operations.ingest: a batch of facts (about persons) or a coverage assertion
\* (about nobody) is appended.  A batch already admitted returns its sequence.
Ingest(persons) ==
  /\ Len(inbox) < MaxInbox
  /\ inbox' = Append(inbox, persons)
  /\ UNCHANGED <<clock, publications, active, permissions>>

\* Mutant: a current publication may turn the clock back.
OnTimeAlways(at) == TRUE

OnTime(at) == at >= clock

\* publish's first refusal: current means all knowledge and a clock that never goes back.
PublishAllowed(mode, at, known) ==
  /\ known <= Len(inbox)
  /\ mode = "current" => known = Len(inbox) /\ OnTime(at)

\* build is a function of the batches up to known and of the clock.
Evaluates(p) ==
  /\ \A k \in p.member : PersonOf(k) \in Introduced(p.known)
  /\ \A i \in 1..Len(publications) :
        publications[i].clock = p.clock /\ publications[i].known = p.known
        => publications[i].member = p.member /\ publications[i].coverage = p.coverage

\* Mutant: a restatement takes effect.
TakesEffectAlways(mode) == TRUE

\* Where the publication being stored comes to lie, and whether it decides the present.
Position == Len(publications) + 1
TakesEffect(mode) == mode = "current"

\* Operations.publish under a request name not seen before.  Only a current
\* publication moves the clock and the active pointer.
Publish(p) ==
  /\ Len(publications) < MaxPublications
  /\ PublishAllowed(p.mode, p.clock, p.known)
  /\ Evaluates(p)
  /\ publications' = Append(publications, p)
  /\ IF TakesEffect(p.mode)
     THEN clock' = p.clock /\ active' = Position
     ELSE UNCHANGED <<clock, active>>
  /\ UNCHANGED <<inbox, permissions>>

\* Mutant: a retried publication is made active again.
PublishAgainActivates(i) ==
  /\ PublishAllowed(publications[i].mode, publications[i].clock, publications[i].known)
  /\ publications[i].mode = "current"
  /\ active' = i /\ clock' = publications[i].clock
  /\ UNCHANGED <<inbox, publications, permissions>>

\* Operations.publish retried under the request name of publication i: once past
\* the refusals it returns the stored row and changes nothing.
PublishAgain(i) ==
  /\ PublishAllowed(publications[i].mode, publications[i].clock, publications[i].known)
  /\ UNCHANGED policyVars

\* The revision number the journal expects of p next.
NextRevision(p) ==
  IF PermissionFor(p) = 0 THEN 1 ELSE permissions[PermissionFor(p)].revision + 1

\* Operations.permission with the next revision number.
RevisePermission(p, revision, terms) ==
  /\ Len(permissions) < MaxPermissions
  /\ revision = NextRevision(p)
  /\ permissions' =
       Append(permissions, [person |-> p, revision |-> revision, terms |-> terms])
  /\ UNCHANGED <<inbox, clock, publications, active>>

\* Operations.permission retried with the latest revision word for word.
PermissionAgain(p, revision, terms) ==
  /\ PermissionFor(p) # 0
  /\ permissions[PermissionFor(p)] =
       [person |-> p, revision |-> revision, terms |-> terms]
  /\ UNCHANGED policyVars

PolicyNext ==
  \/ \E persons \in SUBSET Person : Ingest(persons)
  \/ \E p \in [mode: Mode, clock: 0..MaxClock, known: 0..MaxInbox,
               member: SUBSET Key, coverage: BOOLEAN] : Publish(p)
  \/ \E i \in 1..Len(publications) : PublishAgain(i)
  \/ \E p \in Person, revision \in 1..MaxPermissions, terms \in Terms :
        \/ RevisePermission(p, revision, terms)
        \/ PermissionAgain(p, revision, terms)

PolicySpec == PolicyInit /\ [][PolicyNext]_policyVars

-------------------------------------------------------------------------------
(* Properties *)

\* The shape of the journal's state.
PolicyTypeOK ==
  /\ inbox \in Seq(SUBSET Person)
  /\ clock \in Nat
  /\ publications \in Seq(Publication)
  /\ active \in 0..Len(publications)
  /\ permissions \in Seq(Permission)

\* The active pointer designates the newest current publication and the brand's
\* clock is that publication's: a restatement of the past (bridge.py:100) and a
\* retried request (bridge.py:81) leave both alone.
ActiveIsNewestCurrent ==
  /\ \A i \in 1..Len(publications) : publications[i].mode = "current" => i <= active
  /\ active # 0 => /\ publications[active].mode = "current"
                   /\ publications[active].clock = clock

AuthorityPrecedes(a, b) ==
  \/ a.publication < b.publication
  \/ a.publication = b.publication /\ a.permission < b.permission
  \/ /\ a.publication = b.publication /\ a.permission = b.permission
     /\ a.reason # "stale_publication" /\ b.reason = "stale_publication"

\* An authority fingerprint that has been replaced never comes back: each change
\* of a key's fingerprint goes to a newer publication, to a newer permission, or
\* from fresh to stale.  A sender comparing fingerprints (activation.py:43,101)
\* therefore cannot mistake an authority that lapsed for one that still holds.
AuthorityMovesForward ==
  [][\A k \in Key : Authority(k)' = Authority(k) \/ AuthorityPrecedes(Authority(k), Authority(k)')]_policyVars

\* The permission in force for p does not allow activation and no passage of
\* time can make it.
Refuses(p) ==
  /\ PermissionFor(p) # 0
  /\ LET t == permissions[PermissionFor(p)].terms
     IN  t.suppressed \/ ~t.allowed \/ t.expires <= clock

\* Withdrawal, suppression and expiry last until a newer revision of the
\* permission: no ingestion, publication or retry lifts them (bridge.py:77,101).
RefusalIsFinal ==
  [][\A p \in Person :
       Refuses(p) /\ PermissionFor(p)' = PermissionFor(p) => Refuses(p)']_policyVars

\* Restating history decides nothing about the present: the step that stores a
\* historical publication changes no key's reason and no fingerprint
\* (bridge.py:100, operating.sql:56-59).
HistoryIsInert ==
  [][/\ Len(publications') > Len(publications)
     /\ publications'[Len(publications')].mode = "historical"
     => \A k \in Key : Authority(k)' = Authority(k)]_policyVars
===============================================================================
