--------------------------------- MODULE Audit ---------------------------------
(***************************************************************************)
(* check (src/audience_ops/oracle.py), which the console runs on every     *)
(* request for the state of a brand: it compares the journal with its own  *)
(* evaluation of the raw inbox.  It reads without the brand's lock, and at *)
(* READ COMMITTED every statement sees what was committed when it began:   *)
(* ingestion, publication and permission may fall between any two reads.   *)
(***************************************************************************)
EXTENDS Bridge

VARIABLES
  step,      \* the statement check runs next; past the last one, the comparison
  seen,      \* what the statements so far returned
  verdict    \* what check raised or returned

auditVars == <<step, seen, verdict>>

\* What each table, and the view, holds now.
Now ==
  [inbox |-> inbox, publications |-> publications, permissions |-> permissions,
   clock |-> clock, active |-> active, view |-> EligibleKeys]

\* The order of check's statements.
Statements == <<"inbox", "publications", "permissions", "clock", "active", "view">>

AuditInit == Init /\ step = 1 /\ seen = Now /\ verdict = "none"

Read ==
  /\ step <= Len(Statements)
  /\ seen' = [seen EXCEPT ![Statements[step]] = Now[Statements[step]]]
  /\ step' = step + 1
  /\ UNCHANGED <<vars, verdict>>

\* Decisions are never changed: the rows of the publications that were read are
\* theirs whenever the loop fetches them.
SourceDiffers ==
  \E i \in DOMAIN seen.publications :
    LET p == seen.publications[i] IN p.decisions # Oracle(seen.inbox, p.clock, p.known)

EligibilityDiffers ==
  seen.view # Expected(seen.inbox, seen.publications, seen.permissions, seen.clock, seen.active)

\* The console answers 503 to either difference, and 200 otherwise.
Conclude ==
  /\ step = Len(Statements) + 1 /\ verdict = "none"
  /\ verdict' = IF SourceDiffers           THEN "raw_source_temporal_oracle_difference"
                ELSE IF EligibilityDiffers THEN "current_permission_or_grain_oracle_difference"
                ELSE "row_differences_0"
  /\ UNCHANGED <<vars, step, seen>>

AuditNext ==
  \/ Next /\ UNCHANGED auditVars
  \/ Read
  \/ Conclude

AuditSpec == AuditInit /\ [][AuditNext]_<<vars, auditVars>>

-------------------------------------------------------------------------------
(* Properties *)

\* Decisions are called wrong only when the check has read a publication of batches
\* it had not seen: ingestion and publication both fell between its first two reads
\* (oracle.py:40-41,50-54).
SourceAlarmIsLate ==
  verdict = "raw_source_temporal_oracle_difference" =>
    \E i \in DOMAIN seen.publications : seen.publications[i].known > Len(seen.inbox)

\* A difference is reported only if ingestion, a current publication or a permission
\* revision overtook the check.  Restating history beside it never makes one, and a
\* journal at rest passes (oracle.py:40-45,72-74, console.py:82).
AlarmMeansMoved ==
  verdict \notin {"none", "row_differences_0"} =>
    \/ inbox # seen.inbox
    \/ permissions # seen.permissions
    \/ \E i \in Len(seen.publications) + 1 .. Len(publications) : publications[i].mode = "current"
===============================================================================
