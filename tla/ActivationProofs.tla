--------------------------- MODULE ActivationProofs ---------------------------
(***************************************************************************)
(* The sender's safety for every set of keys, workers and bounds: the type *)
(* invariant, the attempt budget, the authority of a waiting POST, the     *)
(* truth of a confirmation, the approval of whatever was delivered,        *)
(* the finality of a settled intent, what plan may return again, and that  *)
(* sender and receiver implement Orders.                                   *)
(*                                                                         *)
(* None of them is inductive by itself.  What ties them together is where  *)
(* each worker stands (WorkersInv): a reservation that is still owned has  *)
(* an attempt left to spend, a receipt that was read is a receipt that     *)
(* exists, and the one worker that spans a POST owns both locks.           *)
(*                                                                         *)
(* What plan may return rests on the policy's fingerprints, which only     *)
(* move forward: an intent is never ahead of them, and a blocked head is   *)
(* strictly behind (BindingInv).                                           *)
(***************************************************************************)
EXTENDS Activation, PolicyProofs

Waiting == {"posting", "acked", "refused"}

\* The rows: sequences beyond the head are unused, an unused row has nothing
\* reserved, what left pending has the approval it needs, an intent is bound to the
\* authority that decided it, and only an exception has used up its checks.
RowsInv ==
  \A e \in Effect :
    /\ SeqOf(e) > heads[KeyOf(e)] => intents[e].state = "none"
    /\ intents[e].state = "none" => intents[e].attempts = 0
    /\ intents[e].state \notin {"none", "pending"} => ApprovedAsRequired(e)
    /\ intents[e].state # "none" => intents[e].desired = (intents[e].authority.reason = "eligible")
    /\ intents[e].state # "excepted" => intents[e].checks < MaxChecks

\* What a row is bound to; only an approval ever changes it.
SameBinding(a, b) ==
  a.desired = b.desired /\ a.authority = b.authority /\ a.approval = b.approval

\* The workers: where each stands, and what it may rely on there.
WorkersInv ==
  \A w \in Worker :
    /\ pc[w] = "idle" <=> job[w] = NoJob
    /\ poster = w <=> pc[w] \in Waiting
    /\ pc[w] # "idle" => intents[job[w]].state \notin {"none", "pending"}
    /\ pc[w] = "reserved" /\ Holds(w) => sent[job[w]] < intents[job[w]].attempts
    /\ pc[w] \in Waiting => sent[job[w]] > 0
    /\ pc[w] = "found" => job[w] \in effects

\* The receiver and the wire hold only what was sent and approved.
DeliveryInv ==
  \A e \in Effect :
    late[e] > 0 \/ e \in effects => sent[e] > 0 /\ ApprovedAsRequired(e)

\* PostingIsAuthorized, said of one worker and one effect.
PostingInv ==
  \A w \in Worker, e \in Effect :
    poster = w /\ job[w] = e
    => Authorized(e) /\ intents[e].state = "inflight" /\ intents[e].lease = w

SafeInv ==
  /\ RowsInv
  /\ PostBudget
  /\ WorkersInv
  /\ PostingInv
  /\ DeliveryInv
  /\ ConfirmedIsCommitted
  /\ MembershipIsNewest

IInv == PolicyInv /\ TypeOK /\ SafeInv

-------------------------------------------------------------------------------
(* Lemmas *)

LEMMA EffectParts ==
  ASSUME NEW e \in Effect
  PROVE  KeyOf(e) \in Key /\ SeqOf(e) \in 1..MaxSeq /\ e = <<KeyOf(e), SeqOf(e)>>
BY DEF Effect, KeyOf, SeqOf

\* While nothing of the policy, the heads or e's frozen fields changes, e keeps
\* its authorization.
LEMMA AuthorizedStays ==
  ASSUME NEW e, UNCHANGED policyVars,
         heads'[KeyOf(e)] = heads[KeyOf(e)],
         SameBinding(intents'[e], intents[e])
  PROVE  Authorized(e)' = Authorized(e)
BY StutterKeepsAuthority DEF Authorized, IsHead, Eligible, SameBinding

\* A row as plan inserts it.
LEMMA NewIntentParts ==
  ASSUME NEW desired \in BOOLEAN, NEW authority \in Bound
  PROVE  /\ NewIntent(desired, authority) \in Intent
         /\ NewIntent(desired, authority).state = IF desired THEN "pending" ELSE "approved"
         /\ NewIntent(desired, authority).desired = desired
         /\ NewIntent(desired, authority).authority = authority
         /\ NewIntent(desired, authority).approval = IF desired THEN "none" ELSE "protective"
         /\ NewIntent(desired, authority).attempts = 0
         /\ NewIntent(desired, authority).checks = 0
         /\ NewIntent(desired, authority).lease = NoWorker
<1>1. MaxAttempts \in Nat /\ MaxChecks \in Nat
  BY ActivationAssumption
<1> QED
  BY <1>1 DEF NewIntent, Waits, Intent, States, Approvals, SameBinding

LEMMA NoIntentParts ==
  /\ NoIntent \in Intent
  /\ NoIntent.state = "none"
  /\ NoIntent.attempts = 0 /\ NoIntent.checks = 0
<1> DEFINE nowhere == [publication |-> 0, permission |-> 0, reason |-> "missing_publication"]
<1>1. nowhere \in Bound
  BY DEF Bound, Reasons
<1>2. NewIntent(FALSE, nowhere) \in Intent 
      /\ NewIntent(FALSE, nowhere).attempts = 0 /\ NewIntent(FALSE, nowhere).checks = 0
  BY <1>1, NewIntentParts
<1> HIDE DEF nowhere
<1>3. NoIntent = [NewIntent(FALSE, nowhere) EXCEPT !.state = "none"]
  BY DEF NoIntent, nowhere
<1> QED
  BY <1>2, <1>3 DEF Intent, States, Approvals, SameBinding

LEMMA InitIInv == Init => IInv
<1> SUFFICES ASSUME Init PROVE IInv
  OBVIOUS
<1> USE DEF Init
<1>1. PolicyInv
  BY PolicyInitInv
<1>2. NoIntent \in Intent /\ NoIntent.state = "none"
      /\ NoIntent.attempts = 0 /\ NoIntent.checks = 0
  BY NoIntentParts
<1>4. TypeOK
  <2>1. PolicyTypeOK
    BY <1>1 DEF PolicyInv
  <2>2. ReceiverTypeOK
    BY DEF ReceiverInit, ReceiverTypeOK, NoMember
  <2>3. heads \in [Key -> 0..MaxSeq]
    BY ReceiverAssumption
  <2>4. crashes \in 0..MaxCrashes /\ overruns \in 0..MaxOverruns
    BY ActivationAssumption
  <2>5. observed \in [Key -> [seq: Nat, active: BOOLEAN]]
    BY <2>2 DEF ReceiverTypeOK
  <2> QED
    BY <1>2, <2>1, <2>2, <2>3, <2>4, <2>5 DEF TypeOK, Phase
<1>5. RowsInv
  BY <1>2, ActivationAssumption DEF RowsInv, ApprovedAsRequired, SameBinding
<1>6. PostBudget
  BY <1>2, ActivationAssumption DEF PostBudget
<1>7. WorkersInv
  BY ActivationAssumption DEF WorkersInv, Waiting
<1>8. PostingInv /\ ConfirmedIsCommitted
  BY <1>2, ActivationAssumption DEF PostingInv, ConfirmedIsCommitted
<1>9. DeliveryInv /\ MembershipIsNewest
  BY DEF DeliveryInv, MembershipIsNewest, ReceiverInit, ApprovedAsRequired, SameBinding
<1> QED
  BY <1>1, <1>4, <1>5, <1>6, <1>7, <1>8, <1>9 DEF IInv, SafeInv

-------------------------------------------------------------------------------
(* One lemma per action: what it does to the shape of the state and to each part *)
(* of the invariant.                                                             *)

\* What a worker works on, once it has claimed.
LEMMA JobIsEffect ==
  ASSUME TypeOK, WorkersInv, NEW w \in Worker, pc[w] # "idle"
  PROVE  job[w] \in Effect /\ intents[job[w]] \in Intent
BY DEF TypeOK, WorkersInv

SenderTypeOK ==
  /\ intents \in [Effect -> Intent]
  /\ heads \in [Key -> 0..MaxSeq]
  /\ sent \in [Effect -> Nat]
  /\ pc \in [Worker -> Phase]
  /\ job \in [Worker -> Effect \union {NoJob}]
  /\ poster \in Worker \union {NoWorker}

\* What no step of a worker changes keeps its type.
LEMMA WorkerTypes ==
  ASSUME TypeOK, PolicyTypeOK', WorkerFrame, SenderTypeOK', ReceiverTypeOK'
  PROVE  TypeOK'
BY DEF TypeOK, SenderTypeOK, WorkerFrame, reconcileVars, budgetVars

\* A waiting POST keeps its authority when its row, its head and the policy are
\* left alone.
LEMMA PostingStays ==
  ASSUME PostingInv, UNCHANGED <<policyVars, heads>>,
         \A w \in Worker, e \in Effect :
           poster' = w /\ job'[w] = e
           => /\ poster = w /\ job[w] = e
              /\ intents'[e].state = intents[e].state
              /\ intents'[e].lease = intents[e].lease
              /\ SameBinding(intents'[e], intents[e])
  PROVE  PostingInv'
<1> SUFFICES ASSUME NEW w \in Worker, NEW e \in Effect, poster' = w, job'[w] = e
             PROVE  /\ Authorized(e)'
                    /\ intents'[e].state = "inflight" /\ intents'[e].lease = w
  BY DEF PostingInv
<1>1. /\ Authorized(e)
      /\ intents[e].state = "inflight" /\ intents[e].lease = w
  BY DEF PostingInv
<1>2. Authorized(e)' = Authorized(e)
  BY AuthorizedStays DEF SameBinding
<1> QED
  BY <1>1, <1>2

\* A dispatch that returns with its row settled or uncertain.
LEMMA FinishKeeps ==
  ASSUME IInv, PolicyTypeOK', NEW w \in Worker,
         pc[w] \in {"found", "unknown", "absent", "reserved"},
         RowFree(job[w]), Holds(w), Finish(w),
         WorkerFrame, UNCHANGED <<receiverVars, sent, poster>>,
         NEW row \in Intent,
         intents' = [intents EXCEPT ![job[w]] = row],
         row.state \in {"uncertain", "confirmed", "blocked", "excepted"},
         row.state = "confirmed" => job[w] \in effects,
         row.attempts = intents[job[w]].attempts,
         SameBinding(row, intents[job[w]]),
         row.state # "excepted" => row.checks < MaxChecks
  PROVE  TypeOK' /\ SafeInv'
<1>1. /\ job[w] \in Effect /\ TypeOK /\ WorkersInv
      /\ intents \in [Effect -> Intent]
  BY JobIsEffect DEF IInv, SafeInv, TypeOK
<1>2. /\ intents' \in [Effect -> Intent]
      /\ intents'[job[w]] = row
      /\ \A e \in Effect \ {job[w]} : intents'[e] = intents[e]
  BY <1>1
<1>3. /\ pc' = [pc EXCEPT ![w] = "idle"] /\ job' = [job EXCEPT ![w] = NoJob]
      /\ UNCHANGED <<sent, poster, heads, effects, membership, late>>
  BY DEF Finish, WorkerFrame, receiverVars
<1>4. TypeOK'
  BY <1>1, <1>2, <1>3, WorkerTypes DEF SenderTypeOK, TypeOK, Phase, ReceiverTypeOK
<1>5. RowsInv'
  BY <1>1, <1>2, <1>3, EffectParts DEF IInv, SafeInv, RowsInv, Holds,
                              ApprovedAsRequired, SameBinding
<1>6. PostBudget'
  BY <1>1, <1>2, <1>3 DEF IInv, SafeInv, PostBudget
<1>7. WorkersInv'
  BY <1>1, <1>2, <1>3, ActivationAssumption
     DEF WorkersInv, Waiting, Holds, TypeOK
<1>8. PostingInv'
  <2>1. UNCHANGED <<policyVars, heads>>
    BY DEF WorkerFrame
  <2> QED
    BY <1>1, <1>2, <1>3, <2>1, PostingStays, ActivationAssumption
       DEF IInv, SafeInv, RowFree, TypeOK, SameBinding
<1>9. DeliveryInv' /\ ConfirmedIsCommitted' /\ MembershipIsNewest'
  BY <1>1, <1>2, <1>3
     DEF IInv, SafeInv, DeliveryInv, ConfirmedIsCommitted, MembershipIsNewest,
         ApprovedAsRequired, SameBinding
<1> QED
  BY <1>4, <1>5, <1>6, <1>7, <1>8, <1>9 DEF SafeInv

LEMMA FreeRow ==
  ASSUME LockFree, NEW e
  PROVE  RowFree(e)
BY ActivationAssumption DEF LockFree, RowFree

\* Each way a dispatch finishes with its own row.
LEMMA FinishesKeep ==
  ASSUME IInv, PolicyTypeOK', NEW w \in Worker,
         Confirm(w) \/ Inconclusive(w) \/ Block(w) \/ Exhaust(w)
  PROVE  TypeOK' /\ SafeInv'
<1>1. pc[w] \in {"found", "unknown", "absent", "reserved"}
  BY DEF Confirm, Inconclusive, Block, Exhaust
<1>2. /\ job[w] \in Effect /\ intents[job[w]] \in Intent
      /\ intents \in [Effect -> Intent] /\ WorkersInv
      /\ Holds(w) => intents[job[w]].checks < MaxChecks
  BY <1>1, JobIsEffect DEF IInv, SafeInv, TypeOK, RowsInv, Holds,
                           ApprovedAsRequired, SameBinding
<1>3. ASSUME Confirm(w) PROVE TypeOK' /\ SafeInv'
  <2> DEFINE row == [intents[job[w]] EXCEPT !.state = "confirmed",
                                            !.lease = NoWorker, !.lapsed = FALSE]
  <2>1. /\ row \in Intent /\ row.state = "confirmed"
        /\ row.checks = intents[job[w]].checks
        /\ row.attempts = intents[job[w]].attempts
        /\ SameBinding(row, intents[job[w]])
    BY <1>2 DEF Intent, States, Approvals, SameBinding
  <2>2. intents' = [intents EXCEPT ![job[w]] = row]
    BY <1>2, <1>3 DEF Confirm, Release
  <2>3. job[w] \in effects
    BY <1>2, <1>3 DEF Confirm, WorkersInv
  <2> HIDE DEF row
  <2> QED
    BY <1>1, <1>2, <1>3, <2>1, <2>2, <2>3, FinishKeeps DEF Confirm
<1>4. ASSUME Inconclusive(w) PROVE TypeOK' /\ SafeInv'
  <2> DEFINE checks == intents[job[w]].checks + 1
             next == IF checks >= MaxChecks THEN "excepted" ELSE "uncertain"
             row == [intents[job[w]] EXCEPT
                       !.checks = checks, !.state = next,
                       !.lease = NoWorker, !.lapsed = FALSE]
  <2>1. checks \in 0..MaxChecks
    BY <1>2, <1>4, ActivationAssumption DEF Inconclusive, Intent, Approvals, SameBinding
  <2>2. /\ next \in {"excepted", "uncertain"}
        /\ next # "excepted" => checks < MaxChecks
    BY <2>1, ActivationAssumption
  <2> HIDE DEF checks, next
  <2>3. /\ row \in Intent /\ row.state \in {"excepted", "uncertain"}
        /\ row.state # "excepted" => row.checks < MaxChecks
        /\ row.attempts = intents[job[w]].attempts
        /\ SameBinding(row, intents[job[w]])
    BY <1>2, <2>1, <2>2 DEF Intent, States, Approvals, SameBinding
  <2>4. intents' = [intents EXCEPT ![job[w]] = row]
    BY <1>2, <1>4 DEF Inconclusive, LastCheck, checks, next
  <2> HIDE DEF row
  <2> QED
    BY <1>1, <1>4, <2>3, <2>4, FinishKeeps DEF Inconclusive
<1>5. ASSUME Block(w) PROVE TypeOK' /\ SafeInv'
  <2> DEFINE row == [intents[job[w]] EXCEPT !.state = "blocked",
                                            !.lease = NoWorker, !.lapsed = FALSE]
  <2>1. /\ row \in Intent /\ row.state = "blocked"
        /\ row.checks = intents[job[w]].checks
        /\ row.attempts = intents[job[w]].attempts
        /\ SameBinding(row, intents[job[w]])
    BY <1>2 DEF Intent, States, Approvals, SameBinding
  <2>2. intents' = [intents EXCEPT ![job[w]] = row]
    BY <1>2, <1>5 DEF Block, Release
  <2> HIDE DEF row
  <2> QED
    BY <1>1, <1>2, <1>5, <2>1, <2>2, FreeRow, FinishKeeps DEF Block
<1>6. ASSUME Exhaust(w) PROVE TypeOK' /\ SafeInv'
  <2> DEFINE row == [intents[job[w]] EXCEPT !.state = "excepted"]
  <2>1. /\ row \in Intent /\ row.state = "excepted"
        /\ row.attempts = intents[job[w]].attempts
        /\ SameBinding(row, intents[job[w]])
    BY <1>2 DEF Intent, States, Approvals, SameBinding
  <2>2. intents' = [intents EXCEPT ![job[w]] = row]
    BY <1>2, <1>6 DEF Exhaust
  <2> HIDE DEF row
  <2> QED
    BY <1>1, <1>6, <2>1, <2>2, FreeRow, FinishKeeps DEF Exhaust
<1> QED
  BY <1>3, <1>4, <1>5, <1>6

\* Steps that only move a worker.
LEMMA MovesKeep ==
  ASSUME IInv, PolicyTypeOK', NEW w \in Worker,
         Readback(w) \/ VerifyRead(w) \/ LeaseLost(w)
  PROVE  TypeOK' /\ SafeInv'
<1>1. /\ job[w] \in Effect /\ TypeOK /\ WorkersInv /\ job[w] # NoJob
      /\ pc[w] \in {"readback", "verify", "found", "unknown", "absent", "reserved"}
  BY JobIsEffect, ActivationAssumption DEF IInv, SafeInv, Readback, VerifyRead, LeaseLost
<1>2. /\ UNCHANGED <<intents, sent, poster, heads, effects, membership, late>>
      /\ WorkerFrame /\ UNCHANGED policyVars
  BY DEF Readback, VerifyRead, LeaseLost, WorkerFrame, receiverVars
<1>3. \/ /\ pc' = [pc EXCEPT ![w] = "idle"] /\ job' = [job EXCEPT ![w] = NoJob]
      \/ /\ \E phase \in {"found", "unknown", "absent"} :
              /\ pc' = [pc EXCEPT ![w] = phase]
              /\ phase = "found" => job[w] \in effects
         /\ job' = job
  BY DEF Readback, VerifyRead, Found, LeaseLost, Goto, Finish
<1>4. TypeOK'
  BY <1>1, <1>2, <1>3, WorkerTypes DEF SenderTypeOK, TypeOK, Phase, ReceiverTypeOK
<1>5. RowsInv' /\ PostBudget' /\ DeliveryInv' /\ ConfirmedIsCommitted' /\ MembershipIsNewest'
  BY <1>2 DEF IInv, SafeInv, RowsInv, PostBudget, DeliveryInv, ConfirmedIsCommitted,
              MembershipIsNewest, ApprovedAsRequired, SameBinding
<1>6. WorkersInv'
  BY <1>1, <1>2, <1>3 DEF WorkersInv, Waiting, Holds, TypeOK
<1>7. PostingInv'
  BY <1>1, <1>2, <1>3, PostingStays, ActivationAssumption DEF IInv, SafeInv, TypeOK, SameBinding
<1> QED
  BY <1>4, <1>5, <1>6, <1>7 DEF SafeInv

LEMMA ClaimKeeps ==
  ASSUME IInv, PolicyTypeOK', NEW w \in Worker, NEW e \in Effect, Claim(w, e)
  PROVE  TypeOK' /\ SafeInv'
<1> DEFINE row == [intents[e] EXCEPT !.state = "inflight", !.lease = w, !.lapsed = FALSE]
<1>1. /\ TypeOK /\ WorkersInv /\ e # NoJob
      /\ intents \in [Effect -> Intent] /\ intents[e] \in Intent
  BY ActivationAssumption DEF IInv, SafeInv, TypeOK
<1>2. /\ row \in Intent /\ row.state = "inflight" /\ row.lease = w
      /\ row.attempts = intents[e].attempts /\ SameBinding(row, intents[e])
      /\ row.checks = intents[e].checks
  BY <1>1 DEF Intent, States, Approvals, SameBinding
<1>3. intents' = [intents EXCEPT ![e] = row]
  BY <1>1 DEF Claim
<1> HIDE DEF row
<1>4. /\ intents' \in [Effect -> Intent] /\ intents'[e] = row
      /\ \A x \in Effect \ {e} : intents'[x] = intents[x]
  BY <1>1, <1>2, <1>3
<1>5. /\ pc[w] = "idle" /\ RowFree(e)
      /\ intents[e].state \in {"approved", "uncertain", "inflight"}
      /\ pc' = [pc EXCEPT ![w] = "readback"] /\ job' = [job EXCEPT ![w] = e]
      /\ UNCHANGED <<sent, poster, heads, effects, membership, late>>
      /\ WorkerFrame /\ UNCHANGED policyVars
  BY DEF Claim, Claimable, Ready, LeaseOver, WorkerFrame, receiverVars
<1>6. TypeOK'
  BY <1>1, <1>4, <1>5, WorkerTypes DEF SenderTypeOK, TypeOK, Phase, ReceiverTypeOK
<1>7. RowsInv'
  BY <1>2, <1>4, <1>5, EffectParts DEF IInv, SafeInv, RowsInv,
                              ApprovedAsRequired, SameBinding
<1>8. PostBudget' /\ DeliveryInv' /\ ConfirmedIsCommitted' /\ MembershipIsNewest'
  BY <1>2, <1>4, <1>5
     DEF IInv, SafeInv, PostBudget, DeliveryInv, ConfirmedIsCommitted, MembershipIsNewest,
         ApprovedAsRequired, SameBinding
<1>9. WorkersInv'
  BY <1>1, <1>2, <1>4, <1>5 DEF WorkersInv, Waiting, Holds, TypeOK
<1>10. PostingInv'
  BY <1>1, <1>4, <1>5, PostingStays
     DEF IInv, SafeInv, TypeOK, RowFree, WorkersInv, Waiting, SameBinding
<1> QED
  BY <1>6, <1>7, <1>8, <1>9, <1>10 DEF SafeInv

LEMMA ReserveKeeps ==
  ASSUME IInv, PolicyTypeOK', NEW w \in Worker, Reserve(w)
  PROVE  TypeOK' /\ SafeInv'
<1> DEFINE e == job[w]
           row == [intents[e] EXCEPT !.attempts = @ + 1]
<1>1. /\ TypeOK /\ WorkersInv /\ e \in Effect /\ e # NoJob
      /\ intents \in [Effect -> Intent] /\ intents[e] \in Intent
      /\ LockFree /\ Holds(w) /\ pc[w] = "absent" /\ intents[e].attempts < MaxAttempts
  BY JobIsEffect, ActivationAssumption DEF IInv, SafeInv, TypeOK, Reserve
<1>2. /\ row \in Intent /\ row.state = "inflight" /\ row.lease = w
      /\ row.attempts = intents[e].attempts + 1 /\ SameBinding(row, intents[e])
      /\ row.checks = intents[e].checks
  BY <1>1, ActivationAssumption DEF Intent, Holds, Approvals, SameBinding
<1>3. intents' = [intents EXCEPT ![e] = row]
  BY <1>1 DEF Reserve, Counted
<1> HIDE DEF row
<1>4. /\ intents' \in [Effect -> Intent] /\ intents'[e] = row
      /\ \A x \in Effect \ {e} : intents'[x] = intents[x]
  BY <1>1, <1>2, <1>3
<1>5. /\ pc' = [pc EXCEPT ![w] = "reserved"]
      /\ UNCHANGED <<job, sent, poster, heads, effects, membership, late>>
      /\ WorkerFrame /\ UNCHANGED policyVars
  BY DEF Reserve, Goto, WorkerFrame, receiverVars
<1>6. TypeOK'
  BY <1>1, <1>4, <1>5, WorkerTypes DEF SenderTypeOK, TypeOK, Phase, ReceiverTypeOK
<1>7. RowsInv'
  BY <1>1, <1>2, <1>4, <1>5, EffectParts DEF IInv, SafeInv, RowsInv, Holds,
                              ApprovedAsRequired, SameBinding
<1>8. /\ PostBudget' /\ \A x \in Effect : intents[x].attempts <= intents'[x].attempts
      /\ sent[e] < intents'[e].attempts
  BY <1>1, <1>2, <1>4, <1>5, ActivationAssumption
     DEF IInv, SafeInv, PostBudget, TypeOK, Intent, Approvals, SameBinding
<1>9. DeliveryInv' /\ ConfirmedIsCommitted' /\ MembershipIsNewest'
  BY <1>1, <1>2, <1>4, <1>5
     DEF IInv, SafeInv, DeliveryInv, ConfirmedIsCommitted, MembershipIsNewest,
         ApprovedAsRequired, SameBinding
<1>10. WorkersInv'
  BY <1>1, <1>2, <1>4, <1>5, <1>8, ActivationAssumption
     DEF WorkersInv, Waiting, Holds, TypeOK, LockFree
<1>11. PostingInv'
  BY <1>1, <1>5, ActivationAssumption DEF PostingInv, LockFree
<1> QED
  BY <1>6, <1>7, <1>8, <1>9, <1>10, <1>11 DEF SafeInv

LEMMA SendKeeps ==
  ASSUME IInv, PolicyTypeOK', NEW w \in Worker, Send(w)
  PROVE  TypeOK' /\ SafeInv'
<1>1. /\ TypeOK /\ WorkersInv /\ job[w] \in Effect /\ job[w] # NoJob
      /\ LockFree /\ Holds(w) /\ pc[w] = "reserved"
      /\ sent[job[w]] < intents[job[w]].attempts
      /\ intents[job[w]].attempts \in Nat
  BY JobIsEffect, ActivationAssumption
     DEF IInv, SafeInv, TypeOK, Send, WorkersInv, Intent, Approvals, SameBinding
<1>2. /\ pc' = [pc EXCEPT ![w] = "posting"] /\ job' = job /\ poster' = w
      /\ sent' = [sent EXCEPT ![job[w]] = @ + 1]
      /\ UNCHANGED <<intents, heads, effects, membership, late>>
      /\ WorkerFrame /\ UNCHANGED policyVars
  BY DEF Send, Goto, WorkerFrame, receiverVars
<1>3. /\ sent' \in [Effect -> Nat]
      /\ sent'[job[w]] <= intents[job[w]].attempts /\ sent'[job[w]] > 0
      /\ \A x \in Effect : sent'[x] >= sent[x]
      /\ \A x \in Effect \ {job[w]} : sent'[x] = sent[x]
  BY <1>1, <1>2 DEF TypeOK
<1>4. TypeOK'
  BY <1>1, <1>2, <1>3, WorkerTypes DEF SenderTypeOK, TypeOK, Phase, ReceiverTypeOK
<1>5. RowsInv' /\ ConfirmedIsCommitted' /\ MembershipIsNewest'
  BY <1>2 DEF IInv, SafeInv, RowsInv, ConfirmedIsCommitted, MembershipIsNewest,
              ApprovedAsRequired, SameBinding
<1>6. PostBudget'
  BY <1>1, <1>2, <1>3 DEF IInv, SafeInv, PostBudget
<1>7. DeliveryInv'
  BY <1>1, <1>2, <1>3 DEF IInv, SafeInv, DeliveryInv, TypeOK,
                          ApprovedAsRequired, SameBinding
<1>8. WorkersInv'
  BY <1>1, <1>2, <1>3, ActivationAssumption DEF WorkersInv, Waiting, Holds, TypeOK, LockFree
<1>9. PostingInv'
  <2> SUFFICES ASSUME NEW x \in Worker, NEW e \in Effect, poster' = x, job'[x] = e
               PROVE  /\ Authorized(e)'
                      /\ intents'[e].state = "inflight" /\ intents'[e].lease = x
    BY DEF PostingInv
  <2>1. x = w /\ e = job[w]
    BY <1>2
  <2>2. Authorized(e)
    BY <2>1 DEF Send
  <2>3. Authorized(e)' = Authorized(e)
    BY <1>2, AuthorizedStays DEF SameBinding
  <2> QED
    BY <1>1, <1>2, <2>1, <2>2, <2>3 DEF Holds
<1> QED
  BY <1>4, <1>5, <1>6, <1>7, <1>8, <1>9 DEF SafeInv

\* What the receiver does with a request for e that was sent and approved.
LEMMA HandleKeeps ==
  ASSUME TypeOK, MembershipIsNewest, NEW e \in Effect,
         Handle(e, intents[e].desired)
  PROVE  /\ effects' \subseteq Effect
         /\ membership' \in [Key -> [seq: Nat, active: BOOLEAN]]
         /\ effects' \in {effects, effects \union {e}}
         /\ MembershipIsNewest'
<1>1. /\ KeyOf(e) \in Key /\ SeqOf(e) \in Nat /\ MaxSeq \in Nat
      /\ \A x \in Effect : KeyOf(x) \in Key /\ SeqOf(x) \in Nat
  BY EffectParts, ReceiverAssumption
<1>2. /\ membership \in [Key -> [seq: Nat, active: BOOLEAN]] /\ effects \subseteq Effect
      /\ intents[e].desired \in BOOLEAN
  BY DEF TypeOK, ReceiverTypeOK, Intent, Approvals, SameBinding
<1>3. CASE Fresh(e)
  <2>1. /\ effects' = effects \union {e}
        /\ membership' = [membership EXCEPT ![KeyOf(e)] =
                            [seq |-> SeqOf(e), active |-> intents[e].desired]]
        /\ membership[KeyOf(e)].seq < SeqOf(e)
    BY <1>3 DEF Handle, Fresh
  <2>2. /\ membership'[KeyOf(e)].seq = SeqOf(e)
        /\ \A k \in Key \ {KeyOf(e)} : membership'[k] = membership[k]
        /\ \A k \in Key : membership[k].seq \in Nat
    BY <1>1, <1>2, <2>1
  <2> QED
    BY <1>1, <1>2, <2>1, <2>2 DEF MembershipIsNewest
<1>4. CASE ~Fresh(e)
  BY <1>2, <1>4 DEF Handle, MembershipIsNewest
<1> QED
  BY <1>3, <1>4

LEMMA ServeKeeps ==
  ASSUME IInv, PolicyTypeOK', NEW w \in Worker, Serve(w)
  PROVE  TypeOK' /\ SafeInv'
<1>1. /\ TypeOK /\ WorkersInv /\ job[w] \in Effect /\ job[w] # NoJob
      /\ pc[w] = "posting" /\ poster = w /\ sent[job[w]] > 0
      /\ ApprovedAsRequired(job[w]) /\ MembershipIsNewest
  BY JobIsEffect, ActivationAssumption
     DEF IInv, SafeInv, TypeOK, Serve, WorkersInv, Waiting, RowsInv,
         ApprovedAsRequired, SameBinding
<1>2. /\ \E phase \in {"acked", "refused"} : pc' = [pc EXCEPT ![w] = phase]
      /\ UNCHANGED <<intents, heads, late, job, poster, sent>>
      /\ WorkerFrame /\ UNCHANGED policyVars
  BY DEF Serve, Goto, WorkerFrame
<1>3. /\ effects' \subseteq Effect
      /\ membership' \in [Key -> [seq: Nat, active: BOOLEAN]]
      /\ effects' \in {effects, effects \union {job[w]}}
      /\ MembershipIsNewest'
  <2>1. CASE Handle(job[w], intents[job[w]].desired)
    BY <1>1, <2>1, HandleKeeps
  <2>2. CASE UNCHANGED <<effects, membership>>
    BY <1>1, <2>2 DEF TypeOK, ReceiverTypeOK, MembershipIsNewest
  <2> QED
    BY <2>1, <2>2 DEF Serve
<1>4. TypeOK'
  BY <1>1, <1>2, <1>3, WorkerTypes DEF SenderTypeOK, TypeOK, Phase, ReceiverTypeOK
<1>5. RowsInv' /\ PostBudget'
  BY <1>2 DEF IInv, SafeInv, RowsInv, PostBudget, ApprovedAsRequired, SameBinding
<1>6. DeliveryInv' /\ ConfirmedIsCommitted'
  BY <1>1, <1>2, <1>3 DEF IInv, SafeInv, DeliveryInv, ConfirmedIsCommitted,
                          ApprovedAsRequired, SameBinding
<1>7. WorkersInv'
  BY <1>1, <1>2, <1>3 DEF WorkersInv, Waiting, Holds, TypeOK
<1>8. PostingInv'
  BY <1>2, PostingStays DEF IInv, SafeInv, SameBinding
<1> QED
  BY <1>3, <1>4, <1>5, <1>6, <1>7, <1>8 DEF SafeInv

LEMMA AcknowledgedKeeps ==
  ASSUME IInv, PolicyTypeOK', NEW w \in Worker, Acknowledged(w)
  PROVE  TypeOK' /\ SafeInv'
<1>1. /\ TypeOK /\ WorkersInv /\ job[w] \in Effect /\ job[w] # NoJob
      /\ pc[w] = "acked" /\ poster = w
  BY JobIsEffect, ActivationAssumption
     DEF IInv, SafeInv, TypeOK, Acknowledged, WorkersInv, Waiting
<1>2. /\ pc' = [pc EXCEPT ![w] = "verify"] /\ poster' = NoWorker
      /\ UNCHANGED <<intents, heads, late, job, sent, effects, membership>>
      /\ WorkerFrame
  BY DEF Acknowledged, Goto, WorkerFrame, receiverVars
<1>3. TypeOK'
  BY <1>1, <1>2, WorkerTypes DEF SenderTypeOK, TypeOK, Phase, ReceiverTypeOK
<1>4. RowsInv' /\ PostBudget' /\ DeliveryInv' /\ ConfirmedIsCommitted' /\ MembershipIsNewest'
  BY <1>2 DEF IInv, SafeInv, RowsInv, PostBudget, DeliveryInv, ConfirmedIsCommitted,
              MembershipIsNewest, ApprovedAsRequired, SameBinding
<1>5. WorkersInv'
  BY <1>1, <1>2, ActivationAssumption DEF WorkersInv, Waiting, Holds, TypeOK
<1>6. PostingInv'
  BY <1>2, ActivationAssumption DEF PostingInv
<1> QED
  BY <1>3, <1>4, <1>5, <1>6 DEF SafeInv

\* A timed-out request joins the wire; it was sent, and its intent is approved.
LEMMA LateKeeps ==
  ASSUME TypeOK, DeliveryInv, NEW e \in Effect, sent[e] > 0, ApprovedAsRequired(e),
         UNCHANGED <<sent, effects>>,
         late' = late \/ late' = [late EXCEPT ![e] = @ + 1],
         \A x \in Effect : SameBinding(intents'[x], intents[x])
  PROVE  DeliveryInv' /\ late' \in [Effect -> Nat]
<1>1. late \in [Effect -> Nat]
  BY DEF TypeOK, ReceiverTypeOK
<1>2. \A x \in Effect \ {e} : late'[x] = late[x]
  BY <1>1
<1> QED
  BY <1>1, <1>2 DEF DeliveryInv, ApprovedAsRequired, SameBinding

LEMMA UnacknowledgedKeeps ==
  ASSUME IInv, PolicyTypeOK', NEW w \in Worker, Unacknowledged(w)
  PROVE  TypeOK' /\ SafeInv'
<1> DEFINE e == job[w]
           row == [intents[e] EXCEPT !.state = "uncertain",
                                     !.lease = NoWorker, !.lapsed = FALSE]
<1>1. /\ TypeOK /\ WorkersInv /\ e \in Effect
      /\ intents \in [Effect -> Intent] /\ intents[e] \in Intent
      /\ pc[w] \in Waiting /\ poster = w /\ sent[e] > 0 /\ ApprovedAsRequired(e)
      /\ intents[e].state = "inflight"
  BY JobIsEffect
     DEF IInv, SafeInv, TypeOK, Unacknowledged, WorkersInv, Waiting, RowsInv, PostingInv,
         ApprovedAsRequired, SameBinding
<1>2. /\ row \in Intent /\ row.state = "uncertain"
      /\ row.attempts = intents[e].attempts /\ SameBinding(row, intents[e])
      /\ row.checks = intents[e].checks
  BY <1>1 DEF Intent, States, Approvals, SameBinding
<1>3. intents' = [intents EXCEPT ![e] = row]
  BY <1>1 DEF Unacknowledged, Release
<1> HIDE DEF row
<1>4. /\ intents' \in [Effect -> Intent] /\ intents'[e] = row
      /\ \A x \in Effect \ {e} : intents'[x] = intents[x]
  BY <1>1, <1>2, <1>3
<1>5. /\ pc' = [pc EXCEPT ![w] = "idle"] /\ job' = [job EXCEPT ![w] = NoJob]
      /\ poster' = NoWorker
      /\ late' = late \/ late' = [late EXCEPT ![e] = @ + 1]
      /\ UNCHANGED <<heads, effects, membership, sent>> /\ WorkerFrame
  BY DEF Unacknowledged, Finish, WorkerFrame
<1>6. DeliveryInv' /\ late' \in [Effect -> Nat]
  BY <1>1, <1>2, <1>4, <1>5, LateKeeps DEF IInv, SafeInv, SameBinding
<1>7. TypeOK'
  BY <1>1, <1>4, <1>5, <1>6, WorkerTypes DEF SenderTypeOK, TypeOK, Phase, ReceiverTypeOK
<1>8. RowsInv'
  BY <1>1, <1>2, <1>4, <1>5, EffectParts DEF IInv, SafeInv, RowsInv,
                              ApprovedAsRequired, SameBinding
<1>9. PostBudget' /\ ConfirmedIsCommitted' /\ MembershipIsNewest'
  BY <1>2, <1>4, <1>5 DEF IInv, SafeInv, PostBudget, ConfirmedIsCommitted, MembershipIsNewest
<1>10. WorkersInv'
  BY <1>1, <1>2, <1>4, <1>5, ActivationAssumption DEF WorkersInv, Waiting, Holds, TypeOK
<1>11. PostingInv'
  BY <1>5, ActivationAssumption DEF PostingInv
<1> QED
  BY <1>6, <1>7, <1>8, <1>9, <1>10, <1>11 DEF SafeInv

LEMMA CrashKeeps ==
  ASSUME IInv, PolicyTypeOK', NEW w \in Worker, Crash(w)
  PROVE  TypeOK' /\ SafeInv'
<1>1. /\ TypeOK /\ WorkersInv /\ job[w] \in Effect /\ pc[w] # "idle"
      /\ ApprovedAsRequired(job[w])
      /\ pc[w] = "posting" => sent[job[w]] > 0
  BY JobIsEffect DEF IInv, SafeInv, Crash, WorkersInv, Waiting, RowsInv,
                     ApprovedAsRequired, SameBinding
<1>2. /\ pc' = [pc EXCEPT ![w] = "idle"] /\ job' = [job EXCEPT ![w] = NoJob]
      /\ poster' = IF poster = w THEN NoWorker ELSE poster
      /\ crashes' = crashes + 1 /\ crashes < MaxCrashes
      /\ UNCHANGED <<intents, heads, effects, membership, sent, observed, todo, stage,
                     overruns, policyVars>>
  BY DEF Crash, Finish, senderVars, reconcileVars
<1>3. DeliveryInv' /\ late' \in [Effect -> Nat]
  <2>0. \/ late' = late
        \/ pc[w] = "posting" /\ late' = [late EXCEPT ![job[w]] = @ + 1]
    BY DEF Crash
  <2>1. CASE late' = late
    BY <1>1, <1>2, <2>1 DEF IInv, SafeInv, DeliveryInv, TypeOK, ReceiverTypeOK,
                            ApprovedAsRequired, SameBinding
  <2>2. CASE pc[w] = "posting" /\ late' = [late EXCEPT ![job[w]] = @ + 1]
    BY <1>1, <1>2, <2>2, LateKeeps DEF IInv, SafeInv, SameBinding
  <2> QED
    BY <2>0, <2>1, <2>2
<1>4. TypeOK'
  BY <1>1, <1>2, <1>3, ActivationAssumption DEF TypeOK, Phase, ReceiverTypeOK
<1>5. RowsInv' /\ PostBudget' /\ ConfirmedIsCommitted' /\ MembershipIsNewest'
  BY <1>2 DEF IInv, SafeInv, RowsInv, PostBudget, ConfirmedIsCommitted, MembershipIsNewest,
              ApprovedAsRequired, SameBinding
<1>6. WorkersInv'
  BY <1>1, <1>2, ActivationAssumption DEF WorkersInv, Waiting, Holds, TypeOK
<1>7. PostingInv'
  BY <1>1, <1>2, PostingStays, ActivationAssumption DEF IInv, SafeInv, TypeOK, SameBinding
<1> QED
  BY <1>3, <1>4, <1>5, <1>6, <1>7 DEF SafeInv

LEMMA LapseKeeps ==
  ASSUME IInv, PolicyTypeOK', NEW e \in Effect, Lapse(e)
  PROVE  TypeOK' /\ SafeInv'
<1>1. /\ TypeOK /\ WorkersInv /\ intents \in [Effect -> Intent]
  BY DEF IInv, SafeInv, TypeOK
<1>2. /\ intents' \in [Effect -> Intent]
      /\ \A x \in Effect :
           /\ intents'[x].state = intents[x].state /\ intents'[x].lease = intents[x].lease
           /\ intents'[x].attempts = intents[x].attempts
           /\ intents'[x].checks = intents[x].checks
           /\ SameBinding(intents'[x], intents[x])
  BY <1>1 DEF Lapse, Intent, Approvals, SameBinding
<1>3. /\ UNCHANGED <<heads, sent, effects, membership, late, pc, job, poster, observed, todo,
                     stage, crashes, policyVars>>
      /\ overruns' \in 0..MaxOverruns
  BY <1>1, ActivationAssumption DEF Lapse, receiverVars, workerVars, reconcileVars, TypeOK
<1>4. TypeOK'
  BY <1>1, <1>2, <1>3 DEF TypeOK, ReceiverTypeOK
<1>5. RowsInv' /\ PostBudget' /\ DeliveryInv' /\ ConfirmedIsCommitted' /\ MembershipIsNewest'
  BY <1>2, <1>3 DEF IInv, SafeInv, RowsInv, PostBudget, DeliveryInv, ConfirmedIsCommitted,
                    MembershipIsNewest, ApprovedAsRequired, SameBinding
<1>6. WorkersInv'
  BY <1>1, <1>2, <1>3, ActivationAssumption DEF WorkersInv, Waiting, Holds, TypeOK
<1>7. PostingInv'
  BY <1>2, <1>3, PostingStays DEF IInv, SafeInv, SameBinding
<1> QED
  BY <1>4, <1>5, <1>6, <1>7 DEF SafeInv

LEMMA DeliverLateKeeps ==
  ASSUME IInv, PolicyTypeOK', NEW e \in Effect, DeliverLate(e)
  PROVE  TypeOK' /\ SafeInv'
<1>1. /\ TypeOK /\ WorkersInv /\ MembershipIsNewest /\ late \in [Effect -> Nat]
      /\ sent[e] > 0 /\ ApprovedAsRequired(e)
  BY DEF IInv, SafeInv, TypeOK, ReceiverTypeOK, DeliverLate, DeliveryInv,
         ApprovedAsRequired, SameBinding
<1>2. /\ late' \in [Effect -> Nat] /\ \A x \in Effect : late'[x] <= late[x]
  BY <1>1 DEF DeliverLate
<1>3. UNCHANGED <<intents, heads, sent, pc, job, poster, observed, todo,
                  stage, crashes, overruns, policyVars>>
  BY DEF DeliverLate, senderVars, workerVars, reconcileVars, budgetVars
<1>4. /\ effects' \subseteq Effect
      /\ membership' \in [Key -> [seq: Nat, active: BOOLEAN]]
      /\ effects' \in {effects, effects \union {e}}
      /\ MembershipIsNewest'
  BY <1>1, HandleKeeps DEF DeliverLate
<1>5. TypeOK'
  BY <1>1, <1>2, <1>3, <1>4 DEF TypeOK, ReceiverTypeOK
<1>6. RowsInv' /\ PostBudget'
  BY <1>3 DEF IInv, SafeInv, RowsInv, PostBudget, ApprovedAsRequired, SameBinding
<1>7. DeliveryInv' /\ ConfirmedIsCommitted'
  BY <1>1, <1>2, <1>3, <1>4 DEF IInv, SafeInv, DeliveryInv, ConfirmedIsCommitted,
                              ApprovedAsRequired, SameBinding
<1>8. WorkersInv'
  BY <1>1, <1>3, <1>4 DEF WorkersInv, Holds
<1>9. PostingInv'
  BY <1>3, PostingStays DEF IInv, SafeInv, SameBinding
<1> QED
  BY <1>4, <1>5, <1>6, <1>7, <1>8, <1>9 DEF SafeInv

LEMMA DriftKeeps ==
  ASSUME IInv, PolicyTypeOK', NEW k \in Key, DestinationDrifts(k)
  PROVE  TypeOK' /\ SafeInv'
<1>1. PICK seq \in DriftSeq : Drift(k, seq)
  BY DEF DestinationDrifts
<1>2. seq \in Nat
  BY ReceiverAssumption
<1>3. UNCHANGED <<intents, heads, sent, pc, job, poster, observed, todo, effects, late,
                  stage, crashes, overruns, policyVars>>
  BY <1>1 DEF DestinationDrifts, Drift, senderVars, workerVars, reconcileVars, budgetVars
<1>4. /\ membership \in [Key -> [seq: Nat, active: BOOLEAN]]
      /\ membership[k].seq = 0
      /\ membership' = [membership EXCEPT ![k] = [seq |-> seq, active |-> TRUE]]
  BY <1>1 DEF Drift, IInv, TypeOK, ReceiverTypeOK
<1>5. TypeOK'
  BY <1>2, <1>3, <1>4 DEF IInv, TypeOK, ReceiverTypeOK
<1>6. RowsInv' /\ PostBudget' /\ DeliveryInv' /\ ConfirmedIsCommitted' /\ WorkersInv'
  BY <1>3 DEF IInv, SafeInv, RowsInv, PostBudget, DeliveryInv, ConfirmedIsCommitted,
              WorkersInv, Holds, ApprovedAsRequired, SameBinding
<1>7. MembershipIsNewest'
  <2> SUFFICES ASSUME NEW e \in effects PROVE SeqOf(e) <= membership'[KeyOf(e)].seq
    BY <1>3 DEF MembershipIsNewest
  <2>1. /\ SeqOf(e) <= membership[KeyOf(e)].seq
        /\ KeyOf(e) \in Key /\ SeqOf(e) \in 1..MaxSeq
    BY EffectParts DEF IInv, SafeInv, MembershipIsNewest, TypeOK, ReceiverTypeOK
  <2> QED
    BY <1>2, <1>4, <2>1, ReceiverAssumption
<1>8. PostingInv'
  BY <1>3, PostingStays DEF IInv, SafeInv, SameBinding
<1> QED
  BY <1>5, <1>6, <1>7, <1>8 DEF SafeInv

\* While no POST waits, a step of the policy or of a reconciliation that plans
\* nothing touches no part of the invariant.
LEMMA QuietKeeps ==
  ASSUME IInv, TypeOK', LockFree \/ UNCHANGED policyVars,
         UNCHANGED <<intents, heads, sent, effects, membership, late, pc, job, poster>>
  PROVE  SafeInv'
<1>1. /\ RowsInv' /\ PostBudget' /\ DeliveryInv' /\ ConfirmedIsCommitted'
      /\ WorkersInv' /\ MembershipIsNewest'
  BY DEF IInv, SafeInv, RowsInv, PostBudget, DeliveryInv, ConfirmedIsCommitted,
         WorkersInv, Holds, MembershipIsNewest, ApprovedAsRequired, SameBinding
<1>2. PostingInv'
  <2>1. CASE LockFree
    BY <2>1, ActivationAssumption DEF LockFree, PostingInv
  <2>2. CASE UNCHANGED policyVars
    BY <2>2, PostingStays DEF IInv, SafeInv, SameBinding
  <2> QED
    BY <2>1, <2>2
<1> QED
  BY <1>1, <1>2 DEF SafeInv

LEMMA PolicyStepKeeps ==
  ASSUME IInv, PolicyTypeOK', PolicyStep
  PROVE  TypeOK' /\ SafeInv'
<1>1. TypeOK'
  BY DEF IInv, TypeOK, ReceiverTypeOK, PolicyStep, receiverVars, senderVars, workerVars,
         reconcileVars, budgetVars
<1> QED
  BY <1>1, QuietKeeps DEF PolicyStep, receiverVars, senderVars, workerVars

LEMMA ApproveKeeps ==
  ASSUME IInv, PolicyTypeOK', NEW e \in Effect, Approve(e)
  PROVE  TypeOK' /\ SafeInv'
<1> DEFINE row == [intents[e] EXCEPT !.approval = "reviewed", !.state = "approved"]
<1>1. /\ TypeOK /\ WorkersInv /\ intents \in [Effect -> Intent] /\ intents[e] \in Intent
      /\ LockFree /\ intents[e].state \in {"pending", "approved"}
      /\ intents[e].authority.reason = "eligible" /\ intents[e].desired
  <2>1. intents[e].authority.reason = "eligible"
    BY DEF Approve, Eligible, Authority
  <2> QED
    BY <2>1 DEF IInv, SafeInv, TypeOK, Approve, RowsInv
<1>2. /\ row \in Intent /\ row.state = "approved" /\ row.approval = "reviewed"
      /\ row.desired /\ row.authority = intents[e].authority /\ intents[e].desired
      /\ intents[e].authority.reason = "eligible"
      /\ row.attempts = intents[e].attempts /\ row.checks = intents[e].checks
  BY <1>1 DEF Intent, States, Approvals, SameBinding
<1>3. intents' = [intents EXCEPT ![e] = row]
  BY <1>1 DEF Approve
<1> HIDE DEF row
<1>4. /\ intents' \in [Effect -> Intent] /\ intents'[e] = row
      /\ \A x \in Effect \ {e} : intents'[x] = intents[x]
  BY <1>1, <1>2, <1>3
<1>5. UNCHANGED <<heads, sent, effects, membership, late, pc, job, poster, observed, todo,
                  stage, crashes, overruns>>
  BY DEF Approve, receiverVars, workerVars, reconcileVars, budgetVars
<1>6. TypeOK'
  BY <1>1, <1>4, <1>5 DEF TypeOK, ReceiverTypeOK
<1>7. RowsInv'
  <2>1. /\ SeqOf(e) > heads'[KeyOf(e)] => intents'[e].state = "none"
        /\ ApprovedAsRequired(e)'
        /\ intents'[e].desired = (intents'[e].authority.reason = "eligible")
        /\ intents'[e].checks < MaxChecks
    BY <1>1, <1>2, <1>4, <1>5 DEF IInv, SafeInv, RowsInv, ApprovedAsRequired
  <2> QED
    BY <1>2, <1>4, <1>5, <2>1 DEF IInv, SafeInv, RowsInv, ApprovedAsRequired
<1>8. PostBudget' /\ DeliveryInv' /\ ConfirmedIsCommitted' /\ MembershipIsNewest'
  BY <1>2, <1>4, <1>5
     DEF IInv, SafeInv, PostBudget, DeliveryInv, ConfirmedIsCommitted, MembershipIsNewest,
         ApprovedAsRequired, SameBinding
<1>9. WorkersInv'
  BY <1>1, <1>2, <1>4, <1>5 DEF WorkersInv, Waiting, Holds, TypeOK
<1>10. PostingInv'
  BY <1>1, <1>5, ActivationAssumption DEF LockFree, PostingInv
<1> QED
  BY <1>6, <1>7, <1>8, <1>9, <1>10 DEF SafeInv

\* A new intent goes to a sequence that no worker, request or effect knows yet.
LEMMA PlanRowKeeps ==
  ASSUME IInv, TypeOK', NEW k \in Key, NEW remote \in Nat, PlanRow(k, remote),
         UNCHANGED <<sent, effects, membership, late, pc, job, poster>>
  PROVE  SafeInv' /\ LockFree
<1> DEFINE e == <<k, NextSeq(k, remote)>>
           row == NewIntent(Eligible(k), Authority(k))
<1>1. LockFree
  BY DEF PlanRow
<1>2. PostingInv'
  BY <1>1, ActivationAssumption DEF LockFree, PostingInv
<1>3. CASE UNCHANGED <<intents, heads>>
  BY <1>1, <1>3, QuietKeeps
<1>4. CASE /\ NextSeq(k, remote) <= MaxSeq
           /\ intents' = [intents EXCEPT ![e] = row]
           /\ heads' = [heads EXCEPT ![k] = NextSeq(k, remote)]
  <2>1. /\ TypeOK /\ intents \in [Effect -> Intent] /\ heads \in [Key -> 0..MaxSeq]
        /\ MaxSeq \in Nat
    BY ReceiverAssumption DEF IInv, TypeOK
  <2>2. /\ NextSeq(k, remote) \in 1..MaxSeq /\ heads[k] < NextSeq(k, remote)
        /\ e \in Effect /\ KeyOf(e) = k /\ SeqOf(e) = NextSeq(k, remote)
    BY <1>4, <2>1 DEF NextSeq, Effect, KeyOf, SeqOf
  <2>3. /\ row.state \in {"pending", "approved"} /\ row.attempts = 0 /\ row.checks = 0
        /\ row.state = "approved" => row.approval = "protective" /\ ~row.desired
        /\ row.desired = (row.authority.reason = "eligible")
    <3>1. Eligible(k) \in BOOLEAN /\ Authority(k) \in Bound
      BY AuthorityType DEF IInv, PolicyInv, Eligible, Bound
    <3>2. Eligible(k) = (Authority(k).reason = "eligible")
      BY DEF Eligible, Authority
    <3> QED
      BY <3>1, <3>2, NewIntentParts
  <2>4. /\ intents[e].state = "none" /\ intents[e].attempts = 0 /\ sent[e] = 0
        /\ e \notin effects /\ ~(late[e] > 0)
        /\ \A w \in Worker : job[w] # e
    <3>1. intents[e].state = "none" /\ intents[e].attempts = 0
      BY <2>2 DEF IInv, SafeInv, RowsInv, ApprovedAsRequired, SameBinding
    <3>2. sent[e] = 0
      BY <2>1, <2>2, <3>1 DEF IInv, SafeInv, PostBudget, TypeOK
    <3>3. e \notin effects /\ ~(late[e] > 0)
      BY <2>2, <3>2 DEF IInv, SafeInv, DeliveryInv, ApprovedAsRequired, SameBinding
    <3>4. \A w \in Worker : job[w] # e
      BY <2>2, <3>1, ActivationAssumption DEF IInv, SafeInv, WorkersInv
    <3> QED
      BY <3>1, <3>2, <3>3, <3>4
  <2> HIDE DEF row, e
  <2>5. /\ intents'[e] = row /\ \A x \in Effect \ {e} : intents'[x] = intents[x]
        /\ heads'[k] = SeqOf(e) /\ \A q \in Key \ {k} : heads'[q] = heads[q]
    BY <1>4, <2>1, <2>2
  <2>6. RowsInv'
    <3> SUFFICES ASSUME NEW x \in Effect
                 PROVE  /\ SeqOf(x) > heads'[KeyOf(x)] => intents'[x].state = "none"
                        /\ intents'[x].state = "none" => intents'[x].attempts = 0
                        /\ intents'[x].state \notin {"none", "pending"} => ApprovedAsRequired(x)'
                        /\ intents'[x].state # "none"
                           => intents'[x].desired = (intents'[x].authority.reason = "eligible")
                        /\ intents'[x].state # "excepted" => intents'[x].checks < MaxChecks
      BY DEF RowsInv
    <3>1. KeyOf(x) \in Key /\ SeqOf(x) \in 1..MaxSeq
      BY EffectParts
    <3>2. CASE x = e
      BY <2>2, <2>3, <2>5, <3>1, <3>2, ActivationAssumption DEF ApprovedAsRequired
    <3>3. CASE x # e
      <4>1. SeqOf(x) > heads'[KeyOf(x)] => SeqOf(x) > heads[KeyOf(x)]
        BY <2>1, <2>2, <2>5, <3>1
      <4> QED
        BY <2>5, <3>3, <4>1 DEF IInv, SafeInv, RowsInv, ApprovedAsRequired, SameBinding
    <3> QED
      BY <3>2, <3>3
  <2>7. PostBudget'
    BY <2>2, <2>3, <2>4, <2>5, ActivationAssumption DEF IInv, SafeInv, PostBudget
  <2>8. DeliveryInv' /\ ConfirmedIsCommitted' /\ MembershipIsNewest'
    BY <2>2, <2>3, <2>4, <2>5
       DEF IInv, SafeInv, DeliveryInv, ConfirmedIsCommitted, MembershipIsNewest,
           ApprovedAsRequired, SameBinding
  <2>9. WorkersInv'
    <3>1. \A w \in Worker : pc[w] # "idle" => job[w] \in Effect \ {e}
      BY <2>1, <2>4, JobIsEffect DEF IInv, SafeInv
    <3> QED
      BY <2>5, <3>1 DEF IInv, SafeInv, WorkersInv, Waiting, Holds
  <2> QED
    BY <1>1, <1>2, <2>6, <2>7, <2>8, <2>9 DEF SafeInv
<1> QED
  BY <1>3, <1>4 DEF PlanRow

\* What PlanRow leaves of the types.
LEMMA PlanRowType ==
  ASSUME IInv, NEW k \in Key, NEW remote \in Nat, PlanRow(k, remote)
  PROVE  intents' \in [Effect -> Intent] /\ heads' \in [Key -> 0..MaxSeq]
<1>1. intents \in [Effect -> Intent] /\ heads \in [Key -> 0..MaxSeq] /\ MaxSeq \in Nat
  BY ReceiverAssumption DEF IInv, TypeOK
<1>2. CASE UNCHANGED <<intents, heads>>
  BY <1>1, <1>2
<1>3. CASE /\ NextSeq(k, remote) <= MaxSeq
           /\ intents' = [intents EXCEPT ![<<k, NextSeq(k, remote)>>] =
                             NewIntent(Eligible(k), Authority(k))]
           /\ heads' = [heads EXCEPT ![k] = NextSeq(k, remote)]
  <2>1. NewIntent(Eligible(k), Authority(k)) \in Intent
    BY AuthorityType, NewIntentParts DEF IInv, PolicyInv, Eligible, Bound
  <2>2. NextSeq(k, remote) \in 1..MaxSeq
    BY <1>1, <1>3 DEF NextSeq
  <2> DEFINE seq == NextSeq(k, remote)
             row == NewIntent(Eligible(k), Authority(k))
  <2>3. /\ seq \in 1..MaxSeq /\ row \in Intent
        /\ intents' = [intents EXCEPT ![<<k, seq>>] = row]
        /\ heads' = [heads EXCEPT ![k] = seq]
    BY <1>3, <2>1, <2>2
  <2> HIDE DEF seq, row
  <2>4. intents' \in [Effect -> Intent]
    BY <1>1, <2>3
  <2>5. heads' \in [Key -> 0..MaxSeq]
    BY <1>1, <2>3
  <2> QED
    BY <2>4, <2>5
<1> QED
  BY <1>2, <1>3 DEF PlanRow

LEMMA PlanKeeps ==
  ASSUME IInv, PolicyTypeOK', NEW k \in Key, Plan(k)
  PROVE  TypeOK' /\ SafeInv'
<1>1. UNCHANGED <<sent, effects, membership, late, pc, job, poster, observed, todo,
                  stage, crashes, overruns>>
  BY DEF Plan, receiverVars, workerVars, reconcileVars, budgetVars
<1>2. TypeOK'
  BY <1>1, PlanRowType DEF Plan, IInv, TypeOK, ReceiverTypeOK
<1> QED
  BY <1>1, <1>2, PlanRowKeeps DEF Plan

LEMMA ReconcileKeeps ==
  ASSUME IInv, PolicyTypeOK', Reconcile
  PROVE  TypeOK' /\ SafeInv'
<1>1. /\ UNCHANGED <<sent, effects, membership, late, pc, job, poster, crashes, overruns>>
      /\ UNCHANGED policyVars
  BY DEF Reconcile, ReconcileRead, ReconcileCompare, ReconcilePlan, ReconcileRefused,
         ReconcileDone, ReconcileFrame, receiverVars, workerVars, budgetVars
<1>2. ASSUME NEW k \in Key, ReconcilePlan(k) PROVE TypeOK' /\ SafeInv'
  <2>1. observed[k].seq \in Nat
    BY DEF IInv, TypeOK
  <2>2. TypeOK'
    BY <1>1, <1>2, <2>1, PlanRowType DEF ReconcilePlan, Seen, IInv, TypeOK, ReceiverTypeOK
  <2> QED
    BY <1>1, <1>2, <2>1, <2>2, PlanRowKeeps DEF ReconcilePlan, Seen
<1>3. ASSUME UNCHANGED <<intents, heads>>,
             ReconcileRead \/ ReconcileCompare \/ ReconcileDone
             \/ \E k \in Key : ReconcileRefused(k)
      PROVE  TypeOK' /\ SafeInv'
  <2>1. TypeOK'
    BY <1>1, <1>3 DEF ReconcileRead, ReconcileCompare, ReconcileRefused, ReconcileDone,
                      IInv, TypeOK, ReceiverTypeOK
  <2> QED
    BY <1>1, <1>3, <2>1, QuietKeeps
<1> QED
  BY <1>2, <1>3 DEF Reconcile, ReconcileRead, ReconcileCompare, ReconcileRefused, ReconcileDone

LEMMA PolicyMoves == [Next]_vars => [PolicyNext]_policyVars
<1> SUFFICES ASSUME [Next]_vars PROVE [PolicyNext]_policyVars
  OBVIOUS
<1>1. CASE UNCHANGED vars
  BY <1>1 DEF vars
<1>2. CASE Reconcile
  BY <1>2 DEF Reconcile, ReconcileRead, ReconcileCompare, ReconcilePlan,
              ReconcileRefused, ReconcileDone, ReconcileFrame
<1>3. CASE DeliveryNext
  BY <1>3 DEF DeliveryNext, PolicyStep, Plan, DestinationDrifts, Approve, Lapse,
              DeliverLate, Dispatch, Readback, VerifyRead, LeaseLost, Confirm,
              Inconclusive, Block, Exhaust, Reserve, Send, Acknowledged,
              Unacknowledged, Serve, Crash, Claim, WorkerFrame
<1> QED
  BY <1>1, <1>2, <1>3 DEF Next

LEMMA IInvStep == IInv /\ [Next]_vars => IInv'
<1> SUFFICES ASSUME IInv, [Next]_vars PROVE IInv'
  OBVIOUS
<1>1. PolicyInv'
  BY PolicyMoves, PolicyStepInv DEF IInv
<1>2. PolicyTypeOK'
  BY <1>1 DEF PolicyInv
<1>3. TypeOK' /\ SafeInv'
  <2>1. CASE UNCHANGED vars
    <3>1. TypeOK'
      BY <1>2, <2>1 DEF vars, receiverVars, senderVars, workerVars, reconcileVars,
                        budgetVars, IInv, TypeOK, ReceiverTypeOK
    <3> QED
      BY <2>1, <3>1, QuietKeeps DEF vars, receiverVars, senderVars, workerVars
  <2>2. CASE PolicyStep
    BY <1>2, <2>2, PolicyStepKeeps
  <2>3. ASSUME NEW k \in Key, Plan(k) \/ DestinationDrifts(k) PROVE TypeOK' /\ SafeInv'
    BY <1>2, <2>3, PlanKeeps, DriftKeeps
  <2>4. ASSUME NEW e \in Effect, Approve(e) \/ Lapse(e) \/ DeliverLate(e)
        PROVE  TypeOK' /\ SafeInv'
    BY <1>2, <2>4, ApproveKeeps, LapseKeeps, DeliverLateKeeps
  <2>5. ASSUME NEW w \in Worker, Dispatch(w) \/ Serve(w) \/ Crash(w)
        PROVE  TypeOK' /\ SafeInv'
    BY <1>2, <2>5, MovesKeep, FinishesKeep, ReserveKeeps, SendKeeps, AcknowledgedKeeps,
       UnacknowledgedKeeps, ServeKeeps, CrashKeeps DEF Dispatch
  <2>6. ASSUME NEW w \in Worker, NEW e \in Effect, Claim(w, e) PROVE TypeOK' /\ SafeInv'
    BY <1>2, <2>6, ClaimKeeps
  <2>7. CASE Reconcile
    BY <1>2, <2>7, ReconcileKeeps
  <2> QED
    BY <2>1, <2>2, <2>3, <2>4, <2>5, <2>6, <2>7 DEF Next, DeliveryNext
<1> QED
  BY <1>1, <1>3 DEF IInv

LEMMA IInvHolds == Spec => []IInv
BY InitIInv, IInvStep, PTL DEF Spec

-------------------------------------------------------------------------------
(* What a step does to the outbox and to the receiver.  At most one row changes: *)
(* it is planned or moved, and policy and receiver stand still meanwhile.        *)

Planned(e) ==
  /\ intents[e].state = "none"
  /\ intents'[e] = NewIntent(Eligible(KeyOf(e)), Authority(KeyOf(e)))
  /\ SeqOf(e) > heads[KeyOf(e)]
  /\ heads' = [heads EXCEPT ![KeyOf(e)] = SeqOf(e)]
  /\ \A x \in Effect \ {e} : intents'[x] = intents[x]

\* From one state to another, and what the last ones rest on.
Moved(e) ==
  /\ intents[e].state \in {"pending", "approved", "inflight", "uncertain"}
  /\ intents'[e].state # "none"
  /\ intents'[e].desired = intents[e].desired
  /\ intents'[e].authority = intents[e].authority
  /\ intents'[e].approval # intents[e].approval
       => intents'[e].approval # "none" /\ intents'[e].state = "approved"
  /\ intents'[e].state = "blocked" => ~Authorized(e)
  /\ intents'[e].state = "excepted" =>
       intents'[e].attempts = MaxAttempts \/ intents'[e].checks = MaxChecks
  /\ intents'[e].state = "confirmed" => e \in effects
  /\ heads' = heads
  /\ \A x \in Effect \ {e} : intents'[x] = intents[x]

RowStep == UNCHANGED <<policyVars, effects, membership>> /\ \E e \in Effect : Planned(e) \/ Moved(e)

\* A request that was sent is handled, or the destination drifts.
ReceiverStep ==
  \/ \E e \in Effect :
       /\ late[e] > 0 \/ \E w \in Worker : pc[w] = "posting" /\ job[w] = e
       /\ Handle(e, intents[e].desired)
  \/ \E k \in Key, seq \in DriftSeq : Drift(k, seq)

\* A row that becomes row, which is e's but for what an intent may move through.
LEMMA RowMoved ==
  ASSUME TypeOK, NEW e \in Effect, NEW row \in Intent,
         intents' = [intents EXCEPT ![e] = row], UNCHANGED heads,
         intents[e].state \in {"pending", "approved", "inflight", "uncertain"},
         row.state # "none",
         row.desired = intents[e].desired, row.authority = intents[e].authority,
         row.approval # intents[e].approval => row.approval # "none" /\ row.state = "approved",
         row.state = "blocked" => ~Authorized(e),
         row.state = "excepted" => row.attempts = MaxAttempts \/ row.checks = MaxChecks,
         row.state = "confirmed" => e \in effects
  PROVE  Moved(e)
<1>1. intents \in [Effect -> Intent]
  BY DEF TypeOK
<1>2. intents'[e] = row /\ \A x \in Effect \ {e} : intents'[x] = intents[x]
  BY <1>1
<1> QED
  BY <1>2 DEF Moved

\* Planning leaves both alone or plans one row.
LEMMA PlanRowStep ==
  ASSUME IInv, NEW k \in Key, NEW remote \in Nat, PlanRow(k, remote),
         UNCHANGED <<policyVars, effects, membership>>
  PROVE  UNCHANGED <<intents, heads>> \/ RowStep
<1>1. /\ intents \in [Effect -> Intent] /\ heads \in [Key -> 0..MaxSeq] /\ MaxSeq \in Nat
  BY ReceiverAssumption DEF IInv, TypeOK
<1>2. CASE ~UNCHANGED <<intents, heads>>
  <2> DEFINE seq == NextSeq(k, remote)  e == <<k, seq>>
  <2>1. /\ seq <= MaxSeq
        /\ intents' = [intents EXCEPT ![e] = NewIntent(Eligible(k), Authority(k))]
        /\ heads' = [heads EXCEPT ![k] = seq]
    BY <1>2 DEF PlanRow
  <2>2. heads[k] \in 0..MaxSeq /\ seq \in Nat /\ seq > heads[k]
    BY <1>1 DEF NextSeq
  <2> HIDE DEF seq
  <2>3. e \in Effect /\ KeyOf(e) = k /\ SeqOf(e) = seq
    BY <1>1, <2>1, <2>2 DEF Effect, KeyOf, SeqOf
  <2> HIDE DEF e
  <2>4. intents[e].state = "none"
    BY <2>2, <2>3 DEF IInv, SafeInv, RowsInv
  <2>5. /\ intents'[e] = NewIntent(Eligible(k), Authority(k))
        /\ \A x \in Effect \ {e} : intents'[x] = intents[x]
    BY <1>1, <2>1, <2>3
  <2>6. Planned(e)
    BY <2>1, <2>2, <2>3, <2>4, <2>5 DEF Planned
  <2> QED
    BY <2>3, <2>6 DEF RowStep
<1> QED
  BY <1>2

\* The ways a worker writes its own row.
LEMMA OwnRowStep ==
  ASSUME IInv, NEW w \in Worker,
         \/ Confirm(w) \/ Inconclusive(w) \/ Block(w) \/ Exhaust(w)
         \/ Reserve(w) \/ Unacknowledged(w)
  PROVE  RowStep
<1>1. UNCHANGED <<policyVars, effects, membership, heads>>
  BY DEF Confirm, Inconclusive, Block, Exhaust, Reserve, Unacknowledged, WorkerFrame, receiverVars
<1>2. pc[w] # "idle"
  BY DEF Confirm, Inconclusive, Block, Exhaust, Reserve, Unacknowledged
<1>3. job[w] \in Effect /\ intents[job[w]] \in Intent /\ TypeOK
  BY <1>2, JobIsEffect DEF IInv, SafeInv
<1>4. intents[job[w]].state = "inflight"
  <2>1. CASE Unacknowledged(w)
    <3>1. poster = w
      BY <2>1 DEF Unacknowledged, IInv, SafeInv, WorkersInv, Waiting
    <3> QED
      BY <1>3, <3>1 DEF IInv, SafeInv, PostingInv
  <2> QED
    BY <2>1 DEF Confirm, Inconclusive, Block, Exhaust, Reserve, Holds
<1>5. \A e \in Effect : intents[e].checks \in 0..MaxChecks /\ intents[e].attempts \in 0..MaxAttempts
  BY DEF IInv, TypeOK, Intent
<1> DEFINE old == intents[job[w]]
<1>6. CASE Confirm(w)
  <2> DEFINE row == [old EXCEPT !.state = "confirmed", !.lease = NoWorker, !.lapsed = FALSE]
  <2>1. /\ row \in Intent /\ row.state = "confirmed"
        /\ row.desired = old.desired /\ row.authority = old.authority
        /\ row.approval = old.approval
    BY <1>3 DEF Intent, States
  <2>2. intents' = [intents EXCEPT ![job[w]] = row]
    BY <1>3, <1>6 DEF Confirm, Release
  <2>3. job[w] \in effects
    BY <1>6 DEF Confirm, IInv, SafeInv, WorkersInv
  <2> HIDE DEF row
  <2>9. Moved(job[w])
    BY <1>1, <1>3, <1>4, <2>1, <2>2, <2>3, RowMoved
  <2> QED
    BY <1>1, <1>3, <2>9 DEF RowStep
<1>7. CASE Inconclusive(w)
  <2> DEFINE checks == old.checks + 1
             next == IF checks >= MaxChecks THEN "excepted" ELSE "uncertain"
             row == [old EXCEPT !.checks = checks, !.state = next,
                                !.lease = NoWorker, !.lapsed = FALSE]
  <2>1. checks \in 0..MaxChecks
    BY <1>3, <1>4, ActivationAssumption DEF IInv, SafeInv, RowsInv, Intent
  <2>2. next \in {"excepted", "uncertain"} /\ (next = "excepted" => checks = MaxChecks)
    BY <2>1, ActivationAssumption
  <2> HIDE DEF checks, next
  <2>3. /\ row \in Intent /\ row.state = next /\ row.checks = checks
        /\ row.desired = old.desired /\ row.authority = old.authority
        /\ row.approval = old.approval
    BY <1>3, <2>1, <2>2 DEF Intent, States
  <2>4. intents' = [intents EXCEPT ![job[w]] = row]
    BY <1>3, <1>7 DEF Inconclusive, LastCheck, checks, next
  <2> HIDE DEF row
  <2>9. Moved(job[w])
    BY <1>1, <1>3, <1>4, <2>2, <2>3, <2>4, RowMoved
  <2> QED
    BY <1>1, <1>3, <2>9 DEF RowStep
<1>8. CASE Block(w)
  <2> DEFINE row == [old EXCEPT !.state = "blocked", !.lease = NoWorker, !.lapsed = FALSE]
  <2>1. /\ row \in Intent /\ row.state = "blocked"
        /\ row.desired = old.desired /\ row.authority = old.authority
        /\ row.approval = old.approval
    BY <1>3 DEF Intent, States
  <2>2. intents' = [intents EXCEPT ![job[w]] = row] /\ ~Authorized(job[w])
    BY <1>3, <1>8 DEF Block, Release
  <2> HIDE DEF row
  <2>9. Moved(job[w])
    BY <1>1, <1>3, <1>4, <2>1, <2>2, RowMoved
  <2> QED
    BY <1>1, <1>3, <2>9 DEF RowStep
<1>9. CASE Exhaust(w)
  <2> DEFINE row == [old EXCEPT !.state = "excepted"]
  <2>1. /\ row \in Intent /\ row.state = "excepted"
        /\ row.desired = old.desired /\ row.authority = old.authority
        /\ row.approval = old.approval
        /\ row.attempts = old.attempts
    BY <1>3 DEF Intent, States
  <2>2. intents' = [intents EXCEPT ![job[w]] = row]
    BY <1>3, <1>9 DEF Exhaust
  <2>3. old.attempts = MaxAttempts
    BY <1>3, <1>5, <1>9, ActivationAssumption DEF Exhaust
  <2> HIDE DEF row
  <2>9. Moved(job[w])
    BY <1>1, <1>3, <1>4, <2>1, <2>2, <2>3, RowMoved
  <2> QED
    BY <1>1, <1>3, <2>9 DEF RowStep
<1>10. CASE Reserve(w)
  <2> DEFINE row == [old EXCEPT !.attempts = @ + 1]
  <2>1. old.attempts + 1 \in 0..MaxAttempts
    BY <1>3, <1>5, <1>10, ActivationAssumption DEF Reserve
  <2>2. /\ row \in Intent /\ row.state = "inflight"
        /\ row.desired = old.desired /\ row.authority = old.authority
        /\ row.approval = old.approval
    BY <1>3, <1>4, <2>1 DEF Intent, States
  <2>3. intents' = [intents EXCEPT ![job[w]] = row]
    BY <1>3, <1>10 DEF Reserve, Counted
  <2> HIDE DEF row
  <2>9. Moved(job[w])
    BY <1>1, <1>3, <1>4, <2>2, <2>3, RowMoved
  <2> QED
    BY <1>1, <1>3, <2>9 DEF RowStep
<1>11. CASE Unacknowledged(w)
  <2> DEFINE row == [old EXCEPT !.state = "uncertain", !.lease = NoWorker, !.lapsed = FALSE]
  <2>1. /\ row \in Intent /\ row.state = "uncertain"
        /\ row.desired = old.desired /\ row.authority = old.authority
        /\ row.approval = old.approval
    BY <1>3 DEF Intent, States
  <2>2. intents' = [intents EXCEPT ![job[w]] = row]
    BY <1>3, <1>11 DEF Unacknowledged, Release
  <2> HIDE DEF row
  <2>9. Moved(job[w])
    BY <1>1, <1>3, <1>4, <2>1, <2>2, RowMoved
  <2> QED
    BY <1>1, <1>3, <2>9 DEF RowStep
<1> QED
  BY <1>6, <1>7, <1>8, <1>9, <1>10, <1>11

\* Whoever else writes a row.
LEMMA OtherRowStep ==
  ASSUME IInv, NEW e \in Effect, Approve(e) \/ Lapse(e) \/ \E w \in Worker : Claim(w, e)
  PROVE  RowStep
<1>1. UNCHANGED <<policyVars, effects, membership, heads>>
  BY DEF Approve, Lapse, Claim, WorkerFrame, receiverVars
<1>2. intents[e] \in Intent /\ TypeOK /\ intents \in [Effect -> Intent]
  BY DEF IInv, TypeOK
<1>3. CASE Approve(e)
  <2> DEFINE row == [intents[e] EXCEPT !.approval = "reviewed", !.state = "approved"]
  <2>1. /\ row \in Intent /\ row.state = "approved" /\ row.approval = "reviewed"
        /\ row.desired = intents[e].desired /\ row.authority = intents[e].authority
    BY <1>2 DEF Intent, States, Approvals
  <2>2. intents' = [intents EXCEPT ![e] = row] /\ intents[e].state \in {"pending", "approved"}
    BY <1>2, <1>3 DEF Approve
  <2> HIDE DEF row
  <2>9. Moved(e)
    BY <1>1, <1>2, <2>1, <2>2, RowMoved
  <2> QED
    BY <1>1, <1>2, <2>9 DEF RowStep
<1>4. CASE Lapse(e)
  <2> DEFINE row == [intents[e] EXCEPT !.lapsed = TRUE]
  <2>1. /\ row \in Intent /\ row.state = "inflight"
        /\ row.desired = intents[e].desired /\ row.authority = intents[e].authority
        /\ row.approval = intents[e].approval
    BY <1>2, <1>4 DEF Lapse, Intent, States
  <2>2. intents' = [intents EXCEPT ![e] = row] /\ intents[e].state = "inflight"
    BY <1>2, <1>4 DEF Lapse
  <2> HIDE DEF row
  <2>9. Moved(e)
    BY <1>1, <1>2, <2>1, <2>2, RowMoved
  <2> QED
    BY <1>1, <1>2, <2>9 DEF RowStep
<1>5. ASSUME NEW w \in Worker, Claim(w, e)  PROVE RowStep
  <2> DEFINE row == [intents[e] EXCEPT !.state = "inflight", !.lease = w, !.lapsed = FALSE]
  <2>1. /\ row \in Intent /\ row.state = "inflight"
        /\ row.desired = intents[e].desired /\ row.authority = intents[e].authority
        /\ row.approval = intents[e].approval
    BY <1>2 DEF Intent, States
  <2>2. intents' = [intents EXCEPT ![e] = row]
        /\ intents[e].state \in {"approved", "uncertain", "inflight"}
    BY <1>2, <1>5 DEF Claim, Claimable, Ready, LeaseOver
  <2> HIDE DEF row
  <2>9. Moved(e)
    BY <1>1, <1>2, <2>1, <2>2, RowMoved
  <2> QED
    BY <1>1, <1>2, <2>9 DEF RowStep
<1> QED
  BY <1>3, <1>4, <1>5

LEMMA Steps ==
  ASSUME IInv, [Next]_vars
  PROVE  \/ UNCHANGED <<intents, heads, effects, membership>>
         \/ UNCHANGED <<policyVars, intents, heads>> /\ ReceiverStep
         \/ RowStep
<1>1. ASSUME NEW k \in Key, Plan(k) \/ ReconcilePlan(k)
      PROVE  UNCHANGED <<intents, heads, effects, membership>> \/ RowStep
  <2>1. UNCHANGED <<policyVars, effects, membership>>
    BY <1>1 DEF Plan, ReconcilePlan, ReconcileFrame, receiverVars
  <2>2. PICK remote \in Nat : PlanRow(k, remote)
    BY <1>1 DEF Plan, ReconcilePlan, Seen, IInv, TypeOK
  <2> QED
    BY <2>1, <2>2, PlanRowStep
<1>2. ASSUME NEW e \in Effect, DeliverLate(e)
      PROVE  UNCHANGED <<policyVars, intents, heads>> /\ ReceiverStep
  BY <1>2 DEF DeliverLate, senderVars, ReceiverStep
<1>3. ASSUME NEW k \in Key, DestinationDrifts(k)
      PROVE  UNCHANGED <<policyVars, intents, heads>> /\ ReceiverStep
  BY <1>3 DEF DestinationDrifts, senderVars, ReceiverStep
<1>4. ASSUME NEW w \in Worker, Serve(w)
      PROVE  \/ UNCHANGED <<intents, heads, effects, membership>>
             \/ UNCHANGED <<policyVars, intents, heads>> /\ ReceiverStep
  <2>1. job[w] \in Effect
    BY <1>4, JobIsEffect DEF Serve, IInv, SafeInv
  <2> QED
    BY <1>4, <2>1 DEF Serve, WorkerFrame, ReceiverStep
<1>5. ASSUME NEW w \in Worker, Dispatch(w) \/ Crash(w)
      PROVE  UNCHANGED <<intents, heads, effects, membership>> \/ RowStep
  BY <1>5, OwnRowStep
     DEF Dispatch, Readback, VerifyRead, LeaseLost, Send, Acknowledged, Crash, WorkerFrame,
         receiverVars, senderVars
<1>6. ASSUME NEW e \in Effect, Approve(e) \/ Lapse(e) \/ \E w \in Worker : Claim(w, e)
      PROVE  RowStep
  BY <1>6, OtherRowStep
<1>7. ASSUME UNCHANGED vars \/ PolicyStep \/ ReconcileRead \/ ReconcileCompare \/ ReconcileDone
             \/ \E k \in Key : ReconcileRefused(k)
      PROVE  UNCHANGED <<intents, heads, effects, membership>>
  BY <1>7 DEF vars, PolicyStep, ReconcileRead, ReconcileCompare, ReconcileDone,
              ReconcileRefused, ReconcileFrame, receiverVars, senderVars
<1> QED
  BY <1>1, <1>2, <1>3, <1>4, <1>5, <1>6, <1>7 DEF Next, DeliveryNext, Reconcile

-------------------------------------------------------------------------------
(* Theorems *)

\* Every variable keeps its shape, for any number of workers, keys and intents.
THEOREM TypeCorrect == Spec => []TypeOK
<1>1. IInv => TypeOK
  BY DEF IInv
<1> QED
  BY <1>1, IInvHolds, PTL

\* No interleaving of crashes, lapsed leases and takeovers posts an intent more
\* often than it reserved, nor more often than the bound (activation.py:108-116).
THEOREM BudgetKept == Spec => []PostBudget
<1>1. IInv => PostBudget
  BY DEF IInv, SafeInv
<1> QED
  BY <1>1, IInvHolds, PTL

\* The authority rechecked before the request left holds as long as the sender
\* waits for its answer, and nobody takes the row (activation.py:116-132).
THEOREM AuthorityHeldWhilePosting == Spec => []PostingIsAuthorized
<1>1. ASSUME IInv PROVE PostingIsAuthorized
  <2> SUFFICES ASSUME poster # NoWorker PROVE Authorized(job[poster]) /\ Holds(poster)
    BY DEF PostingIsAuthorized
  <2>1. poster \in Worker /\ pc[poster] # "idle"
    BY <1>1 DEF IInv, SafeInv, TypeOK, WorkersInv, Waiting
  <2>2. job[poster] \in Effect
    BY <1>1, <2>1, JobIsEffect DEF IInv, SafeInv
  <2> QED
    BY <1>1, <2>1, <2>2 DEF IInv, SafeInv, PostingInv, Holds
<1> QED
  BY <1>1, IInvHolds, PTL

\* A confirmation is true of the receiver (activation.py:162-170).
THEOREM ConfirmationsAreTrue == Spec => []ConfirmedIsCommitted
<1>1. IInv => ConfirmedIsCommitted
  BY DEF IInv, SafeInv
<1> QED
  BY <1>1, IInvHolds, PTL

\* Nothing reaches the receiver that was not posted under an approval of its own
\* (activation.py:63-69, 100-102).
THEOREM DeliveriesWereApproved == Spec => []CommittedWasApproved
<1>1. ASSUME IInv PROVE CommittedWasApproved
  BY <1>1 DEF IInv, SafeInv, TypeOK, ReceiverTypeOK, DeliveryInv, CommittedWasApproved,
              ApprovedAsRequired, SameBinding
<1> QED
  BY <1>1, IInvHolds, PTL

\* The receiver's row of a key is never behind an effect it committed, whatever
\* order requests arrive in (receiver.py:99-111).
THEOREM RowIsNewest == Spec => []MembershipIsNewest
<1>1. IInv => MembershipIsNewest
  BY DEF IInv, SafeInv
<1> QED
  BY <1>1, IInvHolds, PTL

\* An intent that was confirmed, blocked or excepted is never reopened
\* (activation.py:63, 79, 96, 153, 165).
THEOREM SettledStaysSettled == Spec => SettledIsFinal
<1> DEFINE Final(e) == intents[e].state \in Terminal => intents'[e].state = intents[e].state
<1>1. ASSUME IInv, [Next]_vars, NEW e \in Effect PROVE Final(e)
  <2>1. ASSUME NEW x \in Effect, Planned(x) \/ Moved(x) PROVE Final(e)
    <3>1. CASE e = x
      BY <2>1, <3>1 DEF Planned, Moved, Terminal
    <3>2. CASE e # x
      BY <2>1, <3>2 DEF Planned, Moved
    <3> QED
      BY <3>1, <3>2
  <2> QED
    BY <1>1, <2>1, Steps DEF RowStep
<1>2. IInv /\ [Next]_vars
      => [\A e \in Effect : intents[e].state \in Terminal
                            => intents'[e].state = intents[e].state]_vars
  BY <1>1
<1> QED
  BY <1>2, InitIInv, IInvStep, PTL DEF Spec, SettledIsFinal

\* A membership row is only ever replaced by one of a newer sequence: late and
\* repeated requests cannot bring an older decision back (receiver.py:102).
THEOREM MembershipNeverGoesBack == Spec => MembershipMovesForward
<1> DEFINE Forth(k) == membership'[k] # membership[k] => membership'[k].seq > membership[k].seq
<1>1. ASSUME IInv, [Next]_vars, NEW k \in Key PROVE Forth(k)
  <2>0. membership \in [Key -> [seq: Nat, active: BOOLEAN]]
    BY <1>1 DEF IInv, TypeOK, ReceiverTypeOK
  <2>1. ASSUME NEW e \in Effect, Handle(e, intents[e].desired) PROVE Forth(k)
    <3>1. KeyOf(e) \in Key
      BY EffectParts
    <3> QED
      BY <2>0, <2>1, <3>1 DEF Handle, Fresh
  <2>2. ASSUME NEW q \in Key, NEW seq \in DriftSeq, Drift(q, seq) PROVE Forth(k)
    <3>1. seq \in Nat /\ seq > 0
      BY ReceiverAssumption
    <3> QED
      BY <2>0, <2>2, <3>1 DEF Drift
  <2> QED
    BY <1>1, <2>1, <2>2, Steps DEF RowStep, ReceiverStep
<1>2. IInv /\ [Next]_vars
      => [\A k \in Key : membership'[k] # membership[k]
                          => membership'[k].seq > membership[k].seq]_receiverVars
  BY <1>1
<1> QED
  BY <1>2, InitIInv, IInvStep, PTL DEF Spec, MembershipMovesForward

-------------------------------------------------------------------------------
(* What a row's authority tells of the policy. *)

Upto(a, b) == a = b \/ AuthorityPrecedes(a, b)

LEMMA PrecedenceIsStrict ==
  ASSUME NEW a \in Bound, NEW b \in Bound, NEW c \in Bound
  PROVE  /\ AuthorityPrecedes(a, b) => a # b
         /\ AuthorityPrecedes(a, b) /\ Upto(b, c) => AuthorityPrecedes(a, c)
         /\ Upto(a, b) /\ Upto(b, c) => Upto(a, c)
BY DEF Bound, AuthorityPrecedes, Upto

\* What a key's head, an intent's authority and a settled intent owe to each other:
\* an intent is never ahead of the policy, a blocked head is strictly behind it.
BindingInv ==
  /\ \A k \in Key : heads[k] # 0 => intents[<<k, heads[k]>>].state # "none"
  /\ \A e \in Effect :
       /\ intents[e].state # "none" => Upto(intents[e].authority, Authority(KeyOf(e)))
       /\ intents[e].state = "blocked" /\ IsHead(e)
            => AuthorityPrecedes(intents[e].authority, Authority(KeyOf(e)))
       /\ intents[e].state = "excepted"
            => intents[e].attempts = MaxAttempts \/ intents[e].checks = MaxChecks

LEMMA AuthorityNow == PolicyInv => \A k \in Key : Authority(k) \in Bound
BY AuthorityType DEF PolicyInv, Bound

LEMMA AuthorityNext == PolicyInv' => \A k \in Key : Authority(k)' \in Bound
<1>1. PolicyInv' => (\A k \in Key : Authority(k) \in Bound)'
  BY AuthorityNow, PTL
<1> QED
  BY <1>1

LEMMA InitBinding == Init => BindingInv
<1> SUFFICES ASSUME Init PROVE BindingInv
  OBVIOUS
<1>1. \A e \in Effect : intents[e].state = "none"
  BY NoIntentParts DEF Init
<1>2. \A k \in Key : heads[k] = 0
  BY DEF Init
<1> QED
  BY <1>1, <1>2 DEF BindingInv

LEMMA BindingStep == IInv /\ BindingInv /\ [Next]_vars => BindingInv'
<1> SUFFICES ASSUME IInv, BindingInv, [Next]_vars PROVE BindingInv'
  OBVIOUS
<1>1. IInv' /\ TypeOK /\ intents \in [Effect -> Intent] /\ heads \in [Key -> 0..MaxSeq]
      /\ MaxSeq \in Nat
  BY IInvStep, ReceiverAssumption DEF IInv, TypeOK
<1>2. \A e \in Effect : /\ KeyOf(e) \in Key /\ e = <<KeyOf(e), SeqOf(e)>>
                        /\ SeqOf(e) \in 1..MaxSeq
  BY EffectParts
<1>3. \A k \in Key : Forward(k) /\ Authority(k) \in Bound /\ Authority(k)' \in Bound
  <2>1. \A k \in Key : Forward(k)
    BY PolicyMoves, StepMovesForward DEF IInv
  <2> QED
    BY <1>1, <2>1, AuthorityNow, AuthorityNext DEF IInv
<1>4. \A k \in Key : heads[k] # 0 => <<k, heads[k]>> \in Effect
  BY <1>1 DEF Effect
<1>5. \A e \in Effect : intents[e].authority \in Bound
  BY <1>1 DEF Intent
<1>6. CASE UNCHANGED <<intents, heads>>
  <2>1. \A k \in Key : heads'[k] # 0 => intents'[<<k, heads'[k]>>].state # "none"
    BY <1>6 DEF BindingInv
  <2>2. ASSUME NEW e \in Effect
        PROVE  /\ intents'[e].state # "none"
                    => Upto(intents'[e].authority, Authority(KeyOf(e))')
               /\ intents'[e].state = "blocked" /\ IsHead(e)'
                    => AuthorityPrecedes(intents'[e].authority, Authority(KeyOf(e))')
    <3>1. Upto(Authority(KeyOf(e)), Authority(KeyOf(e))')
      BY <1>2, <1>3 DEF Forward, Upto
    <3>2. IsHead(e)' = IsHead(e)
      BY <1>6 DEF IsHead
    <3> QED
      BY <1>2, <1>3, <1>5, <1>6, <3>1, <3>2, PrecedenceIsStrict DEF BindingInv
  <2> QED
    BY <1>6, <2>1, <2>2 DEF BindingInv, Upto
<1>7. CASE RowStep
  <2>1. \A k \in Key : Authority(k)' = Authority(k)
    BY <1>7, StutterKeepsAuthority DEF RowStep
  <2>2. ASSUME NEW e \in Effect, Planned(e) PROVE BindingInv'
    <3> DEFINE k == KeyOf(e)
    <3>1. k \in Key /\ Authority(k) \in Bound /\ Eligible(k) \in BOOLEAN
          /\ e = <<k, SeqOf(e)>> /\ SeqOf(e) > heads[k]
      BY <1>2, <1>3, <2>2 DEF Planned, Eligible
    <3>2. /\ intents'[e].state \in {"pending", "approved"}
          /\ intents'[e].authority = Authority(k)
      BY <2>2, <3>1, NewIntentParts DEF Planned
    <3>3. \A q \in Key : heads'[q] = IF q = k THEN SeqOf(e) ELSE heads[q]
      BY <1>1, <2>2, <3>1 DEF Planned
    <3>4. \A q \in Key : heads'[q] # 0 => intents'[<<q, heads'[q]>>].state # "none"
      <4>1. ASSUME NEW q \in Key, q # k, heads'[q] # 0
            PROVE  intents'[<<q, heads'[q]>>].state # "none"
        <5>1. heads'[q] = heads[q] /\ <<q, heads[q]>> \in Effect \ {e}
          BY <1>4, <3>1, <3>3, <4>1
        <5> QED
          BY <2>2, <4>1, <5>1 DEF Planned, BindingInv
      <4> QED
        BY <3>1, <3>2, <3>3, <4>1
    <3>5. ASSUME NEW x \in Effect
          PROVE  /\ intents'[x].state # "none"
                      => Upto(intents'[x].authority, Authority(KeyOf(x)))
                 /\ intents'[x].state = "blocked" /\ IsHead(x)'
                      => AuthorityPrecedes(intents'[x].authority, Authority(KeyOf(x)))
                 /\ intents'[x].state = "excepted"
                      => intents'[x].attempts = MaxAttempts \/ intents'[x].checks = MaxChecks
      <4>1. CASE x = e
        BY <3>2, <4>1 DEF Upto
      <4>2. CASE x # e
        <5>1. intents'[x] = intents[x]
          BY <2>2, <4>2 DEF Planned
        <5>2. IsHead(x)' => IsHead(x)
          BY <1>2, <3>1, <3>3, <4>2 DEF IsHead
        <5> QED
          BY <5>1, <5>2 DEF BindingInv
      <4> QED
        BY <4>1, <4>2
    <3> QED
      BY <1>2, <2>1, <3>4, <3>5 DEF BindingInv
  <2>3. ASSUME NEW e \in Effect, Moved(e) PROVE BindingInv'
    <3>1. \A x \in Effect \ {e} : intents'[x] = intents[x]
      BY <2>3 DEF Moved
    <3>2. heads' = heads /\ \A x \in Effect : IsHead(x)' = IsHead(x)
      BY <2>3 DEF Moved, IsHead
    <3>3. /\ intents[e].state # "none" /\ intents'[e].state # "none"
          /\ intents'[e].authority = intents[e].authority
      BY <2>3 DEF Moved
    <3>4. \A k \in Key : heads'[k] # 0 => intents'[<<k, heads'[k]>>].state # "none"
      BY <1>4, <3>1, <3>2, <3>3 DEF BindingInv
    <3>5. intents'[e].state = "blocked" /\ IsHead(e)
          => AuthorityPrecedes(intents[e].authority, Authority(KeyOf(e)))
      <4> SUFFICES ASSUME intents'[e].state = "blocked", IsHead(e)
                   PROVE  AuthorityPrecedes(intents[e].authority, Authority(KeyOf(e)))
        OBVIOUS
      <4>1. ~Authorized(e) /\ intents'[e].approval = intents[e].approval
        BY <2>3 DEF Moved
      <4>2. /\ intents[e].desired = (intents[e].authority.reason = "eligible")
            /\ intents'[e].approval # "none"
        BY <1>1, <2>3, <3>3 DEF IInv, SafeInv, RowsInv, ApprovedAsRequired
      <4>3. Upto(intents[e].authority, Authority(KeyOf(e)))
        BY <3>3 DEF BindingInv
      <4>4. Authority(KeyOf(e)).reason = Reason(KeyOf(e))
        BY DEF Authority
      <4>5. CASE intents[e].authority = Authority(KeyOf(e))
        <5>1. intents[e].desired <=> Eligible(KeyOf(e))
          BY <4>2, <4>4, <4>5 DEF Eligible
        <5> QED
          BY <4>1, <4>2, <4>5, <5>1 DEF Authorized
      <4> QED
        BY <4>3, <4>5 DEF Upto
    <3>6. ASSUME NEW x \in Effect
          PROVE  /\ intents'[x].state # "none"
                      => Upto(intents'[x].authority, Authority(KeyOf(x)))
                 /\ intents'[x].state = "blocked" /\ IsHead(x)'
                      => AuthorityPrecedes(intents'[x].authority, Authority(KeyOf(x)))
                 /\ intents'[x].state = "excepted"
                      => intents'[x].attempts = MaxAttempts \/ intents'[x].checks = MaxChecks
      <4>1. CASE x = e
        BY <2>3, <3>2, <3>3, <3>5, <4>1 DEF BindingInv, Moved
      <4>2. CASE x # e
        BY <3>1, <3>2, <4>2 DEF BindingInv
      <4> QED
        BY <4>1, <4>2
    <3> QED
      BY <1>2, <2>1, <3>4, <3>6 DEF BindingInv
  <2> QED
    BY <1>7, <2>2, <2>3 DEF RowStep
<1> QED
  BY <1>6, <1>7, Steps

LEMMA BindingHolds == Spec => [](IInv /\ BindingInv)
<1>1. Init => IInv /\ BindingInv
  BY InitIInv, InitBinding
<1>2. IInv /\ BindingInv /\ [Next]_vars => (IInv /\ BindingInv)'
  BY IInvStep, BindingStep
<1> QED
  BY <1>1, <1>2, PTL DEF Spec

\* An intent that was blocked is not what plan returns, now or ever after
\* (activation.py:43-44, 104-106).
THEOREM BlockedStaysObsolete == Spec => []BlockedIsObsolete
<1>1. ASSUME IInv, BindingInv PROVE BlockedIsObsolete
  <2> SUFFICES ASSUME NEW k \in Key, heads[k] > 0,
                      intents[<<k, heads[k]>>].state = "blocked", Reuses(k, 0)
               PROVE  FALSE
    BY DEF BlockedIsObsolete
  <2> DEFINE e == <<k, heads[k]>>
  <2>1. e \in Effect /\ KeyOf(e) = k /\ IsHead(e)
    BY <1>1 DEF IInv, TypeOK, Effect, KeyOf, SeqOf, IsHead
  <2>2. Authority(k) \in Bound
    BY <1>1, AuthorityType DEF IInv, PolicyInv, Bound
  <2>3. AuthorityPrecedes(intents[e].authority, Authority(k)) /\ intents[e].authority = Authority(k)
    BY <1>1, <2>1 DEF BindingInv, Reuses
  <2> QED
    BY <2>2, <2>3, PrecedenceIsStrict
<1> QED
  BY <1>1, BindingHolds, PTL

\* What reconciliation plans where destination and policy disagree can still be
\* delivered, or is a listed exception with its budget used up
\* (activation.py:43-45, 191-196).
THEOREM RepairCanBeDelivered == Spec => []RepairIsActionable
<1>1. ASSUME IInv, BindingInv PROVE RepairIsActionable
  <2> SUFFICES ASSUME NEW k \in Key, Eligible(k) # membership[k].active,
                      Reuses(k, membership[k].seq)
               PROVE  \/ intents[<<k, heads[k]>>].state
                            \in {"pending", "approved", "inflight", "uncertain"}
                      \/ /\ intents[<<k, heads[k]>>].state = "excepted"
                         /\ \/ intents[<<k, heads[k]>>].attempts = MaxAttempts
                            \/ intents[<<k, heads[k]>>].checks = MaxChecks
    BY DEF RepairIsActionable
  <2> DEFINE e == <<k, heads[k]>>
  <2>1. heads[k] \in 0..MaxSeq /\ membership[k].seq \in Nat /\ heads[k] > membership[k].seq
    BY <1>1 DEF IInv, TypeOK, ReceiverTypeOK, Reuses
  <2>2. e \in Effect /\ KeyOf(e) = k /\ SeqOf(e) = heads[k] /\ IsHead(e)
    BY <2>1, ReceiverAssumption DEF Effect, KeyOf, SeqOf, IsHead
  <2>3. Authority(k) \in Bound /\ intents[e].authority = Authority(k)
    BY <1>1, AuthorityType DEF IInv, PolicyInv, Bound, Reuses
  <2>4. intents[e].state # "none"
    BY <1>1, <2>1 DEF BindingInv
  <2>5. intents[e].state # "blocked"
    BY <1>1, <2>2, <2>3, PrecedenceIsStrict DEF BindingInv
  <2>6. intents[e].state # "confirmed"
    BY <1>1, <2>1, <2>2 DEF IInv, SafeInv, ConfirmedIsCommitted, MembershipIsNewest
  <2>7. intents[e].state = "excepted"
        => intents[e].attempts = MaxAttempts \/ intents[e].checks = MaxChecks
    BY <1>1, <2>2 DEF BindingInv
  <2>8. intents[e].state \in States
    BY <1>1, <2>2 DEF IInv, TypeOK, Intent
  <2> QED
    BY <2>4, <2>5, <2>6, <2>7, <2>8 DEF States
<1> QED
  BY <1>1, BindingHolds, PTL

-------------------------------------------------------------------------------
(* The refinement of Orders, one lemma per kind of step. *)

\* The promise's variables, as KeepsThePromise maps them.
Asked == [e \in Effect |-> IF intents[e].state = "none" THEN "none"
                           ELSE IF intents[e].desired THEN "add" ELSE "remove"]
Cleared == {e \in Effect : intents[e].state # "none" /\ intents[e].approval # "none"}
Reported == {e \in Effect : intents[e].state = "confirmed"}

LEMMA PromiseInit == Init => Promise!Init
<1> SUFFICES ASSUME Init PROVE Promise!Init
  OBVIOUS
<1>1. \A e \in Effect : intents[e].state = "none"
  BY NoIntentParts DEF Init
<1>2. Asked = [e \in Effect |-> "none"] /\ Cleared = {} /\ Reported = {}
  BY <1>1 DEF Asked, Cleared, Reported
<1>3. effects = {} /\ membership = [k \in Key |-> [seq |-> 0, active |-> FALSE]]
  BY DEF Init, ReceiverInit, NoMember
<1> QED
  BY <1>2, <1>3 DEF Promise!Init, Promise!Order, Asked, Cleared, Reported, Effect

\* What was planned is a new order of its key, and a removal is cleared with it.
LEMMA PlannedIsPlaced ==
  ASSUME IInv, NEW e \in Effect, Planned(e), UNCHANGED <<effects, membership>>
  PROVE  \E what \in {"add", "remove"} : Promise!Place(e, what)
<1>1. /\ KeyOf(e) \in Key /\ Eligible(KeyOf(e)) \in BOOLEAN
      /\ Authority(KeyOf(e)) \in Bound /\ intents \in [Effect -> Intent]
      /\ heads \in [Key -> 0..MaxSeq]
  BY EffectParts, AuthorityNow DEF IInv, TypeOK, Eligible
<1>2. /\ intents'[e].state \in {"pending", "approved"}
      /\ intents'[e].desired = Eligible(KeyOf(e))
      /\ intents'[e].approval = IF Eligible(KeyOf(e)) THEN "none" ELSE "protective"
  BY <1>1, NewIntentParts DEF Planned
<1>3. intents[e].state = "none" /\ \A x \in Effect \ {e} : intents'[x] = intents[x]
  BY DEF Planned
<1>4. PICK order \in {"add", "remove"} : order = IF Eligible(KeyOf(e)) THEN "add" ELSE "remove"
  OBVIOUS
<1>5. ASSUME NEW p \in Effect, p[1] = e[1], Asked[p] # "none" PROVE p[2] < e[2]
  <2>1. KeyOf(p) = KeyOf(e) /\ intents[p].state # "none"
    BY <1>5 DEF Asked, KeyOf
  <2>2. ~(SeqOf(p) > heads[KeyOf(e)]) /\ SeqOf(e) > heads[KeyOf(e)]
    BY <2>1 DEF IInv, SafeInv, RowsInv, Planned
  <2>3. SeqOf(p) \in 1..MaxSeq /\ SeqOf(e) \in 1..MaxSeq /\ heads[KeyOf(e)] \in 0..MaxSeq
        /\ MaxSeq \in Nat
    BY <1>1, EffectParts, ReceiverAssumption
  <2> QED
    BY <2>2, <2>3 DEF SeqOf
<1>6. Asked' = [Asked EXCEPT ![e] = order]
  BY <1>2, <1>3, <1>4 DEF Asked
<1>7. Cleared' = IF order = "remove" THEN Cleared \union {e} ELSE Cleared
  BY <1>2, <1>3, <1>4 DEF Cleared
<1>8. Reported' = Reported
  BY <1>2, <1>3 DEF Reported
<1>9. \A p \in Effect : p[1] = e[1] /\ Asked[p] # "none" => p[2] < e[2]
  BY <1>5
<1>10. Promise!Place(e, order)
  BY <1>6, <1>7, <1>8, <1>9 DEF Promise!Place, Promise!Order, Asked, Cleared, Reported, Effect
<1> QED
  BY <1>10

\* A row that moves clears or reports its order, or is none of the promise's business.
LEMMA MovedIsPromised ==
  ASSUME IInv, NEW e \in Effect, Moved(e), UNCHANGED <<effects, membership>>
  PROVE  Promise!Clear(e) \/ Promise!Report(e) \/ UNCHANGED Promise!vars
<1>1. /\ intents[e].state \notin {"none", "confirmed"} /\ intents'[e].state # "none"
      /\ intents'[e].desired = intents[e].desired
      /\ \A x \in Effect \ {e} : intents'[x] = intents[x]
  BY DEF Moved
<1>2. Asked' = Asked
  BY <1>1 DEF Asked
<1>3. CASE intents'[e].state = "confirmed"
  <2>1. intents'[e].approval = intents[e].approval /\ e \in effects
    BY <1>3 DEF Moved
  <2>2. Cleared' = Cleared /\ Reported' = Reported \union {e}
    BY <1>1, <1>3, <2>1 DEF Cleared, Reported
  <2> QED
    BY <1>2, <2>1, <2>2 DEF Promise!Report, Asked, Cleared, Reported
<1>4. CASE intents'[e].approval # intents[e].approval
  <2>1. intents'[e].approval # "none" /\ intents'[e].state = "approved"
    BY <1>4 DEF Moved
  <2>2. Cleared' = Cleared \union {e} /\ Reported' = Reported
    BY <1>1, <2>1 DEF Cleared, Reported
  <2>3. Asked[e] # "none"
    BY <1>1 DEF Asked
  <2> QED
    BY <1>2, <2>2, <2>3 DEF Promise!Clear, Asked, Cleared, Reported
<1>5. CASE intents'[e].state # "confirmed" /\ intents'[e].approval = intents[e].approval
  <2>1. Cleared' = Cleared /\ Reported' = Reported
    BY <1>1, <1>5 DEF Cleared, Reported
  <2> QED
    BY <1>2, <2>1 DEF Promise!vars, Asked, Cleared, Reported
<1> QED
  BY <1>3, <1>4, <1>5

\* What the receiver commits was cleared, and is not behind what it shows.
LEMMA ReceiverIsPromised ==
  ASSUME IInv, UNCHANGED intents, ReceiverStep
  PROVE  Promise!Next \/ UNCHANGED Promise!vars
<1>1. Asked' = Asked /\ Cleared' = Cleared /\ Reported' = Reported
  BY DEF Asked, Cleared, Reported
<1>2. ASSUME NEW e \in Effect,
             late[e] > 0 \/ \E w \in Worker : pc[w] = "posting" /\ job[w] = e,
             Handle(e, intents[e].desired)
      PROVE  Promise!Next \/ UNCHANGED Promise!vars
  <2>1. intents[e] \in Intent /\ sent[e] \in Nat /\ intents[e].attempts \in Nat
        /\ sent[e] <= intents[e].attempts
    BY ActivationAssumption DEF IInv, TypeOK, SafeInv, PostBudget, Intent
  <2>2. intents[e].state # "none" /\ intents[e].approval # "none"
    <3>1. CASE late[e] > 0
      <4>1. sent[e] > 0 /\ intents[e].approval # "none"
        BY <3>1 DEF IInv, SafeInv, DeliveryInv, ApprovedAsRequired
      <4> QED
        BY <2>1, <4>1 DEF IInv, SafeInv, RowsInv
    <3>2. CASE \E w \in Worker : pc[w] = "posting" /\ job[w] = e
      BY <3>2 DEF IInv, SafeInv, WorkersInv, RowsInv, ApprovedAsRequired
    <3> QED
      BY <1>2, <3>1, <3>2
  <2>3. CASE Fresh(e)
    <3>1. /\ effects' = effects \union {e}
          /\ membership' = [membership EXCEPT ![e[1]] =
                              [seq |-> e[2], active |-> intents[e].desired]]
      BY <1>2, <2>3 DEF Handle, KeyOf, SeqOf
    <3>2. e \in Cleared \ effects /\ membership[e[1]].seq < e[2]
      BY <2>2, <2>3 DEF Fresh, Cleared, KeyOf, SeqOf
    <3>3. intents[e].desired \in BOOLEAN
      BY <2>1 DEF Intent
    <3>4. intents[e].desired = (Asked[e] = "add")
      BY <2>2, <3>3 DEF Asked
    <3>5. Promise!CarryOut(e)
      BY <1>1, <3>1, <3>2, <3>4 DEF Promise!CarryOut, Asked, Cleared, Reported
    <3> QED
      BY <3>5 DEF Promise!Next, Promise!Order, Effect
  <2>4. CASE ~Fresh(e)
    BY <1>1, <1>2, <2>4 DEF Handle, Promise!vars, Asked, Cleared, Reported
  <2> QED
    BY <2>3, <2>4
<1>3. ASSUME NEW k \in Key, NEW seq \in DriftSeq, Drift(k, seq)
      PROVE  Promise!Next
  <2>1. Promise!Disturb(k)
    BY <1>1, <1>3 DEF Drift, Promise!Disturb, Asked, Cleared, Reported
  <2> QED
    BY <2>1 DEF Promise!Next
<1> QED
  BY <1>2, <1>3 DEF ReceiverStep

LEMMA PromiseStep == IInv /\ [Next]_vars => [Promise!Next]_(Promise!vars)
<1> SUFFICES ASSUME IInv, [Next]_vars PROVE Promise!Next \/ UNCHANGED Promise!vars
  OBVIOUS
<1>1. CASE UNCHANGED <<intents, heads, effects, membership>>
  BY <1>1 DEF Promise!vars
<1>2. CASE UNCHANGED <<policyVars, intents, heads>> /\ ReceiverStep
  BY <1>2, ReceiverIsPromised
<1>3. CASE RowStep
  <2>1. PICK e \in Effect : Planned(e) \/ Moved(e)
    BY <1>3 DEF RowStep
  <2>2. e \in Promise!Order
    BY DEF Promise!Order, Effect
  <2>3. CASE Planned(e)
    BY <1>3, <2>2, <2>3, PlannedIsPlaced DEF RowStep, Promise!Next
  <2>4. CASE Moved(e)
    BY <1>3, <2>2, <2>4, MovedIsPromised DEF RowStep, Promise!Next
  <2> QED
    BY <2>1, <2>3, <2>4
<1> QED
  BY <1>1, <1>2, <1>3, Steps

\* Sender, outbox and receiver keep the promise: whatever is retried, taken over, lost,
\* late or repeated, an order takes effect at most once, under its approval, in the
\* order of its key, and is reported only when it did
\* (activation.py:43-56, 63-69, 162-170, receiver.py:99-111).
THEOREM PromiseIsKept == Spec => KeepsThePromise
BY PromiseInit, PromiseStep, InitIInv, IInvStep, PTL DEF Spec, KeepsThePromise, Promise!Spec
===============================================================================
