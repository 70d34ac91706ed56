------------------------------ MODULE Activation ------------------------------
(***************************************************************************)
(* The sender (src/audience_ops/activation.py) between the policy journal  *)
(* and the receiver: frozen intents, exact approval, workers that claim,   *)
(* read back, reserve, post and read back again, and reconciliation.       *)
(*                                                                         *)
(* Each transaction is one action; a worker's network call separates two   *)
(* of them.  The one transaction that spans a call is the POST's: it holds *)
(* the brand's lock and the intent's row lock while it waits (poster).     *)
(* An exception in a worker (a lock timeout, an HTTP protocol error) rolls *)
(* its transaction back and ends the dispatch, as a crash does.            *)
(***************************************************************************)
EXTENDS Policy, Receiver

CONSTANTS
  Worker,        \* processes that run dispatch
  NoWorker,      \* nobody
  NoJob,         \* what an idle worker works on
  MaxAttempts,   \* POSTs an intent may ever reserve
  MaxChecks,     \* inconclusive readbacks before an exception
  MaxCrashes,    \* bound on worker crashes
  MaxOverruns    \* bound on leases that lapse under a live worker

ASSUME ActivationAssumption ==
  /\ NoWorker \notin Worker
  /\ NoJob \notin Effect
  /\ {MaxAttempts, MaxChecks} \subseteq Nat \ {0}
  /\ {MaxCrashes, MaxOverruns} \subseteq Nat

VARIABLES
  intents,    \* per effect, its row in the outbox
  heads,      \* per key, the sequence of its newest intent; 0 is no head
  pc,         \* per worker, where its dispatch stands
  job,        \* per worker, the effect its dispatch claimed
  poster,     \* the worker whose transaction spans its POST
  sent,       \* history: HTTP requests ever issued per effect
  observed,   \* the membership a reconciliation read
  todo,       \* the mismatches it has left to repair
  stage,      \* where the reconciliation stands
  crashes, overruns   \* how much of the two bounds is used

senderVars == <<intents, heads, sent>>
workerVars == <<pc, job, poster>>
reconcileVars == <<observed, todo, stage>>
budgetVars == <<crashes, overruns>>
vars == <<policyVars, receiverVars, senderVars, workerVars, reconcileVars, budgetVars>>

Bound == [publication: Nat, permission: Nat, reason: Reasons]

States ==
  {"none", "pending", "approved", "inflight", "uncertain",
   "confirmed", "blocked", "excepted"}
Terminal == {"confirmed", "blocked", "excepted"}

\* approval.policy: none yet, protective-removal-v1 or reviewed-add-v1.
Approvals == {"none", "protective", "reviewed"}

Intent ==
  [state: States, desired: BOOLEAN, authority: Bound, approval: Approvals,
   attempts: 0..MaxAttempts, checks: 0..MaxChecks,
   lease: Worker \union {NoWorker}, lapsed: BOOLEAN]

Phase ==
  {"idle", "readback", "found", "unknown", "absent", "reserved",
   "posting", "acked", "refused", "verify"}

\* Mutant: plan approves additions by itself as well.
WaitsNever(desired) == FALSE

\* An addition waits for a reviewer, a removal carries its own approval.
Waits(desired) == desired

\* A row of the outbox as plan inserts it.
NewIntent(desired, authority) ==
  [state |-> IF Waits(desired) THEN "pending" ELSE "approved", desired |-> desired,
   authority |-> authority, approval |-> IF Waits(desired) THEN "none" ELSE "protective",
   attempts |-> 0, checks |-> 0, lease |-> NoWorker, lapsed |-> FALSE]

NoIntent ==
  [NewIntent(FALSE, [publication |-> 0, permission |-> 0,
                     reason |-> "missing_publication"])
     EXCEPT !.state = "none"]

Init ==
  /\ PolicyInit /\ ReceiverInit
  /\ intents = [e \in Effect |-> NoIntent]
  /\ heads = [k \in Key |-> 0]
  /\ pc = [w \in Worker |-> "idle"]
  /\ job = [w \in Worker |-> NoJob]
  /\ poster = NoWorker
  /\ sent = [e \in Effect |-> 0]
  /\ observed = membership /\ todo = {} /\ stage = "idle"
  /\ crashes = 0 /\ overruns = 0

-------------------------------------------------------------------------------
(* Locks, leases and authority. *)

\* Mutant: the sender lets the brand lock go before it posts.
LockFreeAlways == TRUE

\* The brand lock is free: whoever needs it for a transaction of its own proceeds.
LockFree == poster = NoWorker

\* The row of e is not locked by a transaction that spans a POST.
RowFree(e) == ~ \E w \in Worker : poster = w /\ job[w] = e

\* The fence: w's dispatch still owns the row it claimed.
Holds(w) == intents[job[w]].state = "inflight" /\ intents[job[w]].lease = w

\* e is the newest intent of its key.
IsHead(e) == heads[KeyOf(e)] = SeqOf(e)

\* dispatch's recheck: an add needs the exact authority it was approved under, a
\* removal only that the key is not eligible.
Authorized(e) ==
  /\ IsHead(e)
  /\ IF intents[e].desired
     THEN /\ Eligible(KeyOf(e))
          /\ Authority(KeyOf(e)) = intents[e].authority
          /\ intents[e].approval # "none"
     ELSE ~Eligible(KeyOf(e))

\* A live process is still running the dispatch that e's lease belongs to.
HolderAlive(e) == \E w \in Worker : intents[e].lease = w /\ job[w] = e

-------------------------------------------------------------------------------
(* plan and approve. *)

\* Mutant: a head that says the right thing is reused whatever it was bound to.
ReusesAnyAuthority(k, remote) ==
  heads[k] > remote /\ intents[<<k, heads[k]>>].desired = Eligible(k)

\* plan returns the head it finds instead of freezing a new intent.
Reuses(k, remote) ==
  /\ heads[k] > remote
  /\ intents[<<k, heads[k]>>].authority = Authority(k)
  /\ intents[<<k, heads[k]>>].desired = Eligible(k)

NextSeq(k, remote) == (IF heads[k] > remote THEN heads[k] ELSE remote) + 1

\* plan for the desired state the policy agrees with (any other is refused).
PlanRow(k, remote) ==
  /\ LockFree
  /\ IF Reuses(k, remote)
     THEN UNCHANGED <<intents, heads>>
     ELSE /\ NextSeq(k, remote) <= MaxSeq
          /\ intents' = [intents EXCEPT ![<<k, NextSeq(k, remote)>>] =
                           NewIntent(Eligible(k), Authority(k))]
          /\ heads' = [heads EXCEPT ![k] = NextSeq(k, remote)]

\* A controller plans without having looked at the destination.
Plan(k) ==
  /\ PlanRow(k, 0)
  /\ UNCHANGED <<policyVars, receiverVars, sent, workerVars, reconcileVars, budgetVars>>

\* An approver approves the exact payload of e.
Approve(e) ==
  /\ LockFree
  /\ intents[e].state \in {"pending", "approved"}
  /\ Eligible(KeyOf(e))
  /\ Authority(KeyOf(e)) = intents[e].authority
  /\ intents' = [intents EXCEPT ![e].approval = "reviewed", ![e].state = "approved"]
  /\ UNCHANGED <<policyVars, receiverVars, heads, sent, workerVars, reconcileVars, budgetVars>>

-------------------------------------------------------------------------------
(* dispatch, one action per transaction or call of worker w. *)

\* What no step of a worker touches.
WorkerFrame == UNCHANGED <<policyVars, heads, reconcileVars, budgetVars>>

\* The dispatch of w returns.
Finish(w) ==
  /\ pc' = [pc EXCEPT ![w] = "idle"]
  /\ job' = [job EXCEPT ![w] = NoJob]

Goto(w, phase) == pc' = [pc EXCEPT ![w] = phase] /\ UNCHANGED job

\* The row w claimed leaves inflight and its lease is cleared.
Release(w, state) ==
  intents' = [intents EXCEPT ![job[w]].state = state, ![job[w]].lease = NoWorker,
                             ![job[w]].lapsed = FALSE]

\* Mutants: exceptions are retried; a lapsed lease is not taken over.
ReadyExcepted(e) == intents[e].state \in {"approved", "uncertain", "excepted"}
LeaseOverNever(e) == FALSE

Ready(e) == intents[e].state \in {"approved", "uncertain"}
LeaseOver(e) == intents[e].state = "inflight" /\ intents[e].lapsed

Claimable(e) == RowFree(e) /\ (Ready(e) \/ LeaseOver(e))

\* The claim is committed before any call; a row locked elsewhere is skipped.
Claim(w, e) ==
  /\ pc[w] = "idle"
  /\ Claimable(e)
  /\ intents' = [intents EXCEPT ![e].state = "inflight", ![e].lease = w,
                                ![e].lapsed = FALSE]
  /\ pc' = [pc EXCEPT ![w] = "readback"]
  /\ job' = [job EXCEPT ![w] = e]
  /\ WorkerFrame /\ UNCHANGED <<receiverVars, sent, poster>>

\* Mutant: the membership is read back instead of the exact receipt.
FoundMembership(e) == membership[KeyOf(e)].active = intents[e].desired

\* The receiver has the receipt and the record of e.
Found(e) == e \in effects

\* GET of the receipt and the record: what was found is acted on later.
Readback(w) ==
  /\ pc[w] = "readback"
  /\ \/ Goto(w, IF Found(job[w]) THEN "found" ELSE "absent")
     \/ Goto(w, "unknown")
  /\ WorkerFrame /\ UNCHANGED <<receiverVars, intents, sent, poster>>

\* The readback after an acknowledged POST: absence is inconclusive there.
VerifyRead(w) ==
  /\ pc[w] = "verify"
  /\ \/ Found(job[w]) /\ Goto(w, "found")
     \/ Goto(w, "unknown")
  /\ WorkerFrame /\ UNCHANGED <<receiverVars, intents, sent, poster>>

\* Another dispatch took the row over: w returns and writes nothing.
LeaseLost(w) ==
  /\ \/ pc[w] \in {"found", "unknown"} /\ RowFree(job[w])
     \/ pc[w] \in {"absent", "reserved"} /\ LockFree
  /\ ~Holds(w)
  /\ Finish(w)
  /\ WorkerFrame /\ UNCHANGED <<receiverVars, intents, sent, poster>>

\* _confirm: an exact receipt settles the intent.
Confirm(w) ==
  /\ pc[w] = "found" /\ RowFree(job[w]) /\ Holds(w)
  /\ Release(w, "confirmed")
  /\ Finish(w)
  /\ WorkerFrame /\ UNCHANGED <<receiverVars, sent, poster>>

\* Mutant: the exception comes one check too late.
LastCheckLate(checks) == checks > MaxChecks

LastCheck(checks) == checks >= MaxChecks

\* _unknown: an inconclusive readback is counted and the last one is an exception.
Inconclusive(w) ==
  /\ pc[w] = "unknown" /\ RowFree(job[w]) /\ Holds(w)
  /\ LET checks == intents[job[w]].checks + 1
     IN  intents' = [intents EXCEPT
           ![job[w]].checks = checks,
           ![job[w]].state = IF LastCheck(checks) THEN "excepted" ELSE "uncertain",
           ![job[w]].lease = NoWorker, ![job[w]].lapsed = FALSE]
  /\ Finish(w)
  /\ WorkerFrame /\ UNCHANGED <<receiverVars, sent, poster>>

\* Either recheck finds the authority gone.
Block(w) ==
  /\ pc[w] \in {"absent", "reserved"} /\ LockFree /\ Holds(w)
  /\ ~Authorized(job[w])
  /\ Release(w, "blocked")
  /\ Finish(w)
  /\ WorkerFrame /\ UNCHANGED <<receiverVars, sent, poster>>

\* The attempts are used up; the lease is left on the row.
Exhaust(w) ==
  /\ pc[w] = "absent" /\ LockFree /\ Holds(w)
  /\ Authorized(job[w])
  /\ intents[job[w]].attempts >= MaxAttempts
  /\ intents' = [intents EXCEPT ![job[w]].state = "excepted"]
  /\ Finish(w)
  /\ WorkerFrame /\ UNCHANGED <<receiverVars, sent, poster>>

\* Mutant: the reservation is not committed before the request is made.
CountedLater(attempts) == attempts

Counted(attempts) == attempts + 1

\* The attempt is committed before it is made, and the lock let go.
Reserve(w) ==
  /\ pc[w] = "absent" /\ LockFree /\ Holds(w)
  /\ Authorized(job[w])
  /\ intents[job[w]].attempts < MaxAttempts
  /\ intents' = [intents EXCEPT ![job[w]].attempts = Counted(@)]
  /\ Goto(w, "reserved")
  /\ WorkerFrame /\ UNCHANGED <<receiverVars, sent, poster>>

\* The second recheck, and the request leaves with both locks held.
Send(w) ==
  /\ pc[w] = "reserved" /\ LockFree /\ Holds(w)
  /\ Authorized(job[w])
  /\ poster' = w
  /\ sent' = [sent EXCEPT ![job[w]] = @ + 1]
  /\ Goto(w, "posting")
  /\ WorkerFrame /\ UNCHANGED <<receiverVars, intents>>

\* The receiver handles the request w waits for, or its fault switch rejects it.
Serve(w) ==
  /\ pc[w] = "posting"
  /\ \/ /\ Handle(job[w], intents[job[w]].desired)
        /\ Goto(w, IF Accepted(job[w]) THEN "acked" ELSE "refused")
     \/ Goto(w, "refused") /\ UNCHANGED <<effects, membership>>
  /\ WorkerFrame /\ UNCHANGED <<late, intents, sent, poster>>

\* The 200 arrives: the transaction commits and releases both locks.
Acknowledged(w) ==
  /\ pc[w] = "acked"
  /\ poster' = NoWorker
  /\ Goto(w, "verify")
  /\ WorkerFrame /\ UNCHANGED <<receiverVars, intents, sent>>

\* A refusal, a lost reply or a timeout; after a timeout the request is still out.
Unacknowledged(w) ==
  /\ pc[w] \in {"posting", "acked", "refused"}
  /\ Release(w, "uncertain")
  /\ late' = IF pc[w] = "posting" THEN [late EXCEPT ![job[w]] = @ + 1] ELSE late
  /\ poster' = NoWorker
  /\ Finish(w)
  /\ WorkerFrame /\ UNCHANGED <<effects, membership, sent>>

\* Every step of a dispatch that has claimed a row, but for the receiver's.
Dispatch(w) ==
  \/ Readback(w) \/ VerifyRead(w) \/ LeaseLost(w) \/ Confirm(w) \/ Inconclusive(w)
  \/ Block(w) \/ Exhaust(w) \/ Reserve(w) \/ Send(w)
  \/ Acknowledged(w) \/ Unacknowledged(w)

-------------------------------------------------------------------------------
(* The environment of the workers. *)

\* The process dies, or an exception ends the dispatch: its transaction is rolled
\* back, its locks are released, what it committed stays.
Crash(w) ==
  /\ pc[w] # "idle" /\ crashes < MaxCrashes
  /\ crashes' = crashes + 1
  /\ late' = IF pc[w] = "posting" THEN [late EXCEPT ![job[w]] = @ + 1] ELSE late
  /\ poster' = IF poster = w THEN NoWorker ELSE poster
  /\ Finish(w)
  /\ UNCHANGED <<policyVars, effects, membership, senderVars, reconcileVars, overruns>>

\* lease_until passes; under a live worker only so often.
Lapse(e) ==
  /\ intents[e].state = "inflight" /\ ~intents[e].lapsed
  /\ HolderAlive(e) => overruns < MaxOverruns
  /\ overruns' = IF HolderAlive(e) THEN overruns + 1 ELSE overruns
  /\ intents' = [intents EXCEPT ![e].lapsed = TRUE]
  /\ UNCHANGED <<policyVars, receiverVars, heads, sent, workerVars, reconcileVars, crashes>>

\* A request whose sender gave up reaches the receiver after all.
DeliverLate(e) ==
  /\ late[e] > 0
  /\ late' = [late EXCEPT ![e] = @ - 1]
  /\ Handle(e, intents[e].desired)
  /\ UNCHANGED <<policyVars, senderVars, workerVars, reconcileVars, budgetVars>>

DestinationDrifts(k) ==
  /\ \E seq \in DriftSeq : Drift(k, seq)
  /\ UNCHANGED <<policyVars, senderVars, workerVars, reconcileVars, budgetVars>>

\* The policy's handlers wait for the brand lock.
PolicyStep ==
  /\ LockFree
  /\ PolicyNext
  /\ UNCHANGED <<receiverVars, senderVars, workerVars, reconcileVars, budgetVars>>

-------------------------------------------------------------------------------
(* reconcile with repair: a snapshot of the destination, a comparison, then one *)
(* transaction per mismatch.                                                    *)

ReconcileFrame == UNCHANGED <<policyVars, receiverVars, sent, workerVars, budgetVars>>

ReconcileRead ==
  /\ stage = "idle"
  /\ observed' = membership /\ stage' = "observed" /\ UNCHANGED todo
  /\ ReconcileFrame /\ UNCHANGED <<intents, heads>>

\* The comparison reads the view without the brand lock.
ReconcileCompare ==
  /\ stage = "observed"
  /\ todo' = {k \in Key : Eligible(k) # observed[k].active}
  /\ stage' = "repairing" /\ UNCHANGED observed
  /\ ReconcileFrame /\ UNCHANGED <<intents, heads>>

\* Mutant: the repair ignores the sequence it saw at the destination.
SeenBlind(k) == 0

Seen(k) == observed[k].seq

ReconcilePlan(k) ==
  /\ stage = "repairing" /\ k \in todo
  /\ Eligible(k) # observed[k].active
  /\ PlanRow(k, Seen(k))
  /\ todo' = todo \ {k} /\ UNCHANGED <<observed, stage>>
  /\ ReconcileFrame

\* The policy changed since the comparison: plan refuses, and what is left of the
\* reconciliation is abandoned with it.
ReconcileRefused(k) ==
  /\ stage = "repairing" /\ k \in todo /\ LockFree
  /\ Eligible(k) = observed[k].active
  /\ todo' = {} /\ stage' = "idle" /\ UNCHANGED observed
  /\ ReconcileFrame /\ UNCHANGED <<intents, heads>>

ReconcileDone ==
  /\ stage = "repairing" /\ todo = {}
  /\ stage' = "idle" /\ UNCHANGED <<observed, todo>>
  /\ ReconcileFrame /\ UNCHANGED <<intents, heads>>

Reconcile ==
  \/ ReconcileRead \/ ReconcileCompare \/ ReconcileDone
  \/ \E k \in Key : ReconcilePlan(k) \/ ReconcileRefused(k)

-------------------------------------------------------------------------------
\* Everything but reconciliation.
DeliveryNext ==
  \/ PolicyStep
  \/ \E k \in Key : Plan(k) \/ DestinationDrifts(k)
  \/ \E e \in Effect : Approve(e) \/ Lapse(e) \/ DeliverLate(e)
  \/ \E w \in Worker : Dispatch(w) \/ Serve(w) \/ Crash(w)
  \/ \E w \in Worker, e \in Effect : Claim(w, e)

Next == DeliveryNext \/ Reconcile

Spec == Init /\ [][Next]_vars

\* The code schedules nothing: dispatch, approve and reconcile are commands.  What it
\* does guarantee is that a dispatch, once started, returns (every call and every
\* lock wait has a timeout) and that a lease ends.  That commands keep being given
\* is assumed; crashes, overruns, drift, late delivery and policy are never fair.
DispatchFairness ==
  /\ \A w \in Worker : WF_vars(Dispatch(w))
  /\ \A e \in Effect : WF_vars(Lapse(e)) /\ WF_vars(\E w \in Worker : Claim(w, e))

RepairFairness ==
  /\ DispatchFairness
  /\ WF_vars(Reconcile)
  /\ \A e \in Effect : WF_vars(Approve(e))

-------------------------------------------------------------------------------
(* Properties *)

\* The shape of the state.
TypeOK ==
  /\ PolicyTypeOK /\ ReceiverTypeOK
  /\ intents \in [Effect -> Intent]
  /\ heads \in [Key -> 0..MaxSeq]
  /\ sent \in [Effect -> Nat]
  /\ pc \in [Worker -> Phase]
  /\ job \in [Worker -> Effect \union {NoJob}]
  /\ poster \in Worker \union {NoWorker}
  /\ observed \in [Key -> [seq: Nat, active: BOOLEAN]]
  /\ todo \subseteq Key
  /\ stage \in {"idle", "observed", "repairing"}
  /\ crashes \in 0..MaxCrashes /\ overruns \in 0..MaxOverruns

\* No intent is ever posted more often than it reserved attempts, nor more than
\* the three the code allows: not across crashes after the request left, leases
\* taken over between reservation and POST, or replies that never came
\* (activation.py:108-116).
PostBudget ==
  \A e \in Effect : sent[e] <= intents[e].attempts /\ intents[e].attempts <= MaxAttempts

\* While a sender waits for its POST the authority it rechecked still holds and
\* the row is still its own: a withdrawal, a publication or a newer intent waits
\* for the brand lock, and a lapsed lease cannot be claimed away (activation.py:116-132).
PostingIsAuthorized ==
  poster # NoWorker => Authorized(job[poster]) /\ Holds(poster)

\* A confirmed intent has its effect at the receiver (activation.py:142-148,162-170).
ConfirmedIsCommitted ==
  \A e \in Effect : intents[e].state = "confirmed" => e \in effects

\* The approval e needs to leave the house: an addition a reviewer's.
ApprovedAsRequired(e) ==
  intents[e].approval = IF intents[e].desired THEN "reviewed" ELSE "protective"

\* Whatever the receiver commits, however late, was posted by a sender, and an
\* addition carries a reviewer's approval: the protective approval that plan gives
\* to removals never lets an addition out (activation.py:49,63-69,100-103).
CommittedWasApproved ==
  \A e \in effects : sent[e] > 0 /\ ApprovedAsRequired(e)

\* A settled intent never changes again: a worker that lost its lease, a late reply,
\* a second approval or a new claim cannot reopen it (activation.py:63,79,96,153,165).
SettledIsFinal ==
  [][\A e \in Effect : intents[e].state \in Terminal
                       => intents'[e].state = intents[e].state]_vars

\* An intent that was blocked is never what plan returns again: the authority it
\* was frozen under is gone for good, so a key whose policy turns eligible (or
\* ineligible) again gets a new intent (activation.py:43-44,104-106).
BlockedIsObsolete ==
  \A k \in Key :
    heads[k] > 0 /\ intents[<<k, heads[k]>>].state = "blocked"
    => ~Reuses(k, 0)

\* A repair planned from what the destination says now is never an intent that is
\* already over: where destination and policy disagree, plan returns an intent that
\* can still be delivered, or one that is listed as an exception with its attempts
\* or checks used up (activation.py:43-45,191-196).
RepairIsActionable ==
  \A k \in Key :
    LET head == intents[<<k, heads[k]>>]
    IN  Eligible(k) # membership[k].active /\ Reuses(k, membership[k].seq)
        => \/ head.state \in {"pending", "approved", "inflight", "uncertain"}
           \/ /\ head.state = "excepted"
              /\ head.attempts = MaxAttempts \/ head.checks = MaxChecks

Promise == INSTANCE Orders WITH
  Target <- Key, Number <- 1..MaxSeq, Outside <- DriftSeq,
  asked <- [e \in Effect |-> IF intents[e].state = "none" THEN "none"
                             ELSE IF intents[e].desired THEN "add" ELSE "remove"],
  cleared <- {e \in Effect : intents[e].state # "none" /\ intents[e].approval # "none"},
  done <- effects,
  shown <- membership,
  reported <- {e \in Effect : intents[e].state = "confirmed"}

\* The sender, its outbox and the receiver implement the promise: across retries,
\* takeovers, crashes, late and repeated requests, each intent takes effect at most
\* once, only under its approval, in the order of its key, and is reported confirmed
\* only when it did (activation.py:43-56,63-69,162-170, receiver.py:99-111).
KeepsThePromise == Promise!Spec

\* An approved intent is settled: it is confirmed, blocked, or listed as an
\* exception after finitely many attempts and checks, whatever crashes, takeovers,
\* lost replies and unknown readbacks it meets (activation.py:72-170).
Settles ==
  \A e \in Effect :
    intents[e].state \in {"approved", "inflight", "uncertain"}
    ~> intents[e].state \in Terminal

\* Once the policy and the faults come to rest, reconciliation with repair brings
\* destination and policy together, except for a key whose current intent used up
\* its budget: late commits, drift at the destination, a repair abandoned half way
\* and an intent blocked in between are all caught up with (activation.py:172-206).
Converges ==
  <>[] \A k \in Key :
         \/ Eligible(k) = membership[k].active
         \/ /\ Reuses(k, membership[k].seq)
            /\ intents[<<k, heads[k]>>].state = "excepted"
===============================================================================
