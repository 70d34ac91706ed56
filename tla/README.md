# A TLA+ model of temporal customer audiences

The program decides which customers belong to an audience, and keeps a destination
(an e-mail tool, say) in step with the decision. It does so under knowledge that arrives late and
is corrected, under permissions that are withdrawn, and over a network that loses replies. This
directory holds its model: modules that TLC checks on small instances, and theorems that TLAPS proves for
every value of the constants.

The program has two layers, with a database each:

* `src/src/temporal_audiences`, the **engine**: an append-only SQLite store of facts, a
  bitemporal feature query, incremental builds with timers, a bundle per current build, and a
  projection that applies the bundles. A reference evaluator recomputes everything from scratch.
* `src/src/audience_ops`, the **operating layer**: a Postgres journal of publications and
  permissions on top of the engine (the bridge), a sender that plans, gets approved and delivers
  single memberships, and a receiver with a database of its own.

## Inventory

| component | state it keeps | operations | interacts with |
|---|---|---|---|
| policy journal, `bridge.py`, `operating.sql` | source inbox, publications, active publication, business clock, permission revisions, all per brand | `ingest`, `publish` (current, historical, retried), `permission`; the view `activation_eligibility` | calls the engine inside `publish`; read by the sender under the brand's advisory lock |
| activation sender, `activation.py` | outbox of intents (state, authority, approval, attempts, checks, lease), heads per key | `plan`, `approve`, `dispatch`, `reconcile` | reads the view; HTTP to the receiver |
| receiver, `receiver.py`, `receiver.sql` | effects with receipts and records, one membership row per key, a fault table | `POST /effects`, readback and membership reads | its own database and lock |
| HTTP client, `client.py` | none | readback, POST, membership read; each answer is *found*, *absent* or *unknown* | between sender and receiver |
| fact store, `store.py`, `contracts.py` | batches, fact versions, coverage assertions | `ingest`, `ingest_coverage` | written by sources, read by builds |
| feature query and gate, `features.sql`, `coverage.py` | none | features of a person, boundaries, coverage at a time | part of a build |
| incremental engine, `engine.py` | generations, rows of persons, active pointer, bundles | `build` | store, query; bundles to the destination |
| membership projection, `destination.py` | members, lineage, current generation, receipts | `apply`, `reconcile` | takes bundles |
| reference evaluator, `oracle.py` | none | `full_evaluation`, `full_activation_members` | the tests' and the demo's yardstick |
| operating-layer oracle, `audience_ops/oracle.py` | none | `temporal`, `check`: recomputes decisions and eligibility from the raw inbox | reads the journal without its lock; called by console and acceptance run |
| console, `console.py` | none | `/api/state` with the check, read-only routes | reads the journal and the receiver |
| set-up, `runtime.py`, `compose_setup.py` | two databases, private files in three volumes; server and service processes | `initialize`, hand-over, `execute`; `LocalRuntime.start`, `stop` | creates what all others run on |
| acceptance scenario, scripts | one stored report | one scripted run, verification | all |

What makes it correct, and hard:

* **Journal.** A sender binds an intent to a *fingerprint* of the policy (publication, permission,
  reason) and compares it later. That is only sound if a replaced fingerprint never returns,
  whatever retries, historical restatements and out-of-order revisions arrive in between.
* **Sender.** Several dispatch processes, each a chain of short transactions with a network call between
  two of them. Everything read before a call may be stale after it: the row, the lease, the
  authority. Processes die between the receiver's commit and their own; a POST that timed out may
  commit much later. The program says so itself: there is no distributed transaction. What it does promise is a
  budget of attempts, authority at the moment of posting, true confirmations, settled outcomes, and
  convergence through reconciliation.
* **Receiver.** Requests arrive late, repeated and reordered; a removed member must stay removed.
* **Engine.** An incremental build reuses what it computed before. A forgotten boundary, a change
  of knowledge missed by one batch, or a difference taken from the wrong base shows nowhere until
  an audience is wrong. The reproducibility of *past* results under later knowledge is the point
  of the whole engine.
* **Projection.** It receives differences only, in any order, and may have been edited by hand.
* **Replay.** The operating layer keeps no engine store: on each admission and publication it replays the
  inbox into a new one. That is right only if a replay numbers, deduplicates and refuses exactly as the
  batches were admitted, one after the other.
* **Store file.** Several processes may open one engine file. `executescript` commits the transaction it
  runs in, so opening is a row of statements, each of which may be the last one a process executes.
* **Oracle and console.** The check reads six tables in six snapshots beside running writers.
* **Set-up.** `CREATE DATABASE` and file writes do not roll back. Whatever dies in between, a restart must
  end in one consistent environment or refuse.

`PROJECT.json` lists these hazards with the line where each one bites.

## Modules

```
 Scope ─ Policy ─┐                       Temporal ─ Store ─ Oracle
                 ├─ Activation ⇒ Orders             │
 Scope ─ Receiver┘                                Engine ─┐
                                           Destination ───┴─ Projection ⇒ Audience

 (Engine, inside) Bridge ⇒ Store, Policy        Bridge ─ Audit

 StoreFile          Setup
```

`─` is composition, `⇒` is refinement, checked by a run and proved. The two modules at the bottom look at one mechanism
each, at a finer grain than the modules above.

`Scope` names persons, audiences and their pairs, the keys. Channel and purpose have one
supported value each and are left out.

### Policy (`bridge.py`, `operating.sql`)

The journal of **one** brand. Every table is keyed by brand, and every handler
takes the brand's advisory lock for its whole transaction, so a handler is one atomic action and
brands cannot interfere.

| model | code |
|---|---|
| `Ingest` | `Operations.ingest`: a batch is the set of persons it states facts of |
| `Publish`, `PublishAgain` | `Operations.publish`, with a new request name, and retried |
| `RevisePermission`, `PermissionAgain` | `Operations.permission`, next revision, and the same one again |
| `Reason`, `Eligible`, `Authority` | the `activation_eligibility` view and the fingerprint read from it |

`Evaluates` stands for the engine's evaluation inside `publish`: any members and coverage, but the
same ones for the same knowledge and clock, and only persons facts are known of. `Bridge` shows that the engine
keeps to it. Request retries appear
as steps that change nothing, so that their guards are kept. Rules are constant while the program runs, so
`rule_hash` is left out of the fingerprint.

### Receiver (`receiver.py`, `receiver.sql`)

`Handle` is `do_POST` beyond the fault switch: a duplicate gets the stored receipt, a stale
sequence is refused, anything else is committed and moves the key's row. The payload's digest is the
key and the sequence, which the sender's unique index makes equivalent. The fault table's switches are nondeterminism in
`Activation`: `reject` and `lost_ack` in `Serve` and `Unacknowledged`, `unknown` and `bad_receipt`, which make a
readback inconclusive, in `Readback` and `VerifyRead`. `late` counts requests on the wire whose sender gave up; each may be handled at
any time, or never. `Drift` is the row the acceptance run writes behind the sender's back.

### Activation (`activation.py`, `client.py`)

`Activation` composes `Policy` and `Receiver` with the sender. One action is one transaction or one call:

| model | code |
|---|---|
| `Plan`, `Approve` | `plan`, `approve` |
| `Claim` | the claiming transaction of `dispatch`, `SKIP LOCKED` and lapsed leases included |
| `Readback` → `found / absent / unknown` | the first readback |
| `Block`, `Exhaust`, `Reserve` | the first recheck under the brand lock, the attempt limit, the committed reservation |
| `Send`, `Serve`, `Acknowledged`, `Unacknowledged` | the second recheck and the POST, whose transaction holds brand lock and row lock (`poster`) |
| `VerifyRead`, `Confirm`, `Inconclusive`, `LeaseLost` | the final readback and the three ends |
| `ReconcileRead`, `…Compare`, `…Plan`, `…Refused`, `…Done` | `reconcile` with repair: snapshot, comparison without a lock, one `plan` per mismatch |
| `Crash`, `Lapse`, `DeliverLate`, `DestinationDrifts` | process death or an exception, time, the wire, the outside |

The lease's UUID is the worker's name: a worker runs one dispatch at a time and a dispatch claims
once. A lock timeout or protocol error rolls back and ends the dispatch, which is exactly a crash.
`sent` is a history variable; no guard reads it. `MCActivation` starts from a brand that is set up,
one batch, one publication and one permission, a state `PolicyNext` reaches.

### Orders

What sender and receiver promise together: orders are placed, each newer than the ones of its key before it,
cleared, carried out at most once and never behind a newer one, and reported done only when they were. The
destination shows the last one carried out. `Activation` implements it (`KeepsThePromise`): intents are
orders, approval clears, the receiver's commit carries out, confirmation reports. Workers, leases, retries,
budgets and the wire are invisible there.

### Bridge (`bridge.py`, `audience_ops/oracle.py`)

The journal again, this time with what is inside its handlers. The inbox holds what the batches *state*. `Facts` and
`Coverage` are the rows a replay leaves in the throw-away store, each known since the first batch that stated it
(`BroughtBy`); `Engine` is instantiated with these rows, and `Ingest` admits what that engine admits. `Decisions`
is the forced full build of `publish`. `Oracle` translates `temporal`, independently of the engine, and `Expected` the
eligibility `check` expects. Four facts tie it to the rest: decisions are the oracle's, the view's eligible keys are the
expected ones, the replayed store is `Store` (`ReplayIsTheStore`), and the journal is `Policy`
(`EvaluationFitsTheJournal`), with which `Activation` was checked.

### Audit (`audience_ops/oracle.py`, `console.py`)

`check` as it runs: `Read` is one statement, on what is committed then, and `Conclude` the comparison of what the
statements returned, while `Bridge` goes on. Both alarms are reachable; the two properties say when.

### StoreFile (`store.py`, `schema.sql`)

The statements of `Store.__init__`, one action each, and the write transactions of `ingest`, `ingest_coverage` and
`build` from `BEGIN IMMEDIATE` to the answer, with the write lock, a batch identifier or run key that may be there
already, and a process that dies anywhere. What the transactions compute is left to `Store` and `Engine`, for whose atomic
actions this module is the reason.

### Setup (`runtime.py`, `compose_setup.py`, `demo.py`)

`Begin` to `WritePrivate` is `initialize`, `Cleanup` its exception handler, `HandOver` and `Unlink` the loop of
`compose_setup`, `Execute` and `RecordReport` the scenario. A file holds the number of the attempt that wrote it, and is torn
between emptying and writing; `Die` may happen at any step, and every step that raises is `Refuse`.

### Temporal, Store, Oracle (`features.sql`, `engine.py`, `coverage.py`, `store.py`, `oracle.py`)

`Temporal` defines the feature query and the gate as set operators: highest known revision
of each fact, retraction, profile with its ambiguity, half-open windows, boundaries. `Store` is the
append-only store, with the refusal of conflicting versions. `Oracle` translates the
*reference evaluator* independently, from its own source, and states that the two agree.

### Engine, Destination, Projection, Audience (`engine.py`, `destination.py`)

`Build` is `build`: admission, full or incremental, rows reused or evaluated, gate, active pointer.
`BundleOf` is the bundle a current generation publishes; member hashes stand as the members.
`Apply` is `Destination.apply` with every check of its validation. Within it the comparison of
members with `before` makes the checks of single adds and removals redundant;
both are kept, as in the code. A bundle of another engine store than the one it is bound to is refused
(`lineage`); `Projection` offers it such bundles. `Projection` lets published bundles reach the destination at any
time, again, in any order or never, and lets someone edit its members.

`Audience` is the abstract promise: published audiences form a sequence, the destination shows them
one after the other and each as a whole, and when disturbed it stands still until it holds what it
should. `Projection` implements it, with the chain of current generations as `history` (`Nth(k)` is the k-th of them) and the
number of receipts as `position`.

## Runs

| run | question | instance | distinct states |
|---|---|---|---|
| `policy` | does authority only move forward? | 2 persons, 1 gated audience, clock 0..1, 2 batches, 2 publications, 2 permission revisions, both modes | 1.35 M |
| `delivery` | budget, authority, approval and truth of confirmations at every step | 1 key, 2 workers, 2 attempts, 2 checks, 1 crash, 1 overrun, 2 intents | 1.53 M |
| `repair` | is what reconciliation plans deliverable? | 1 key, 1 worker, 3 intents, drift at sequence 2, policy undone and redone | 1.04 M |
| `settle` | does an approved intent settle? | the code's 3 attempts and 3 checks, 2 workers, 2 crashes, 1 overrun | 130 k |
| `converge` | does reconciliation bring policy and destination together? | 1 worker, drift, 1 crash, a policy change | 213 k |
| `oracle` | query, timers and gate against the reference evaluator | 9 fact versions, 4 assertions, 2 rulesets, 4 batches, times 0..6 | 22 k |
| `engine` | are all generations reproducible, and the bundles a chain? | 2 persons, 2 rulesets, 2 batches, 3 builds, times 0..2 | 2.72 M |
| `projection` | does the feed keep its promise? | 1 person, 3 batches, 3 builds, a hand edit, bundles of another store | 1.25 M |
| `bridge` | does replay decide as the reference does, and is the journal the one senders rely on? | 1 person, 3 versions, 2 assertions, 3 batches, clock 0..2, 2 publications, 1 permission, both modes | 131 k |
| `audit` | when does the unlocked check raise an alarm? | 1 person, 2 batches of up to 2 facts, clock 0..1, 2 publications, 1 permission | 854 k |
| `storefile` | is opening complete, and is there one row and one answer per name? | 2 processes, 2 names, 2 bodies, 2 statements in the schema, 2 batches, 2 builds | 1.73 M |
| `setup` | does a restart recover, and preserve what there was? | 3 deaths, 3 attempts | 15 k |

Every passing run is searched to the end. None stops: retries keep the journals
alive, so deadlock is checked in all of them. `repair` also shows that `Activation` implements `Orders`.

Why these bounds suffice for what they are after:

* *Delivery.* A race needs a worker that lost its row and one that took it, hence two workers. The interesting
  policy change is one that replaces the authority of a frozen intent, so two permissions and
  two intents. Limits are reached because attempts and checks are two; `settle` uses the real three.
* *Repair.* Blocked and obsolete intents need a policy that goes and comes back: three permissions,
  three sequences. Drift at 2 leaves the destination ahead of a first intent.
* *Converge.* Four sequences are more than the run can consume: the drifted row forces 3, and
  the policy changes once. `MaxSeq` is therefore never what stops a plan.
* *Oracle.* Facts are evaluated person by person, so one person suffices; the versions include a correction, an
  ambiguous second profile, its retraction, an event moved and then retracted, a conflicting
  version, and batches in every order. Window widths of 1 to 3 put every boundary inside the horizon.
* *Engine.* A second person shows that the impacted set is neither too small nor everybody; two
  rulesets force a full build in between; three builds are the least in which a historical one lies
  between two current ones.

* *Bridge.* A batch that states a version again, a retraction with a changed time, a batch of coverage between batches
  of facts, and a publication between any two of them need three batches and two publications. A permission that is
  valid in the middle of the clock has both ends inside.
* *Audit.* Two batches, two publications and a permission are enough for each of the six reads to be overtaken by
  each kind of handler, and by a historical publication.
* *StoreFile.* Two processes at different statements of the set-up; of two statements of the schema the first or both may
  have taken effect. Two names and two bodies give a retry, a conflict and a second row.
* *Setup.* Each death costs at most one attempt; three allow one in the first attempt's clean-up, one in the second's files and one
  in the hand-over.

Each property has at least one mutant of the code that TLC refutes it with: a dropped guard, a swapped order, an
off-by-one, a forgotten lock. The mutated operators stand before the ones they vary, marked *Mutant*; no specification uses them.

## Fairness

Safety runs assume none. The two liveness runs of the sender assume what the code's timeouts give:

* `WF(Dispatch(w))`: a dispatch, once started, returns. Every HTTP call is limited to 2 s and every lock
  wait to 5 s; together a dispatch stays below its 30 s default lease, so overruns are rare, and the model
  bounds their number.
* `WF(Lapse(e))`: a lease ends by the passage of time.
* `WF(Claim)`, and for `converge` also `WF(Reconcile)` and `WF(Approve(e))`: the program schedules nothing, these are
  commands. That somebody keeps giving them is an assumption about operation, not a fact of the code.

Crashes, overruns, drift, late requests and policy changes are never fair; they may or may not occur. Fairness
of `Dispatch` is on the worker's steps only, so a receiver that never answers is allowed: the sender
times out (`Unacknowledged`).

`setup` assumes `WF(Proceed)`: a step that is not fatal ends, and somebody starts the set-up again
(`docker compose up`); `Die`, `Fail`, the lost reply and `Down` are free. `Recovers` then excepts what only a fresh environment
helps with: a torn `controller.json`, and a scenario that was interrupted, for which the program refuses by design.

## Theorems

All proofs are checked by TLAPS to the last leaf, without assumptions beyond the named ones on the
constants (`PolicyAssumption`, `ReceiverAssumption`, `ActivationAssumption`, `StoreAssumption`, `EngineAssumption`,
`ProjectionAssumption`, `OracleAssumption`, `StoreFileAssumption`, `BridgeAssumption`). These say what the inputs are: numbers are
natural, what sources may state is well formed, a term ends after it begins, a foreign bundle names a lineage that is not the
engine's own. Every safety invariant, action property and refinement that a run checks is also a theorem; what each run
shows on its instance, the theorem says for every value of the constants.

**PolicyProofs**, for any number of persons, batches, publications and revisions.
`PolicyInvariant`: type correctness, and the active publication is the newest current one and
carries the brand's clock. `RefusalLasts` (`RefusalIsFinal`), `HistoricalPublicationIsInert` (`HistoryIsInert`) and
`FingerprintsMoveForward` (`AuthorityMovesForward`). The last is the one the sender rests on. Its argument goes by
the kind of step: a batch can only make fresh stale, a publication's position is new and larger, and a
revision's position is new and larger for its person (`PermissionForLatest`: the row the view picks is the last of its person,
because revisions increase along the journal; that is the strengthening `PolicyInv` carries).

**ActivationProofs**, for any number of workers, keys, attempts, crashes, overruns and late requests.
`TypeCorrect`, `BudgetKept`, `AuthorityHeldWhilePosting`, `ConfirmationsAreTrue`, `DeliveriesWereApproved`,
`RowIsNewest`, `SettledStaysSettled`, `MembershipNeverGoesBack`. None of these is inductive by itself; the invariant
`IInv` adds

* for the workers (`WorkersInv`), what each phase may rely on: in `reserved` there is an attempt not yet
  sent *as long as the worker still holds the row*; in `found` the effect is committed; between send and
  reply the worker is the `poster`, and only it;
* for the rows (`RowsInv`), that sequences beyond the head are unused, that whatever has left `pending` carries the
  approval its kind requires, and that only an exception has used up its checks;
* for the wire and the receiver (`DeliveryInv`), that a request in either was sent and approved;
* `PostingInv`, the property of the poster said of one worker and one effect.

The proof has one lemma per action. `PostingStays` is the heart of `AuthorityHeldWhilePosting`: nothing that
runs without the brand lock touches policy, heads or the posting row.

`BlockedStaysObsolete` (`BlockedIsObsolete`) and `RepairCanBeDelivered` (`RepairIsActionable`) rest on the journal's
`FingerprintsMoveForward`. `BindingInv` orders fingerprints in time: an intent's is never ahead of its key's, and that of a
blocked head is strictly behind, hence never the key's again; and only an intent that used up a budget is excepted.

`PromiseIsKept` (`KeepsThePromise`): the sender, outbox and receiver implement `Orders`. Each action is mapped to a
placing, clearing, carrying out or reporting, or to nothing. `RowIsNewest` makes a commit one that is ahead of its key,
`DeliveriesWereApproved` one that was cleared, `ConfirmationsAreTrue` a report of what was done.

**StoreProofs** has lemmas on the store and on what is computed from it, for any rules, facts and times: each fact has one
version of each revision and one person (`StoreInv`); evaluation at a knowledge reads only rows of that knowledge
(`FeaturesRestOnKnown`, `GateRestsOnInForce`), and ingestion adds rows of a newer one only (`IngestKeepsKnown`); every way a feature
can change with time is a member of `Boundaries` (`BoundariesAreComplete`), and before the least boundary there is none
(`FeaturesHoldUntilDue`).

**OracleProofs.** `KnowledgeStaysFinal` (`KnowledgeIsFinal`) and `NothingChangesEarly` (`NothingChangesBeforeDue`) follow from
these. `QueryIsOracle` (`EvaluationIsOracle`): the query ranks the revisions of each fact among one person's rows, the
reference picks one per fact among everybody's. They meet because a fact has one person and finitely many versions, so a
highest one, and only one. `CoverageIsOracle` (`GateIsOracle`) is the same for the one assertion in force. `GateAnnouncesItsTurns`
(`GateTurnsWhenDue`): between announced times each bound of that assertion stays on its side of the clock.

**EngineProofs**, for any rulesets, builds, bundles of other stores and edits by hand. `IncrementalEqualsFull`
(`GenerationsAreReproducible`): the property is inductive once said of *every* generation with its rows' features
(`Sound`), since the next build reuses rows of one of them. A reused row is right because its person has no newer fact, so the
same visible rows, and its timer is not due, so the same features. `OneChain` (`BundlesFormAChain`) adds that the active
generation is the newest current one (`ActiveInv`). `NextIsTaken` (`NextBundleIsTaken`): every check of `apply` holds of a true bundle in
its turn. `AudiencesAreShownInTurn` (`KeepsThePromise`): engine and destination implement `Audience`. Its `history` is
the chain of current generations, so the proof counts them (`CountUpTo` and what follows it): the rank of a generation never changes
when others are added, and `Taken` says that the destination has as many receipts as its generation has rank.

**StoreFileProofs**, for any number of processes, names, rows, schema statements and deaths.
`SetUpIsComplete` (`OpenedIsComplete`), `SetUpKeepsTheFile` (`OpeningKeeps`), `NamesHaveOneAnswer`
(`OneAnswerPerName`) and `BuildsAreUpToDate` (`NothingSlipsIn`). The invariant `FileInv` says of each process how far the file is
set up at its step (`OpeningOK`: it has run no more statements than have taken effect), and that what a transaction has read still
stands when it writes (`ReadingOK`), because only the process that holds the lock is in one; a row once answered stays the
row of its name (`Serves`), because rows are only appended.

**BridgeProofs**, for any facts, assertions, terms, ruleset and number of requests. The argument is on the raw inbox. `InboxInv` says that
batches agree with each other, which is what admission by the replayed store amounts to (`AdmissibleAgrees`), and that each
content has a first batch. So the rows known at a sequence are the contents of the batches up to it (`RawIsBrought`, `KnownIsRaw`), row by
row and number by number (`SameFeatures`), and `Decisions` is `Oracle` (`DecisionsByOracle`).

* `PublicationsAreReproducible` (`DecisionsAreOracle`): and stays so, because `Oracle` reads only the beginning of the inbox it
  is given (`BeginningDecides`).
* `ViewIsTheReference` (`EligibilityIsOracle`): the view's lateral joins find what the reference's dictionaries find. For permissions this
  needs that revisions rise along the journal, so that one is the highest (`PermissionsInv`).
* `ReplayIsTheStoreOfTheBatches` (`ReplayIsTheStore`): the news of a batch is what no batch before it stated (`FactsGrow`), and
  what was brought earlier keeps its number (`BroughtByStays`).
* `TheEngineFitsTheJournal` (`EvaluationFitsTheJournal`): a publication's members are persons the batches introduced, and the same for
  the same knowledge and clock, which is all `Policy` assumes of an evaluation. With it, what is proved of the journal and of the sender
  that uses it holds with the engine inside.
* `SourceAlarmsAreLate` and `AlarmsMeanMoved` (`SourceAlarmIsLate`, `AlarmMeansMoved`): what the check has read of each table is a
  beginning of it (`AuditInv`), since tables only grow. Unless one of them is longer by now, what it read last agrees with what it
  read first, and the comparison is the one of `ViewIsTheReference`.

**SetupProofs**, for any number of deaths and attempts. `ServicesGetOneAttempt` (`ServicesAgree`), `ReportsAreOfOneRun` (`ReportIsOfOneRun`)
and `RestartKeepsEverything` (`KeptOnRestart`). `SetupInv` is the order of the steps: the controller's file is written last, so
whatever it names exists by then (`ProgressInv`), and once it is written no step that creates, cleans up or writes is reached again
(`ControllerInv`). `HandOverInv` says which files have reached their service, `ReportInv` that the scenario is started once.

### Checked by TLC only

Liveness (`Settles`, `Converges`, `Recovers`): fairness and ENABLED are outside TLAPS.

The theorems of one module cannot be cited through an INSTANCE, so that a journal with the engine inside inherits what is proved of
`Policy` is the refinement together with those theorems, not a theorem by itself; and `BridgeProofs` proves of the instantiated engine
the few facts it needs.

## What the model leaves out

* The console's other routes, and `verify`: they read and change nothing. The repository's scripts: build, browser and
  evidence tooling outside the running system.
* The acceptance scenario's steps: one history among those the modules explore. That it runs once is in `Setup`.
* `LocalRuntime`, which starts and stops processes for tests and the local demo: process I/O.
* The observations `reconcile` stores, and the view `destination_sync` that shows the one stored last: nothing decides by
  them. Of two overlapping reconciliations the one that read first may store last, so that row need not be the latest
  reading; the next undisturbed reconciliation replaces it.
* Wording of reasons, audit rows, reporting views, maintenance counters, validation of input shapes
  (the inputs are typed) and of HTTP replies (a malformed one is *unknown*, or ends the dispatch).
* The implementation hash: one version of the program. A change of it is refused, or starts a full build.
* Set-up details: grants, logins (made and dropped with their databases), the registry of `Setup`, and the creation of the
  server's password file, a hazard on the list without a property: it happens in an environment that
  holds nothing yet.
* A delivery run with two keys was tried; two keys meet only in the brand lock and in a reconciliation's plans, and the state space is
  beyond what one run can search. The theorems, which hold for any number of keys, cover what they share.

Two limits are the program's own, documented there, and part of the model: a POST that timed out
may commit after its authority has gone, and only reconciliation repairs it; an intent that used up its
budget is an exception for a person to handle, and `plan` keeps returning it while its authority stands.

## Plan

Done: the modules and runs above, and a theorem for every safety property, action property and refinement they check.

In the order they were written: the journal, the sender and the receiver; the store, the engine and the projection; the promise of
sender and receiver (`Orders`), the destination's lineage, the creation and use of the store file, the bridge with the engine
inside and the operating layer's oracle, the console's check, and the set-up. The proofs followed in the same order.

What could come next:

1. Bounds on progress that are safety properties, as lemmas towards `Settles`: each dispatch ends with fewer attempts or
   checks left, or with the intent settled.
2. An invariant that the members of a publication are the engine's active generation of the same batches, which would
   connect `Bridge` with `Projection`; the program itself makes no such connection.

## Running

```
tlc -workers 2 -config Delivery.cfg MCActivation.tla     # any run of PROJECT.json
tlapm ActivationProofs.tla                                # any *Proofs module
```
