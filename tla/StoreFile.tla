------------------------------- MODULE StoreFile -------------------------------
(***************************************************************************)
(* The SQLite file behind the engine's store, used by several processes:   *)
(* opening it (Store.__init__), the write transactions of ingest,          *)
(* ingest_coverage and build, and the death of a process at any point.     *)
(* What the transactions compute is in Store and Engine, where each is one *)
(* action; here it is what makes them one.                                 *)
(*                                                                         *)
(* executescript commits the transaction that Store.__init__ has begun, so *)
(* opening a file is a row of statements that each commit by themselves.   *)
(* A lock wait that times out ends the process as its death does.          *)
(***************************************************************************)
EXTENDS Integers, Sequences, FiniteSets

CONSTANTS
  Process,      \* processes that open the file
  Nobody,       \* no process
  Name,         \* batch identifiers and run keys
  Body,         \* contents of batches, parameters of builds
  Statements,   \* statements of schema.sql
  MaxRows       \* bound on batches, and on generations

ASSUME StoreFileAssumption ==
  /\ Nobody \notin Process
  /\ {Statements, MaxRows} \subseteq Nat

VARIABLES
  schema,     \* how many statements of schema.sql have taken effect
  lineage,    \* meta's lineage: the process whose random value it is, Nobody for no row
  active,     \* meta's active generation, NoRow for no row
  batches,    \* the rows of batches, in sequence
  builds,     \* the rows of generations, in sequence
  writer,     \* the process in a write transaction
  pc,         \* per process, where it stands
  ran,        \* per process, how many statements of the script it has run
  job,        \* per process, the request it works on and what it has read for it
  answers     \* history: the requests answered, with the sequence returned

fileVars == <<schema, lineage, active, batches, builds>>
vars == <<fileVars, writer, pc, ran, job, answers>>

NoRow == -1
Request == [kind: {"batch", "build"}, name: Name, body: Body, known: Nat]
NoJob == [kind |-> "none"]

Init ==
  /\ schema = 0 /\ lineage = Nobody /\ active = NoRow
  /\ batches = <<>> /\ builds = <<>>
  /\ writer = Nobody
  /\ pc = [w \in Process |-> "closed"]
  /\ ran = [w \in Process |-> 0]
  /\ job = [w \in Process |-> NoJob]
  /\ answers = {}

-------------------------------------------------------------------------------
(* The file's lock, and INSERT OR IGNORE. *)

\* Mutants: BEGIN instead of BEGIN IMMEDIATE; INSERT OR REPLACE.
LockFreeAlways == TRUE
InsertedAnyway(row, none, value) == value

\* Whoever writes waits for the process that is in a write transaction.
LockFree == writer = Nobody

Inserted(row, none, value) == IF row = none THEN value ELSE row

-------------------------------------------------------------------------------
(* Store.__init__ *)

Goto(w, phase) == pc' = [pc EXCEPT ![w] = phase]

\* BEGIN IMMEDIATE, and the commit executescript starts with.
Open(w) ==
  /\ pc[w] = "closed" /\ LockFree
  /\ ran' = [ran EXCEPT ![w] = 0]
  /\ Goto(w, "script")
  /\ UNCHANGED <<fileVars, writer, job, answers>>

\* The next CREATE ... IF NOT EXISTS.
Script(w) ==
  /\ pc[w] = "script" /\ ran[w] < Statements /\ LockFree
  /\ ran' = [ran EXCEPT ![w] = @ + 1]
  /\ schema' = IF ran[w] = schema THEN schema + 1 ELSE schema
  /\ UNCHANGED <<lineage, active, batches, builds, writer, pc, job, answers>>

InsertLineage(w) ==
  /\ pc[w] = "script" /\ ran[w] = Statements /\ LockFree
  /\ lineage' = Inserted(lineage, Nobody, w)
  /\ Goto(w, "active")
  /\ UNCHANGED <<schema, active, batches, builds, writer, ran, job, answers>>

\* Mutant: a file that has its lineage is taken to be set up.
OpensWithLineage(w) == pc[w] = "active" \/ (pc[w] = "script" /\ lineage # Nobody)

Opens(w) == pc[w] = "active"

InsertActive(w) ==
  /\ Opens(w) /\ LockFree
  /\ active' = IF pc[w] = "active" THEN Inserted(active, NoRow, 0) ELSE active
  /\ Goto(w, "open")
  /\ UNCHANGED <<schema, lineage, batches, builds, writer, ran, job, answers>>

-------------------------------------------------------------------------------
(* A write transaction: what is asked for is looked up, then written or not. *)

Rows(kind) == IF kind = "batch" THEN batches ELSE builds

\* BEGIN IMMEDIATE and the reads.
Begin(w, request) ==
  /\ pc[w] = "open" /\ LockFree
  /\ writer' = w
  /\ job' = [job EXCEPT ![w] =
       [request |-> request, head |-> Len(batches), next |-> Len(Rows(request.kind)) + 1,
        lineage |-> lineage,
        found |-> {i \in DOMAIN Rows(request.kind) : Rows(request.kind)[i].name = request.name}]]
  /\ Goto(w, "writing")
  /\ UNCHANGED <<fileVars, ran, answers>>

\* The transaction ends and the process goes on.
Release(w) == writer' = (IF writer = w THEN Nobody ELSE writer)

\* A build of knowledge not admitted, or older than what is; a name used for
\* something else: refused and rolled back.
Refuse(w) ==
  /\ pc[w] = "writing"
  /\ LET r == job[w].request
     IN  \/ r.kind = "build" /\ r.known > job[w].head
         \/ r.kind = "build" /\ r.known # job[w].head /\ job[w].found = {}
         \/ \E i \in job[w].found :
              Rows(r.kind)[i].body # r.body \/ Rows(r.kind)[i].known # r.known
  /\ Release(w)
  /\ job' = [job EXCEPT ![w] = NoJob]
  /\ Goto(w, "open")
  /\ UNCHANGED <<fileVars, ran, answers>>

\* The same request again: the stored row is the answer, and nothing is written.
Repeat(w) ==
  /\ pc[w] = "writing"
  /\ LET r == job[w].request
     IN  \E i \in job[w].found :
           /\ Rows(r.kind)[i].body = r.body /\ Rows(r.kind)[i].known = r.known
           /\ r.kind = "build" => r.known <= job[w].head
           /\ job' = [job EXCEPT ![w].next = i]
  /\ Release(w)
  /\ Goto(w, "written")
  /\ UNCHANGED <<fileVars, ran, answers>>

\* The row is inserted, a current build made active, and the transaction committed.
Write(w) ==
  /\ pc[w] = "writing" /\ job[w].found = {}
  /\ LET r == job[w].request
     IN  \/ /\ r.kind = "batch"
            /\ batches' = Append(batches, [name |-> r.name, body |-> r.body, known |-> r.known])
            /\ UNCHANGED <<builds, active>>
         \/ /\ r.kind = "build" /\ r.known = job[w].head
            /\ builds' = Append(builds, [name |-> r.name, body |-> r.body, known |-> r.known,
                                         lineage |-> job[w].lineage])
            /\ active' = job[w].next
            /\ UNCHANGED batches
  /\ Release(w)
  /\ Goto(w, "written")
  /\ UNCHANGED <<schema, lineage, ran, job, answers>>

\* The caller gets its answer.
Answer(w) ==
  /\ pc[w] = "written"
  /\ answers' = answers \union {[request |-> job[w].request, row |-> job[w].next]}
  /\ job' = [job EXCEPT ![w] = NoJob]
  /\ Goto(w, "open")
  /\ UNCHANGED <<fileVars, writer, ran>>

\* The process dies: what it has not committed is gone, and its lock.
Die(w) ==
  /\ pc[w] # "closed"
  /\ Release(w)
  /\ job' = [job EXCEPT ![w] = NoJob]
  /\ Goto(w, "closed")
  /\ UNCHANGED <<fileVars, ran, answers>>

\* Batches have no knowledge to be asked for; the bounds end ingestion and builds.
Asked(request) ==
  /\ request.kind = "batch" => request.known = 0
  /\ Len(Rows(request.kind)) < MaxRows
     \/ \E i \in DOMAIN Rows(request.kind) : Rows(request.kind)[i].name = request.name

Next ==
  \E w \in Process :
    \/ Open(w) \/ Script(w) \/ InsertLineage(w) \/ InsertActive(w)
    \/ \E kind \in {"batch", "build"}, name \in Name, body \in Body, known \in 0..MaxRows :
         LET request == [kind |-> kind, name |-> name, body |-> body, known |-> known]
         IN  Asked(request) /\ Begin(w, request)
    \/ Refuse(w) \/ Repeat(w) \/ Write(w) \/ Answer(w) \/ Die(w)

Spec == Init /\ [][Next]_vars

-------------------------------------------------------------------------------
(* Properties *)

\* A process that has opened the file finds it complete, whoever set it up, however
\* far, and whoever died over it (store.py:34-37).
OpenedIsComplete ==
  \A w \in Process : pc[w] \in {"open", "writing", "written"} =>
    schema = Statements /\ lineage # Nobody /\ active # NoRow

\* Opening a file again, at any moment of others' work, keeps what it holds: every
\* generation carries the lineage the file has, and the newest one is active, which a
\* retried build does not take back either (store.py:36-37, engine.py:44-48,76,97).
OpeningKeeps ==
  /\ \A i \in DOMAIN builds : builds[i].lineage = lineage
  /\ active # NoRow => active = Len(builds)

\* All callers that used one name for the same request got the same answer, and it
\* is the one row of that name, also after the process of the first died before it
\* answered (docs/validation.md:24, store.py:50-54, engine.py:44-48).
OneAnswerPerName ==
  /\ \A kind \in {"batch", "build"} : \A i, j \in DOMAIN Rows(kind) :
       Rows(kind)[i].name = Rows(kind)[j].name => i = j
  /\ \A a \in answers :
       /\ a.row \in DOMAIN Rows(a.request.kind)
       /\ LET row == Rows(a.request.kind)[a.row]
          IN  row.name = a.request.name /\ row.body = a.request.body /\ row.known = a.request.known

\* A build is committed on all knowledge there is then: no batch slips in between its
\* reading of the head and its commit (engine.py:37-38,52).
NothingSlipsIn ==
  [][Len(builds') > Len(builds) => builds'[Len(builds')].known = Len(batches)]_vars
===============================================================================
