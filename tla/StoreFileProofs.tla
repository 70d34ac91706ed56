---------------------------- MODULE StoreFileProofs ----------------------------
(***************************************************************************)
(* Proofs about the store file, for any number of processes, names, rows   *)
(* and statements of the schema.                                           *)
(***************************************************************************)
EXTENDS StoreFile, TLAPS

-------------------------------------------------------------------------------
(* The inductive invariant *)

BatchRow == [name: Name, body: Body, known: Nat]
BuildRow == [name: Name, body: Body, known: Nat, lineage: Process]

Job == [request: Request, head: Nat, next: Nat, lineage: Process, found: SUBSET Nat]

TypesOK ==
  /\ schema \in 0..Statements
  /\ lineage \in Process \union {Nobody}
  /\ active \in Nat \union {NoRow}
  /\ batches \in Seq(BatchRow) /\ builds \in Seq(BuildRow)
  /\ writer \in Process \union {Nobody}
  /\ pc \in [Process -> {"closed", "script", "active", "open", "writing", "written"}]
  /\ ran \in [Process -> 0..Statements]
  /\ job \in [Process -> Job \union {NoJob}]
  /\ answers \subseteq [request: Request, row: Nat]

\* Row i of a kind is the one asked for.
Serves(i, r) ==
  /\ i \in DOMAIN Rows(r.kind)
  /\ Rows(r.kind)[i].name = r.name
  /\ Rows(r.kind)[i].body = r.body
  /\ Rows(r.kind)[i].known = r.known

\* How far the file is set up for a process at each of its steps.
OpeningOK(w) ==
  /\ pc[w] = "script" => ran[w] <= schema
  /\ pc[w] # "closed" /\ pc[w] # "script" => schema = Statements /\ lineage # Nobody
  /\ pc[w] \in {"open", "writing", "written"} => active # NoRow

\* What a process has read in its transaction still holds: nobody else can write.
ReadingOK(w) ==
  /\ pc[w] = "writing" <=> writer = w
  /\ pc[w] = "writing" =>
       /\ job[w] \in Job
       /\ job[w].head = Len(batches)
       /\ job[w].lineage = lineage
       /\ job[w].next = Len(Rows(job[w].request.kind)) + 1
       /\ job[w].found = {i \in DOMAIN Rows(job[w].request.kind) :
                            Rows(job[w].request.kind)[i].name = job[w].request.name}
  /\ pc[w] = "written" => job[w] \in Job /\ Serves(job[w].next, job[w].request)

NamesDiffer(rows) == \A i, j \in DOMAIN rows : rows[i].name = rows[j].name => i = j

RowsOK ==
  /\ NamesDiffer(batches) /\ NamesDiffer(builds)
  /\ active # NoRow => active = Len(builds)
  /\ Len(builds) > 0 => active # NoRow /\ lineage # Nobody
  /\ \A i \in DOMAIN builds : builds[i].lineage = lineage

FileInv ==
  /\ TypesOK /\ RowsOK
  /\ \A w \in Process : OpeningOK(w) /\ ReadingOK(w)
  /\ \A a \in answers : Serves(a.row, a.request)

-------------------------------------------------------------------------------
LEMMA InitKeeps == Init => FileInv
  BY StoreFileAssumption
  DEF Init, FileInv, TypesOK, RowsOK, NamesDiffer, OpeningOK, ReadingOK, NoRow

\* What appending does to a sequence.
LEMMA Appended ==
  ASSUME NEW S, NEW rows \in Seq(S), NEW row \in S
  PROVE  /\ Append(rows, row) \in Seq(S)
         /\ Len(Append(rows, row)) = Len(rows) + 1
         /\ DOMAIN rows = 1..Len(rows) /\ Len(rows) \in Nat
         /\ DOMAIN Append(rows, row) = 1..(Len(rows) + 1)
         /\ \A i \in 1..Len(rows) : Append(rows, row)[i] = rows[i]
         /\ Append(rows, row)[Len(rows) + 1] = row
  OBVIOUS

\* What a process in a transaction may rely on.
LEMMA AtWork ==
  ASSUME FileInv, NEW w \in Process, pc[w] = "writing"
  PROVE  /\ writer = w
         /\ \A v \in Process : pc[v] = "writing" => v = w
         /\ job[w] \in Job /\ job[w].request \in Request
         /\ job[w].request.kind \in {"batch", "build"}
         /\ job[w].head = Len(batches)
         /\ job[w].lineage = lineage
         /\ job[w].next = Len(Rows(job[w].request.kind)) + 1
         /\ job[w].found = {i \in DOMAIN Rows(job[w].request.kind) :
                              Rows(job[w].request.kind)[i].name = job[w].request.name}
  BY DEF FileInv, ReadingOK, Job, Request

\* A step of one process on its own set-up, which touches no row.
LEMMA SetUpKeeps ==
  ASSUME FileInv, NEW w \in Process, Open(w) \/ Script(w) \/ InsertLineage(w) \/ InsertActive(w)
  PROVE  FileInv'
<1>1. CASE Open(w)
  <2>1. TypesOK'
    BY <1>1, StoreFileAssumption DEF Open, Goto, LockFree, fileVars, FileInv, TypesOK, OpeningOK, ReadingOK, Job, NoRow
  <2>2. RowsOK'
    BY <1>1, StoreFileAssumption DEF Open, Goto, LockFree, fileVars, FileInv, TypesOK, RowsOK, NamesDiffer, OpeningOK, ReadingOK, NoRow
  <2>3. ASSUME NEW v \in Process PROVE OpeningOK(v)'
    BY <1>1, <2>3, StoreFileAssumption DEF Open, Goto, LockFree, fileVars, FileInv, TypesOK, OpeningOK, ReadingOK, NoRow
  <2>4. ASSUME NEW v \in Process PROVE ReadingOK(v)'
    BY <1>1, <2>4, StoreFileAssumption DEF Open, Goto, LockFree, fileVars, FileInv, TypesOK, OpeningOK, ReadingOK, Serves, Rows, NoRow
  <2>5. \A a \in answers' : Serves(a.row, a.request)'
    BY <1>1 DEF Open, Goto, LockFree, fileVars, FileInv, ReadingOK, Serves, Rows
  <2> QED  BY <2>1, <2>2, <2>3, <2>4, <2>5 DEF FileInv
<1>2. CASE Script(w)
  <2>1. TypesOK'
    BY <1>2, StoreFileAssumption DEF Script, LockFree, FileInv, TypesOK, OpeningOK, ReadingOK, Job, NoRow
  <2>2. RowsOK'
    BY <1>2, StoreFileAssumption DEF Script, LockFree, FileInv, TypesOK, RowsOK, NamesDiffer, OpeningOK, ReadingOK, NoRow
  <2>3. ASSUME NEW v \in Process PROVE OpeningOK(v)'
    BY <1>2, <2>3, StoreFileAssumption DEF Script, LockFree, FileInv, TypesOK, OpeningOK, ReadingOK, NoRow
  <2>4. ASSUME NEW v \in Process PROVE ReadingOK(v)'
    BY <1>2, <2>4, StoreFileAssumption DEF Script, LockFree, FileInv, TypesOK, OpeningOK, ReadingOK, Serves, Rows, NoRow
  <2>5. \A a \in answers' : Serves(a.row, a.request)'
    BY <1>2 DEF Script, LockFree, FileInv, ReadingOK, Serves, Rows
  <2> QED  BY <2>1, <2>2, <2>3, <2>4, <2>5 DEF FileInv
<1>3. CASE InsertLineage(w)
  <2>1. TypesOK'
    BY <1>3, StoreFileAssumption DEF InsertLineage, Inserted, LockFree, Goto, FileInv, TypesOK, OpeningOK, ReadingOK, Job, NoRow
  <2>2. RowsOK'
    BY <1>3, StoreFileAssumption DEF InsertLineage, Inserted, LockFree, Goto, FileInv, TypesOK, RowsOK, NamesDiffer, OpeningOK, ReadingOK, NoRow
  <2>3. ASSUME NEW v \in Process PROVE OpeningOK(v)'
    BY <1>3, <2>3, StoreFileAssumption DEF InsertLineage, Inserted, LockFree, Goto, FileInv, TypesOK, OpeningOK, ReadingOK, NoRow
  <2>4. ASSUME NEW v \in Process PROVE ReadingOK(v)'
    BY <1>3, <2>4, StoreFileAssumption DEF InsertLineage, Inserted, LockFree, Goto, FileInv, TypesOK, OpeningOK, ReadingOK, Serves, Rows, NoRow
  <2>5. \A a \in answers' : Serves(a.row, a.request)'
    BY <1>3 DEF InsertLineage, Inserted, LockFree, Goto, FileInv, ReadingOK, Serves, Rows
  <2> QED  BY <2>1, <2>2, <2>3, <2>4, <2>5 DEF FileInv
<1>4. CASE InsertActive(w)
  <2>1. TypesOK'
    BY <1>4, StoreFileAssumption DEF InsertActive, Opens, Inserted, LockFree, Goto, FileInv, TypesOK, OpeningOK, ReadingOK, Job, NoRow
  <2>2. RowsOK'
    BY <1>4, StoreFileAssumption DEF InsertActive, Opens, Inserted, LockFree, Goto, FileInv, TypesOK, RowsOK, NamesDiffer, OpeningOK, ReadingOK, NoRow
  <2>3. ASSUME NEW v \in Process PROVE OpeningOK(v)'
    BY <1>4, <2>3, StoreFileAssumption DEF InsertActive, Opens, Inserted, LockFree, Goto, FileInv, TypesOK, OpeningOK, ReadingOK, NoRow
  <2>4. ASSUME NEW v \in Process PROVE ReadingOK(v)'
    BY <1>4, <2>4, StoreFileAssumption DEF InsertActive, Opens, Inserted, LockFree, Goto, FileInv, TypesOK, OpeningOK, ReadingOK, Serves, Rows, NoRow
  <2>5. \A a \in answers' : Serves(a.row, a.request)'
    BY <1>4 DEF InsertActive, Opens, Inserted, LockFree, Goto, FileInv, ReadingOK, Serves, Rows
  <2> QED  BY <2>1, <2>2, <2>3, <2>4, <2>5 DEF FileInv
<1> QED  BY <1>1, <1>2, <1>3, <1>4

\* A process takes the lock and reads, or ends without a row.
LEMMA ReadingKeeps ==
  ASSUME FileInv, NEW w \in Process,
         (\E request \in Request : Begin(w, request)) \/ Refuse(w) \/ Repeat(w) \/ Answer(w) \/ Die(w)
  PROVE  FileInv'
<1>1. ASSUME NEW request \in Request, Begin(w, request)  PROVE FileInv'
  <2> DEFINE read == [request |-> request, head |-> Len(batches), next |-> Len(Rows(request.kind)) + 1,
                      lineage |-> lineage,
                      found |-> {i \in DOMAIN Rows(request.kind) : Rows(request.kind)[i].name = request.name}]
  <2>1. /\ pc[w] = "open" /\ writer = Nobody /\ writer' = w
        /\ job' = [job EXCEPT ![w] = read] /\ pc' = [pc EXCEPT ![w] = "writing"]
        /\ UNCHANGED <<schema, lineage, active, batches, builds, ran, answers>>
    BY <1>1 DEF Begin, LockFree, Goto, fileVars
  <2>2. read \in Job
    <3>1. Rows(request.kind) \in Seq(BatchRow) \/ Rows(request.kind) \in Seq(BuildRow)
      BY DEF FileInv, TypesOK, Rows
    <3>2. Len(Rows(request.kind)) \in Nat /\ DOMAIN Rows(request.kind) \subseteq Nat
      BY <3>1
    <3>3. lineage \in Process
      BY <2>1 DEF FileInv, TypesOK, OpeningOK
    <3>4. Len(batches) \in Nat
      BY DEF FileInv, TypesOK
    <3> QED  BY <3>2, <3>3, <3>4 DEF Job
  <2> HIDE DEF read
  <2>3. TypesOK'
    BY <2>1, <2>2 DEF FileInv, TypesOK
  <2>4. RowsOK'
    BY <2>1 DEF FileInv, RowsOK, NamesDiffer
  <2>5. ASSUME NEW v \in Process PROVE OpeningOK(v)'
    BY <2>1 DEF FileInv, TypesOK, OpeningOK
  <2>6. ASSUME NEW v \in Process PROVE ReadingOK(v)'
    <3>1. CASE v = w
      <4>1. pc'[v] = "writing" /\ writer' = v /\ job'[v] = read
        BY <2>1, <3>1 DEF FileInv, TypesOK
      <4>2. /\ read.request = request /\ read.head = Len(batches) /\ read.lineage = lineage
            /\ read.next = Len(Rows(request.kind)) + 1
            /\ read.found = {i \in DOMAIN Rows(request.kind) : Rows(request.kind)[i].name = request.name}
        BY DEF read
      <4> QED  BY <2>1, <2>2, <4>1, <4>2 DEF ReadingOK, Rows
    <3>2. CASE v # w
      BY <2>1, <3>2, StoreFileAssumption DEF FileInv, TypesOK, ReadingOK, Serves, Rows
    <3> QED  BY <3>1, <3>2
  <2>7. \A a \in answers' : Serves(a.row, a.request)'
    BY <2>1 DEF FileInv, Serves, Rows
  <2> QED  BY <2>3, <2>4, <2>5, <2>6, <2>7 DEF FileInv
<1>2. CASE Refuse(w)
  <2>1. TypesOK'
    BY <1>2, StoreFileAssumption DEF Refuse, Release, Goto, fileVars, Job, NoJob, FileInv, TypesOK, OpeningOK, ReadingOK, Job, Rows, NoRow
  <2>2. RowsOK'
    BY <1>2, StoreFileAssumption DEF Refuse, Release, Goto, fileVars, Job, NoJob, FileInv, TypesOK, RowsOK, NamesDiffer, OpeningOK, ReadingOK, NoRow
  <2>3. ASSUME NEW v \in Process PROVE OpeningOK(v)'
    BY <1>2, <2>3, StoreFileAssumption DEF Refuse, Release, Goto, fileVars, Job, NoJob, FileInv, TypesOK, OpeningOK, ReadingOK, NoRow
  <2>4. ASSUME NEW v \in Process PROVE ReadingOK(v)'
    BY <1>2, <2>4, StoreFileAssumption DEF Refuse, Release, Goto, fileVars, Job, NoJob, FileInv, TypesOK, OpeningOK, ReadingOK, Serves, Rows, NoRow
  <2>5. \A a \in answers' : Serves(a.row, a.request)'
    BY <1>2 DEF Refuse, Release, Goto, fileVars, Job, NoJob, FileInv, ReadingOK, Serves, Rows
  <2> QED  BY <2>1, <2>2, <2>3, <2>4, <2>5 DEF FileInv
<1>3. CASE Repeat(w)
  <2>1. pc[w] = "writing"
    BY <1>3 DEF Repeat
  <2>2. PICK i \in job[w].found :
          /\ Rows(job[w].request.kind)[i].body = job[w].request.body
          /\ Rows(job[w].request.kind)[i].known = job[w].request.known
          /\ job' = [job EXCEPT ![w].next = i]
    BY <1>3 DEF Repeat
  <2> DEFINE done == [job[w] EXCEPT !.next = i]
  <2>3. /\ job' = [job EXCEPT ![w] = done] /\ writer' = Nobody /\ pc' = [pc EXCEPT ![w] = "written"]
        /\ UNCHANGED <<schema, lineage, active, batches, builds, ran, answers>>
    BY <1>3, <2>1, <2>2, AtWork DEF Repeat, Release, Goto, fileVars
  <2>4. Serves(i, job[w].request)
    BY <2>1, <2>2, AtWork DEF Serves
  <2>5. done \in Job /\ done.next = i /\ done.request = job[w].request
    BY <2>1, <2>2, AtWork DEF Job
  <2> HIDE DEF done
  <2>6. TypesOK'
    BY <2>3, <2>5 DEF FileInv, TypesOK
  <2>7. RowsOK'
    BY <2>3 DEF FileInv, RowsOK, NamesDiffer
  <2>8. ASSUME NEW v \in Process PROVE OpeningOK(v)'
    BY <2>1, <2>3 DEF FileInv, TypesOK, OpeningOK
  <2>9. ASSUME NEW v \in Process PROVE ReadingOK(v)'
    <3>1. CASE v = w
      BY <2>3, <2>4, <2>5, <3>1, StoreFileAssumption DEF FileInv, TypesOK, ReadingOK, Serves, Rows
    <3>2. CASE v # w
      BY <2>1, <2>3, <3>2, AtWork, StoreFileAssumption DEF FileInv, TypesOK, ReadingOK, Serves, Rows
    <3> QED  BY <3>1, <3>2
  <2>10. \A a \in answers' : Serves(a.row, a.request)'
    BY <2>3 DEF FileInv, Serves, Rows
  <2> QED  BY <2>6, <2>7, <2>8, <2>9, <2>10 DEF FileInv
<1>4. CASE Answer(w)
  <2>1. TypesOK'
    BY <1>4, StoreFileAssumption DEF Answer, Goto, fileVars, Job, NoJob, FileInv, TypesOK, OpeningOK, ReadingOK, Job, Rows, NoRow
  <2>2. RowsOK'
    BY <1>4, StoreFileAssumption DEF Answer, Goto, fileVars, Job, NoJob, FileInv, TypesOK, RowsOK, NamesDiffer, OpeningOK, ReadingOK, NoRow
  <2>3. ASSUME NEW v \in Process PROVE OpeningOK(v)'
    BY <1>4, <2>3, StoreFileAssumption DEF Answer, Goto, fileVars, Job, NoJob, FileInv, TypesOK, OpeningOK, ReadingOK, NoRow
  <2>4. ASSUME NEW v \in Process PROVE ReadingOK(v)'
    BY <1>4, <2>4, StoreFileAssumption DEF Answer, Goto, fileVars, Job, NoJob, FileInv, TypesOK, OpeningOK, ReadingOK, Serves, Rows, NoRow
  <2>5. \A a \in answers' : Serves(a.row, a.request)'
    BY <1>4 DEF Answer, Goto, fileVars, Job, NoJob, FileInv, ReadingOK, Serves, Rows
  <2> QED  BY <2>1, <2>2, <2>3, <2>4, <2>5 DEF FileInv
<1>5. CASE Die(w)
  <2>1. TypesOK'
    BY <1>5, StoreFileAssumption DEF Die, Release, Goto, fileVars, Job, NoJob, FileInv, TypesOK, OpeningOK, ReadingOK, Job, Rows, NoRow
  <2>2. RowsOK'
    BY <1>5, StoreFileAssumption DEF Die, Release, Goto, fileVars, Job, NoJob, FileInv, TypesOK, RowsOK, NamesDiffer, OpeningOK, ReadingOK, NoRow
  <2>3. ASSUME NEW v \in Process PROVE OpeningOK(v)'
    BY <1>5, <2>3, StoreFileAssumption DEF Die, Release, Goto, fileVars, Job, NoJob, FileInv, TypesOK, OpeningOK, ReadingOK, NoRow
  <2>4. ASSUME NEW v \in Process PROVE ReadingOK(v)'
    BY <1>5, <2>4, StoreFileAssumption DEF Die, Release, Goto, fileVars, Job, NoJob, FileInv, TypesOK, OpeningOK, ReadingOK, Serves, Rows, NoRow
  <2>5. \A a \in answers' : Serves(a.row, a.request)'
    BY <1>5 DEF Die, Release, Goto, fileVars, Job, NoJob, FileInv, ReadingOK, Serves, Rows
  <2> QED  BY <2>1, <2>2, <2>3, <2>4, <2>5 DEF FileInv
<1> QED  BY <1>1, <1>2, <1>3, <1>4, <1>5

\* A row is added, by the only process that is in a transaction.
LEMMA WriteKeeps ==
  ASSUME FileInv, NEW w \in Process, Write(w)
  PROVE  FileInv'
<1>0. pc[w] = "writing" /\ job[w].found = {}
  BY DEF Write
<1>1. CASE job[w].request.kind = "batch"
  <2> DEFINE row == [name |-> job[w].request.name, body |-> job[w].request.body,
                     known |-> job[w].request.known]
  <2>1. /\ batches' = Append(batches, row)
        /\ UNCHANGED <<schema, lineage, builds, active, ran, job, answers>>
        /\ writer' = Nobody /\ pc' = [pc EXCEPT ![w] = "written"]
    BY <1>1, <1>0, AtWork DEF Write, Release, Goto, Rows
  <2>2. row \in BatchRow /\ row.name = job[w].request.name /\ row.body = job[w].request.body
        /\ row.known = job[w].request.known
    BY <1>0, AtWork DEF Job, Request, BatchRow
  <2> HIDE DEF row
  <2>3. batches \in Seq(BatchRow)
    BY DEF FileInv, TypesOK
  <2>4. /\ batches' \in Seq(BatchRow) /\ Len(batches') = Len(batches) + 1 /\ Len(batches) \in Nat
        /\ DOMAIN batches = 1..Len(batches) /\ DOMAIN batches' = 1..(Len(batches) + 1)
        /\ \A i \in 1..Len(batches) : batches'[i] = batches[i]
        /\ batches'[Len(batches) + 1] = row
    BY <2>1, <2>2, <2>3, Appended
  <2>5. \A i \in DOMAIN batches : batches[i].name # row.name
    BY <1>0, <1>1, <2>2, AtWork DEF Rows
  <2>6. TypesOK'
    BY <2>1, <2>4 DEF FileInv, TypesOK
  <2>7. RowsOK'
    <3>1. NamesDiffer(batches)'
      BY <2>4, <2>5 DEF FileInv, RowsOK, NamesDiffer
    <3> QED  BY <1>0, <2>1, <2>2, <2>4, <3>1 DEF FileInv, RowsOK, NamesDiffer, OpeningOK, NoRow
  <2>8. ASSUME NEW v \in Process PROVE OpeningOK(v)'
    BY <1>0, <2>1, <2>4 DEF FileInv, TypesOK, OpeningOK, NoRow
  <2>9. \A i, r : Serves(i, r) => Serves(i, r)'
    BY <2>1, <2>4 DEF Serves, Rows
  <2>10. Serves(job[w].next, job[w].request)'
    BY <1>0, <1>1, <2>1, <2>2, <2>4, AtWork DEF Serves, Rows
  <2>11. ASSUME NEW v \in Process PROVE ReadingOK(v)'
    <3>1. pc'[v] # "writing" /\ writer' # v
      BY <1>0, <2>1, AtWork, StoreFileAssumption DEF FileInv, TypesOK
    <3>2. pc'[v] = "written" => job[v] \in Job /\ Serves(job[v].next, job[v].request)'
      <4>1. CASE v = w
        BY <1>0, <2>10, <4>1, AtWork
      <4>2. CASE v # w
        BY <2>1, <2>9, <4>2 DEF FileInv, TypesOK, ReadingOK, Serves, Rows
      <4> QED  BY <4>1, <4>2
    <3> QED  BY <2>1, <3>1, <3>2 DEF ReadingOK, Serves, Rows
  <2>12. \A a \in answers' : Serves(a.row, a.request)'
    BY <2>1, <2>9 DEF FileInv, Serves, Rows
  <2> QED  BY <2>6, <2>7, <2>8, <2>11, <2>12 DEF FileInv
<1>2. CASE job[w].request.kind = "build"
  <2> DEFINE row == [name |-> job[w].request.name, body |-> job[w].request.body,
                     known |-> job[w].request.known, lineage |-> job[w].lineage]
  <2>1. /\ builds' = Append(builds, row) /\ active' = Len(builds) + 1
        /\ UNCHANGED <<schema, lineage, batches, ran, job, answers>>
        /\ writer' = Nobody /\ pc' = [pc EXCEPT ![w] = "written"]
    BY <1>2, <1>0, AtWork DEF Write, Release, Goto, Rows
  <2>2. row \in BuildRow /\ row.name = job[w].request.name /\ row.body = job[w].request.body
        /\ row.known = job[w].request.known /\ row.lineage = lineage
    BY <1>0, AtWork DEF Job, Request, BuildRow
  <2> HIDE DEF row
  <2>3. builds \in Seq(BuildRow)
    BY DEF FileInv, TypesOK
  <2>4. /\ builds' \in Seq(BuildRow) /\ Len(builds') = Len(builds) + 1 /\ Len(builds) \in Nat
        /\ DOMAIN builds = 1..Len(builds) /\ DOMAIN builds' = 1..(Len(builds) + 1)
        /\ \A i \in 1..Len(builds) : builds'[i] = builds[i]
        /\ builds'[Len(builds) + 1] = row
    BY <2>1, <2>2, <2>3, Appended
  <2>5. \A i \in DOMAIN builds : builds[i].name # row.name
    BY <1>0, <1>2, <2>2, AtWork DEF Rows
  <2>6. TypesOK'
    BY <2>1, <2>4 DEF FileInv, TypesOK
  <2>7. RowsOK'
    <3>1. NamesDiffer(builds)'
      BY <2>4, <2>5 DEF FileInv, RowsOK, NamesDiffer
    <3> QED  BY <1>0, <2>1, <2>2, <2>4, <3>1 DEF FileInv, RowsOK, NamesDiffer, OpeningOK, NoRow
  <2>8. ASSUME NEW v \in Process PROVE OpeningOK(v)'
    BY <1>0, <2>1, <2>4 DEF FileInv, TypesOK, OpeningOK, NoRow
  <2>9. \A i, r : Serves(i, r) => Serves(i, r)'
    BY <2>1, <2>4 DEF Serves, Rows
  <2>10. Serves(job[w].next, job[w].request)'
    BY <1>0, <1>2, <2>1, <2>2, <2>4, AtWork DEF Serves, Rows
  <2>11. ASSUME NEW v \in Process PROVE ReadingOK(v)'
    <3>1. pc'[v] # "writing" /\ writer' # v
      BY <1>0, <2>1, AtWork, StoreFileAssumption DEF FileInv, TypesOK
    <3>2. pc'[v] = "written" => job[v] \in Job /\ Serves(job[v].next, job[v].request)'
      <4>1. CASE v = w
        BY <1>0, <2>10, <4>1, AtWork
      <4>2. CASE v # w
        BY <2>1, <2>9, <4>2 DEF FileInv, TypesOK, ReadingOK, Serves, Rows
      <4> QED  BY <4>1, <4>2
    <3> QED  BY <2>1, <3>1, <3>2 DEF ReadingOK, Serves, Rows
  <2>12. \A a \in answers' : Serves(a.row, a.request)'
    BY <2>1, <2>9 DEF FileInv, Serves, Rows
  <2> QED  BY <2>6, <2>7, <2>8, <2>11, <2>12 DEF FileInv
<1> QED  BY <1>0, <1>1, <1>2, AtWork

\* The disjuncts of Next.
LEMMA Steps ==
  ASSUME Next
  PROVE  \E w \in Process :
           \/ Open(w) \/ Script(w) \/ InsertLineage(w) \/ InsertActive(w)
           \/ \E request \in Request : Begin(w, request)
           \/ Refuse(w) \/ Repeat(w) \/ Write(w) \/ Answer(w) \/ Die(w)
<1>1. \A kind \in {"batch", "build"}, name \in Name, body \in Body, known \in 0..MaxRows :
        [kind |-> kind, name |-> name, body |-> body, known |-> known] \in Request
  BY StoreFileAssumption DEF Request
<1> QED  BY <1>1, Zenon DEF Next

LEMMA StepKeeps == FileInv /\ [Next]_vars => FileInv'
<1> SUFFICES ASSUME FileInv, [Next]_vars  PROVE FileInv'
  OBVIOUS
<1>1. CASE UNCHANGED vars
  BY <1>1 DEF vars, fileVars, FileInv, TypesOK, RowsOK, NamesDiffer, OpeningOK, ReadingOK, Serves, Rows
<1>2. CASE Next
  BY <1>2, Steps, SetUpKeeps, ReadingKeeps, WriteKeeps
<1> QED  BY <1>1, <1>2

LEMMA FileInvariance == Spec => []FileInv
  BY InitKeeps, StepKeeps, PTL DEF Spec

-------------------------------------------------------------------------------
(* What the store's file promises *)

\* Whoever has opened the file has the whole of it, for any number of processes that
\* set it up together and die over it.
THEOREM SetUpIsComplete == Spec => []OpenedIsComplete
<1>1. FileInv => OpenedIsComplete
  BY DEF FileInv, OpeningOK, OpenedIsComplete
<1> QED  BY <1>1, FileInvariance, PTL

\* Opening never disturbs the lineage or the newest generation.
THEOREM SetUpKeepsTheFile == Spec => []OpeningKeeps
<1>1. FileInv => OpeningKeeps
  BY DEF FileInv, RowsOK, OpeningKeeps
<1> QED  BY <1>1, FileInvariance, PTL

\* A name has one row and every caller that was answered got it.
THEOREM NamesHaveOneAnswer == Spec => []OneAnswerPerName
<1>1. FileInv => OneAnswerPerName
  BY DEF FileInv, RowsOK, NamesDiffer, Serves, Rows, OneAnswerPerName
<1> QED  BY <1>1, FileInvariance, PTL

\* A build is committed on every batch there is: what a process has read in its
\* transaction (ReadingOK) still stands when it writes.
THEOREM BuildsAreUpToDate == Spec => NothingSlipsIn
<1>1. FileInv /\ [Next]_vars =>
        [Len(builds') > Len(builds) => builds'[Len(builds')].known = Len(batches)]_vars
  <2> SUFFICES ASSUME FileInv, Next, Len(builds') > Len(builds)
               PROVE  builds'[Len(builds')].known = Len(batches)
    OBVIOUS
  <2>1. builds \in Seq(BuildRow)
    BY DEF FileInv, TypesOK
  <2>2. PICK w \in Process : Write(w)
    BY <2>1, Steps
    DEF Open, Script, InsertLineage, InsertActive, Begin, Refuse, Repeat, Answer, Die, fileVars
  <2>3. job[w].head = Len(batches) /\ job[w] \in Job
    BY <2>2, AtWork DEF Write
  <2>4. job[w].request.known = job[w].head
        /\ builds' = Append(builds, [name |-> job[w].request.name, body |-> job[w].request.body,
                                     known |-> job[w].request.known, lineage |-> job[w].lineage])
    BY <2>1, <2>2 DEF Write
  <2> QED  BY <2>1, <2>3, <2>4 DEF Job, BuildRow, Request
<1> QED  BY <1>1, FileInvariance, PTL DEF Spec, NothingSlipsIn
===============================================================================
