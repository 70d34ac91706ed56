--------------------------------- MODULE Setup ---------------------------------
(***************************************************************************)
(* The set-up of the operating demonstration: initialize (runtime.py)      *)
(* makes two databases and the private configuration files,                *)
(* compose_setup.py hands each service its own, and execute (demo.py) runs *)
(* the scripted scenario once and records its report.  The volumes outlive *)
(* the process, which may die between any two steps and is started again.  *)
(*                                                                         *)
(* A file holds the number of the attempt that wrote it.  Writing empties  *)
(* it first, so a death in between leaves it torn.  A database stands for  *)
(* its login, schema and grants too, made and dropped along with it.       *)
(***************************************************************************)
EXTENDS Integers, Sequences

CONSTANTS MaxDeaths, MaxAttempts   \* bounds on deaths, and on attempts that may fail

ASSUME SetupAssumption == {MaxDeaths, MaxAttempts} \subseteq Nat

VARIABLES
  pc,          \* the step the setup process is at; "idle" when none runs
  at,          \* which database or file of that step
  half,        \* that file has been emptied, and not yet written
  attempt,     \* tags drawn so far
  created,     \* the databases this process has noted as its own
  folder,      \* the controller's volume
  service,     \* the volumes of receiver and console
  databases,   \* existing databases, each with its attempt
  seeds,       \* the attempts the scenario was started on the databases of, in order
  reports,     \* those with a recorded report
  deaths

control == <<pc, at, half>>
own     == <<attempt, created, deaths>>
files   == <<folder, service>>
server  == <<databases, seeds, reports>>
vars    == <<control, own, files, server>>

Absent == 0
Torn == -1

Kinds == <<"ops", "receiver">>
Services == <<"receiver", "console">>

\* Mutant: the controller's file is written first.
ControllerFirst == <<"controller", "receiver", "console">>

\* The order private files are written in; the registry, which nobody reads here, is
\* left out.
PrivateFiles == <<"receiver", "console", "controller">>

Init ==
  /\ pc = "idle" /\ at = 1 /\ half = FALSE
  /\ attempt = 0 /\ created = {} /\ deaths = 0
  /\ folder = [f \in {"receiver", "console", "controller"} |-> Absent]
  /\ service = [s \in {"receiver", "console"} |-> Absent]
  /\ databases = {} /\ seeds = <<>> /\ reports = {}

Goto(step) == pc' = step /\ at' = 1 /\ half' = FALSE

\* On to the next of this step's list, or to the step after it.
Onward(last, next) ==
  IF at = last THEN Goto(next) ELSE at' = at + 1 /\ half' = FALSE /\ UNCHANGED pc

-------------------------------------------------------------------------------
(* initialize *)

\* Mutant: the environment counts as set up when the receiver's file is there.
ConfiguredByReceiver == folder["receiver"] # Absent

Configured == folder["controller"] # Absent

Begin ==
  /\ pc = "idle" /\ ~Configured /\ Goto("create")
  /\ attempt' = attempt + 1 /\ created' = {}
  /\ UNCHANGED <<deaths, files, server>>

\* An environment that is set up is taken as it is.
Resume ==
  /\ pc = "idle" /\ Configured /\ folder["controller"] # Torn /\ Goto("move")
  /\ UNCHANGED <<own, files, server>>

\* CREATE DATABASE; unanswered, the reply is lost and the database not noted.
CreateDatabase(answered) ==
  /\ pc = "create"
  /\ LET new == <<attempt, Kinds[at]>>
     IN  /\ databases' = databases \union {new}
         /\ created' = IF answered THEN created \union {new} ELSE created
  /\ IF answered THEN Onward(2, "write") /\ UNCHANGED deaths
     ELSE deaths < MaxDeaths /\ deaths' = deaths + 1 /\ Goto("cleanup")
  /\ UNCHANGED <<attempt, files, seeds, reports>>

\* A statement raises, at the latest when schemas and grants are made: what is noted is
\* dropped, and the process ends.
Fail ==
  /\ pc = "create" \/ (pc = "write" /\ at = 1 /\ ~half)
  /\ attempt < MaxAttempts /\ Goto("cleanup")
  /\ UNCHANGED <<own, files, server>>

Cleanup ==
  /\ pc = "cleanup" /\ Goto("idle")
  /\ databases' = databases \ created
  /\ UNCHANGED <<own, files, seeds, reports>>

\* private_json, in two steps: the file is emptied, then written.
WritePrivate ==
  /\ pc = "write"
  /\ folder' = [folder EXCEPT ![PrivateFiles[at]] = IF half THEN attempt ELSE Torn]
  /\ IF half THEN Onward(3, "move") ELSE half' = TRUE /\ UNCHANGED <<pc, at>>
  /\ UNCHANGED <<own, service, server>>

-------------------------------------------------------------------------------
(* compose_setup *)

\* Mutant: a configuration is handed over only if the service has none.
PendingOnce(s) == service[s] = Absent

\* The file still lies in the controller's volume.
Pending(s) == folder[s] # Absent

\* A service's configuration is copied, in two steps, and then unlinked.
HandOver ==
  /\ pc = "move" /\ Pending(Services[at]) /\ folder[Services[at]] # Torn
  /\ service' = [service EXCEPT ![Services[at]] = IF half THEN folder[Services[at]] ELSE Torn]
  /\ IF half THEN pc' = "unlink" /\ UNCHANGED <<at, half>>
     ELSE half' = TRUE /\ UNCHANGED <<pc, at>>
  /\ UNCHANGED <<own, folder, server>>

Unlink ==
  /\ pc = "unlink"
  /\ folder' = [folder EXCEPT ![Services[at]] = Absent]
  /\ IF at = 2 THEN Goto("demo") ELSE pc' = "move" /\ at' = at + 1 /\ half' = FALSE
  /\ UNCHANGED <<own, service, server>>

HandedOver ==
  /\ pc = "move" /\ ~Pending(Services[at]) /\ service[Services[at]] # Absent
  /\ Onward(2, "demo")
  /\ UNCHANGED <<own, files, server>>

-------------------------------------------------------------------------------
(* execute, with the configurations of controller and receiver *)

Readable == folder["controller"] > 0 /\ service["receiver"] > 0

\* Mutant: the scenario is started on whatever it finds.
FreshAlways == TRUE

\* seed finds no brand.
Fresh == \A i \in DOMAIN seeds : seeds[i] # folder["controller"]

Execute ==
  /\ pc = "demo" /\ Readable
  /\ \/ folder["controller"] \in reports /\ Goto("up") /\ UNCHANGED seeds
     \/ /\ folder["controller"] \notin reports /\ Fresh /\ Goto("scenario")
        /\ seeds' = Append(seeds, folder["controller"])
  /\ UNCHANGED <<own, files, databases, reports>>

RecordReport ==
  /\ pc = "scenario" /\ Goto("up")
  /\ reports' = reports \union {folder["controller"]}
  /\ UNCHANGED <<own, files, databases, seeds>>

-------------------------------------------------------------------------------
\* What makes a step raise: a configuration that is torn or missing, a scenario that
\* was interrupted.
Raises ==
  \/ pc = "idle" /\ folder["controller"] = Torn
  \/ pc = "move" /\ Pending(Services[at]) /\ folder[Services[at]] = Torn
  \/ pc = "move" /\ ~Pending(Services[at]) /\ service[Services[at]] = Absent
  \/ pc = "demo" /\ ~Readable
  \/ pc = "demo" /\ folder["controller"] \notin reports /\ ~Fresh

Refuse == Raises /\ Goto("idle") /\ UNCHANGED <<own, files, server>>

\* The services are stopped; the volumes stay.
Down == pc = "up" /\ Goto("idle") /\ UNCHANGED <<own, files, server>>

Die ==
  /\ pc \notin {"idle", "up"} /\ deaths < MaxDeaths /\ Goto("idle")
  /\ deaths' = deaths + 1
  /\ UNCHANGED <<attempt, created, files, server>>

Proceed ==
  \/ Begin \/ Resume \/ CreateDatabase(TRUE) \/ Cleanup \/ WritePrivate
  \/ HandOver \/ Unlink \/ HandedOver \/ Execute \/ RecordReport \/ Refuse

Next == Proceed \/ CreateDatabase(FALSE) \/ Fail \/ Down \/ Die

\* Somebody keeps starting the set-up, and each of its steps ends.
Spec == Init /\ [][Next]_vars /\ WF_vars(Proceed)

-------------------------------------------------------------------------------
(* Properties *)

\* Once the controller's file is written, the environment is whole or can still be
\* made whole: its databases exist, and each service has, or is about to be given, the
\* configuration of the same attempt; when services run, they have it
\* (runtime.py:93-98, compose_setup.py:28-36).
ServicesAgree ==
  LET c == folder["controller"]
  IN  /\ c > 0 => /\ \A k \in {"ops", "receiver"} : <<c, k>> \in databases
                  /\ \A s \in DOMAIN service : c \in {folder[s], service[s]} /\ folder[s] # Torn
      /\ pc = "up" => \A s \in DOMAIN service : service[s] = c

\* A restart preserves what was set up: the configuration is never replaced, its
\* databases are never dropped, and a recorded report stays (compose_setup.py:1).
KeptOnRestart ==
  [][LET c == folder["controller"]
     IN  c > 0 => /\ folder'["controller"] = c
                  /\ {d \in databases : d[1] = c} \subseteq databases'
                  /\ reports \subseteq reports']_vars

\* A recorded report is that of a scenario that was started once, on databases that
\* were fresh: after an interrupted run there is none, however often the set-up is
\* started again (demo.py:15-24, scenario.py:28-29).
ReportIsOfOneRun == reports # {} => seeds = <<folder["controller"]>>

\* What only a fresh environment helps with.
Stuck ==
  pc = "idle" /\ (folder["controller"] = Torn \/ \E i \in DOMAIN seeds : seeds[i] \notin reports)

\* Wherever the process dies, starting it again leads to running services, unless it
\* died while writing the controller's file or inside the scenario.
Recovers == <>Stuck \/ []<>(pc = "up")
===============================================================================
