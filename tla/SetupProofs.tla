------------------------------ MODULE SetupProofs ------------------------------
(***************************************************************************)
(* Whatever step of the set-up the process dies in, and however often it   *)
(* is started again: the services get the configuration of one attempt,    *)
(* whose databases exist, a restart replaces nothing, and a report is that *)
(* of one run of the scenario.                                             *)
(*                                                                         *)
(* The argument is the order of the steps.  The controller's file comes    *)
(* last, so while it is absent nothing is set up, and everything else is   *)
(* there when it is written; from then on no step leads back to create.    *)
(***************************************************************************)
EXTENDS Setup, TLAPS

FileState == Nat \union {Torn}

TypeOK ==
  /\ pc \in {"idle", "create", "cleanup", "write", "move", "unlink", "demo", "scenario", "up"}
  /\ at \in 1..3
  /\ attempt \in Nat
  /\ folder \in [{"receiver", "console", "controller"} -> FileState]
  /\ service \in [{"receiver", "console"} -> FileState]

\* Where a process is says how far its attempt has come.
ProgressInv ==
  /\ pc \in {"create", "move", "unlink"} => at \in 1..2
  /\ pc \in {"create", "write"} => attempt > 0
  /\ pc = "create" /\ at = 2 => <<attempt, "ops">> \in databases
  /\ pc = "write" =>
       /\ \A k \in {"ops", "receiver"} : <<attempt, k>> \in databases
       /\ at > 1 => folder["receiver"] = attempt
       /\ at > 2 => folder["console"] = attempt

\* The controller's file is written once, by the last attempt there is, as the last
\* file; whatever is done before it is done by nobody after it.
ControllerInv ==
  LET c == folder["controller"]
  IN  /\ c \in {Absent, Torn, attempt}
      /\ c = Torn => pc = "idle" \/ (pc = "write" /\ at = 3 /\ half)
      /\ c > 0 => /\ pc \notin {"create", "cleanup", "write"}
                  /\ \A k \in {"ops", "receiver"} : <<c, k>> \in databases
                  /\ \A s \in {"receiver", "console"} :
                       folder[s] = c \/ (folder[s] = Absent /\ service[s] = c)
      /\ pc \in {"move", "unlink", "demo", "scenario", "up"} => c > 0

\* What has been handed over when.
HandOverInv ==
  /\ pc = "unlink" /\ at = 1 => service["receiver"] = folder["controller"]
  /\ pc = "unlink" /\ at = 2 => service["console"] = folder["controller"]
  /\ pc = "move" /\ half /\ at = 1 => folder["receiver"] # Absent
  /\ pc = "move" /\ half /\ at = 2 => folder["console"] # Absent
  /\ pc \in {"move", "unlink"} /\ at = 2 => folder["receiver"] = Absent
  /\ pc \in {"demo", "scenario", "up"} => \A s \in {"receiver", "console"} : folder[s] = Absent

\* The scenario is started once, on the databases the controller's file names.
ReportInv ==
  LET c == folder["controller"]
  IN  \/ seeds = <<>> /\ reports = {} /\ pc # "scenario"
      \/ c > 0 /\ seeds = <<c>> /\ reports \subseteq {c}

SetupInv == TypeOK /\ ProgressInv /\ ControllerInv /\ HandOverInv /\ ReportInv

-------------------------------------------------------------------------------
LEMMA ListedNames ==
  /\ Kinds[1] = "ops" /\ Kinds[2] = "receiver"
  /\ Services[1] = "receiver" /\ Services[2] = "console"
  /\ PrivateFiles[1] = "receiver" /\ PrivateFiles[2] = "console"
  /\ PrivateFiles[3] = "controller"
BY DEF Kinds, Services, PrivateFiles

LEMMA SetupInitInv == Init => SetupInv
<1> SUFFICES ASSUME Init PROVE SetupInv
  OBVIOUS
<1> USE DEF Init
<1>1. TypeOK
  BY DEF TypeOK, FileState, Absent, Torn
<1>2. ProgressInv
  BY DEF ProgressInv, ControllerInv, Absent, Torn
<1>3. ControllerInv
  BY DEF ProgressInv, ControllerInv, HandOverInv, Absent, Torn
<1>4. HandOverInv
  BY DEF ControllerInv, HandOverInv, ProgressInv, Absent, Torn
<1>5. ReportInv
  BY DEF ControllerInv, ReportInv, Absent, Torn
<1> QED
  BY <1>1, <1>2, <1>3, <1>4, <1>5 DEF SetupInv

LEMMA SetupStepInv == SetupInv /\ [Next]_vars => SetupInv'
<1> SUFFICES ASSUME SetupInv, [Next]_vars PROVE SetupInv'
  OBVIOUS
<1> USE DEF SetupInv, Absent, Torn, control, own, files, server
<1>1. CASE Begin
  <2>1. TypeOK'
    BY <1>1 DEF Begin, Goto, TypeOK
  <2>2. ProgressInv'
    BY <1>1 DEF Begin, Goto, TypeOK, ProgressInv
  <2>3. ControllerInv'
    BY <1>1 DEF Begin, Configured, Goto, ControllerInv
  <2>4. HandOverInv'
    BY <1>1 DEF Begin, Goto, HandOverInv
  <2>5. ReportInv'
    BY <1>1 DEF Begin, Goto, ReportInv
  <2> QED
    BY <2>1, <2>2, <2>3, <2>4, <2>5
<1>2. CASE Resume
  <2>1. TypeOK'
    BY <1>2 DEF Resume, Goto, TypeOK
  <2>2. ProgressInv'
    BY <1>2 DEF Resume, Goto, ProgressInv
  <2>3. ControllerInv'
    BY <1>2 DEF Resume, Configured, Goto, TypeOK, ControllerInv
  <2>4. HandOverInv'
    BY <1>2 DEF Resume, Goto, HandOverInv
  <2>5. ReportInv'
    BY <1>2 DEF Resume, Goto, ReportInv
  <2> QED
    BY <2>1, <2>2, <2>3, <2>4, <2>5
<1>3. CASE CreateDatabase(TRUE)
  <2>1. TypeOK'
    BY <1>3 DEF CreateDatabase, Onward, Goto, TypeOK, ProgressInv
  <2>2. ProgressInv'
    BY <1>3, ListedNames DEF CreateDatabase, Onward, Goto, ProgressInv
  <2>3. ControllerInv'
    BY <1>3 DEF CreateDatabase, Onward, Goto, ControllerInv
  <2>4. HandOverInv'
    BY <1>3 DEF CreateDatabase, Onward, Goto, HandOverInv
  <2>5. ReportInv'
    BY <1>3 DEF CreateDatabase, Onward, Goto, ReportInv
  <2> QED
    BY <2>1, <2>2, <2>3, <2>4, <2>5
<1>4. CASE CreateDatabase(FALSE)
  <2>1. TypeOK'
    BY <1>4 DEF CreateDatabase, Goto, TypeOK
  <2>2. ProgressInv'
    BY <1>4 DEF CreateDatabase, Goto, ProgressInv
  <2>3. ControllerInv'
    BY <1>4 DEF CreateDatabase, Goto, ControllerInv
  <2>4. HandOverInv'
    BY <1>4 DEF CreateDatabase, Goto, HandOverInv
  <2>5. ReportInv'
    BY <1>4 DEF CreateDatabase, Goto, ReportInv
  <2> QED
    BY <2>1, <2>2, <2>3, <2>4, <2>5
<1>5. CASE Fail
  <2>1. TypeOK'
    BY <1>5 DEF Fail, Goto, TypeOK
  <2>2. ProgressInv'
    BY <1>5 DEF Fail, Goto, ProgressInv
  <2>3. ControllerInv'
    BY <1>5 DEF Fail, Goto, ControllerInv
  <2>4. HandOverInv'
    BY <1>5 DEF Fail, Goto, HandOverInv
  <2>5. ReportInv'
    BY <1>5 DEF Fail, Goto, ReportInv
  <2> QED
    BY <2>1, <2>2, <2>3, <2>4, <2>5
<1>6. CASE Cleanup
  <2>1. TypeOK'
    BY <1>6 DEF Cleanup, Goto, TypeOK
  <2>2. ProgressInv'
    BY <1>6 DEF Cleanup, Goto, ProgressInv
  <2>3. ControllerInv'
    BY <1>6 DEF Cleanup, Goto, ControllerInv
  <2>4. HandOverInv'
    BY <1>6 DEF Cleanup, Goto, HandOverInv
  <2>5. ReportInv'
    BY <1>6 DEF Cleanup, Goto, ReportInv
  <2> QED
    BY <2>1, <2>2, <2>3, <2>4, <2>5
<1>7. CASE WritePrivate
  <2>1. TypeOK'
    BY <1>7, ListedNames DEF WritePrivate, Onward, Goto, TypeOK, FileState
  <2>2. ProgressInv'
    BY <1>7, ListedNames DEF WritePrivate, Onward, Goto, TypeOK, ProgressInv
  <2>3. ControllerInv'
    BY <1>7, ListedNames DEF WritePrivate, Onward, Goto, TypeOK, ProgressInv, ControllerInv
  <2>4. HandOverInv'
    BY <1>7 DEF WritePrivate, Onward, Goto, HandOverInv
  <2>5. ReportInv'
    BY <1>7 DEF WritePrivate, Onward, Goto, ControllerInv, ReportInv
  <2> QED
    BY <2>1, <2>2, <2>3, <2>4, <2>5
<1>8. CASE HandOver
  <2>1. TypeOK'
    BY <1>8 DEF HandOver, TypeOK, FileState
  <2>2. ProgressInv'
    BY <1>8 DEF HandOver, ProgressInv
  <2>3. ControllerInv'
    BY <1>8 DEF HandOver, Pending, ControllerInv
  <2>4. HandOverInv'
    BY <1>8, ListedNames DEF HandOver, Pending, TypeOK, ControllerInv, HandOverInv
  <2>5. ReportInv'
    BY <1>8 DEF HandOver, ReportInv
  <2> QED
    BY <2>1, <2>2, <2>3, <2>4, <2>5
<1>9. CASE Unlink
  <2>1. TypeOK'
    BY <1>9, ListedNames DEF Unlink, Goto, TypeOK, FileState, ProgressInv
  <2>2. ProgressInv'
    BY <1>9 DEF Unlink, Goto, ProgressInv
  <2>3. ControllerInv'
    BY <1>9, ListedNames DEF Unlink, Goto, ProgressInv, ControllerInv, HandOverInv
  <2>4. HandOverInv'
    BY <1>9, ListedNames DEF Unlink, Goto, TypeOK, HandOverInv
  <2>5. ReportInv'
    BY <1>9, ListedNames DEF Unlink, Goto, ProgressInv, ReportInv
  <2> QED
    BY <2>1, <2>2, <2>3, <2>4, <2>5
<1>10. CASE HandedOver
  <2>1. TypeOK'
    BY <1>10 DEF HandedOver, Onward, Goto, TypeOK, ProgressInv
  <2>2. ProgressInv'
    BY <1>10 DEF HandedOver, Onward, Goto, ProgressInv
  <2>3. ControllerInv'
    BY <1>10 DEF HandedOver, Onward, Goto, ControllerInv
  <2>4. HandOverInv'
    BY <1>10, ListedNames DEF HandedOver, Pending, Onward, Goto, TypeOK, HandOverInv
  <2>5. ReportInv'
    BY <1>10 DEF HandedOver, Onward, Goto, ReportInv
  <2> QED
    BY <2>1, <2>2, <2>3, <2>4, <2>5
<1>11. CASE Execute
  <2>1. TypeOK'
    BY <1>11 DEF Execute, Goto, TypeOK
  <2>2. ProgressInv'
    BY <1>11 DEF Execute, Goto, ProgressInv
  <2>3. ControllerInv'
    BY <1>11 DEF Execute, Goto, ControllerInv
  <2>4. HandOverInv'
    BY <1>11 DEF Execute, Goto, HandOverInv
  <2>5. ReportInv'
    <3>1. CASE folder["controller"] \in reports
      BY <1>11, <3>1 DEF Execute, ReportInv
    <3>2. CASE folder["controller"] \notin reports
      <4>1. Fresh /\ seeds' = Append(seeds, folder["controller"])
        BY <1>11, <3>2 DEF Execute
      <4>2. seeds = <<>> /\ reports = {}
        BY <4>1 DEF Fresh, ReportInv
      <4>3. seeds' = <<folder["controller"]>>
        BY <4>1, <4>2
      <4> QED
        BY <1>11, <4>2, <4>3 DEF Execute, Readable, ReportInv
    <3> QED
      BY <3>1, <3>2
  <2> QED
    BY <2>1, <2>2, <2>3, <2>4, <2>5
<1>12. CASE RecordReport
  <2>1. TypeOK'
    BY <1>12 DEF RecordReport, Goto, TypeOK
  <2>2. ProgressInv'
    BY <1>12 DEF RecordReport, Goto, ProgressInv
  <2>3. ControllerInv'
    BY <1>12 DEF RecordReport, Goto, ControllerInv
  <2>4. HandOverInv'
    BY <1>12 DEF RecordReport, Goto, HandOverInv
  <2>5. ReportInv'
    BY <1>12 DEF RecordReport, ReportInv
  <2> QED
    BY <2>1, <2>2, <2>3, <2>4, <2>5
<1>13. CASE Refuse \/ Down \/ Die
  <2>1. Goto("idle") /\ UNCHANGED <<attempt, files, server>>
    BY <1>13 DEF Refuse, Down, Die
  <2>2. TypeOK'
    BY <2>1 DEF Goto, TypeOK
  <2>3. ProgressInv'
    BY <2>1 DEF Goto, ProgressInv
  <2>4. ControllerInv'
    BY <2>1 DEF Goto, ControllerInv
  <2>5. HandOverInv'
    BY <2>1 DEF Goto, HandOverInv
  <2>6. ReportInv'
    BY <2>1 DEF Goto, ReportInv
  <2> QED
    BY <2>2, <2>3, <2>4, <2>5, <2>6
<1>14. CASE UNCHANGED vars
  BY <1>14 DEF vars, TypeOK, ProgressInv, ControllerInv, HandOverInv, ReportInv
<1> QED
  BY <1>1, <1>2, <1>3, <1>4, <1>5, <1>6, <1>7, <1>8, <1>9, <1>10, <1>11, <1>12, <1>13, <1>14
     DEF Next, Proceed

LEMMA SetupInvHolds == Spec => []SetupInv
BY SetupInitInv, SetupStepInv, PTL DEF Spec

-------------------------------------------------------------------------------
\* Wherever set-ups died, once the controller's file is written its databases exist and
\* each service has, or is about to be given, the configuration of that attempt; services
\* that run have it (runtime.py:93-98, compose_setup.py:28-36).
THEOREM ServicesGetOneAttempt == Spec => []ServicesAgree
<1>1. SetupInv => ServicesAgree
  <2> SUFFICES ASSUME SetupInv PROVE ServicesAgree
    OBVIOUS
  <2>1. DOMAIN service = {"receiver", "console"}
    BY DEF SetupInv, TypeOK
  <2> QED
    BY <2>1 DEF SetupInv, TypeOK, FileState, ControllerInv, HandOverInv, ServicesAgree,
                Absent, Torn
<1> QED
  BY <1>1, SetupInvHolds, PTL

\* A recorded report is that of a scenario started once, on fresh databases, however often
\* the set-up died and was started again (demo.py:15-24, scenario.py:28-29).
THEOREM ReportsAreOfOneRun == Spec => []ReportIsOfOneRun
<1>1. SetupInv => ReportIsOfOneRun
  BY DEF SetupInv, ReportInv, ReportIsOfOneRun
<1> QED
  BY <1>1, SetupInvHolds, PTL

\* No step replaces the configuration, drops a database of it or loses a report: the steps
\* that could are behind the one that wrote it (compose_setup.py:1).
THEOREM RestartKeepsEverything == Spec => KeptOnRestart
<1>1. ASSUME SetupInv, [Next]_vars, folder["controller"] > 0
      PROVE  /\ folder'["controller"] = folder["controller"]
             /\ {d \in databases : d[1] = folder["controller"]} \subseteq databases'
             /\ reports \subseteq reports'
  <2>1. pc \notin {"create", "cleanup", "write"}
    BY <1>1 DEF SetupInv, ControllerInv
  <2>2. folder'["controller"] = folder["controller"] /\ databases \subseteq databases'
    BY <1>1, <2>1, ListedNames
       DEF Next, Proceed, Begin, Resume, CreateDatabase, Cleanup, WritePrivate, HandOver, Unlink,
           HandedOver, Execute, RecordReport, Refuse, Fail, Down, Die, vars, files, server,
           SetupInv, TypeOK, ProgressInv
  <2>3. reports \subseteq reports'
    BY <1>1
       DEF Next, Proceed, Begin, Resume, CreateDatabase, Cleanup, WritePrivate, HandOver, Unlink,
           HandedOver, Execute, RecordReport, Refuse, Fail, Down, Die, vars, server
  <2> QED
    BY <2>2, <2>3
<1>2. SetupInv /\ [Next]_vars =>
        [LET c == folder["controller"]
         IN  c > 0 => /\ folder'["controller"] = c
                      /\ {d \in databases : d[1] = c} \subseteq databases'
                      /\ reports \subseteq reports']_vars
  BY <1>1
<1> QED
  BY <1>2, SetupInvHolds, PTL DEF Spec, KeptOnRestart
================================================================================
