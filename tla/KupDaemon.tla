----------------------------- MODULE KupDaemon -----------------------------
(***************************************************************************)
(* The daemon: class KupDaemon (daemon/kupdaemon.cpp), which owns one      *)
(* executor for each plan of kuprc and makes them anew when the            *)
(* configuration has changed.  It does not do so while an executor is      *)
(* busy: it remembers the request, and each time an executor reports a     *)
(* change it queues another call of reloadConfig().                        *)
(*                                                                         *)
(* Of an executor this module keeps what the daemon sees of it, as in      *)
(* ExecutorPhases: its phase and the backups that will report to it.       *)
(* EDExecutor and FSExecutor show how it gets from one to the other; every *)
(* assignment to mState is followed by stateChanged(), which calls         *)
(* updateTrayIcon() at once.                                               *)
(***************************************************************************)
EXTENDS Kuprc, ExecutorPhases, Sequences

CONSTANTS
  MaxBackups,   \* bound: backups in flight of one executor
  MaxCalls      \* bound: queued calls of reloadConfig() told apart

ASSUME DaemonAssumption ==
  /\ MaxBackups \in Nat \ {0}
  /\ MaxCalls \in Nat \ {0}

VARIABLES
  running,      \* the process runs
  executors,    \* mExecutors
  waiting,      \* mWaitingToReloadConfig
  calls         \* reloadConfig() calls queued by updateTrayIcon()

daemon == <<running, executors, waiting, calls>>

Executor ==
  [ number  : Numbers,             \* planNumber(), fixed when the plan is loaded
    plan    : Settings,
    phase   : Phases,
    backups : 0 .. MaxBackups ]

DaemonType ==
  /\ running \in BOOLEAN
  /\ executors \in Seq(Executor) /\ Len(executors) <= MaxNumber
  /\ waiting \in BOOLEAN
  /\ calls \in 0 .. MaxCalls

busy(e) == e.phase \in {"backup", "test"}

NoneBusy == \A i \in DOMAIN executors : ~busy(executors[i])

-----------------------------------------------------------------------------
(***************************************************************************)
(* Executors are loaded, look for their destinations, and may start a      *)
(* backup at once.  Their signals are connected after that.                *)
(***************************************************************************)
Loaded(file, n, view) ==
  [ number |-> n, plan |-> PlanAt(file, n), phase |-> view.phase, backups |-> view.backups ]

\* setupExecutors(), for the plans in the file.
SetupExecutors ==
  \E views \in [1 .. kuprc.count -> NewViews] :
     executors' = [n \in 1 .. kuprc.count |-> Loaded(kuprc, n, views[n])]

\* Mutant: no call is queued.
UpdateTrayIconForgetting(times) == UNCHANGED calls

\* updateTrayIcon(), `times' times in one handler.
UpdateTrayIcon(times) ==
  calls' = IF ~waiting THEN calls
           ELSE IF calls + times > MaxCalls THEN MaxCalls ELSE calls + times

\* Mutants: the executors are deleted while one of them is busy; the request is
\* dropped when one is.
ReloadConfigAtOnce ==
  /\ waiting' = FALSE
  /\ running' = kuprc.enabled
  /\ IF kuprc.enabled THEN SetupExecutors ELSE executors' = <<>>

ReloadConfigUnlessBusy ==
  IF NoneBusy
  THEN /\ waiting' = FALSE
       /\ running' = kuprc.enabled
       /\ IF kuprc.enabled THEN SetupExecutors ELSE executors' = <<>>
  ELSE UNCHANGED <<running, executors, waiting>>

\* The daemon quits when backups are no longer enabled: jobs of the executors that
\* are still made have not started yet when the event loop ends.
ReloadConfig ==
  IF NoneBusy
  THEN /\ waiting' = FALSE
       /\ running' = kuprc.enabled
       /\ IF kuprc.enabled THEN SetupExecutors ELSE executors' = <<>>
  ELSE /\ waiting' = TRUE
       /\ UNCHANGED <<running, executors>>

QueuedCall ==
  /\ calls > 0
  /\ ReloadConfig
  /\ calls' = IF running' THEN calls - 1 ELSE 0
  /\ UNCHANGED kuprc

\* main(): at login, or by the settings module; only if backups are enabled.
Start ==
  /\ ~running /\ kuprc.enabled
  /\ running' = TRUE
  /\ SetupExecutors
  /\ waiting' = FALSE
  /\ calls' = 0
  /\ UNCHANGED kuprc

Crash ==
  /\ running
  /\ running' = FALSE
  /\ executors' = <<>>
  /\ waiting' = FALSE
  /\ calls' = 0
  /\ UNCHANGED kuprc

-----------------------------------------------------------------------------
(***************************************************************************)
(* What executors do, one change at a time: a slot that makes two in a     *)
(* row, such as ending a backup and starting the next, is two steps.       *)
(***************************************************************************)

\* Executor i changes to e and says so, up to three times in the same slot.
Becomes(i, e) ==
  /\ executors' = [executors EXCEPT ![i] = e]
  /\ \E times \in 1 .. 3 : UpdateTrayIcon(times)
  /\ UNCHANGED <<running, waiting>>

DestinationAppears(i) ==
  /\ \E e \in AfterAppearing(executors[i]) : Becomes(i, e)
  /\ UNCHANGED kuprc

DestinationLeaves(i) ==
  /\ \E e \in AfterLeaving(executors[i]) : Becomes(i, e)
  /\ UNCHANGED kuprc

\* By the schedule, by the user, or by a destination that has appeared.
BackupStarts(i) ==
  /\ \E e \in AfterStart(executors[i]) : e.backups <= MaxBackups /\ Becomes(i, e)
  /\ UNCHANGED kuprc

\* The drive has been mounted: the job is started, without a word to the daemon.
DriveMounted(i) ==
  /\ \E e \in AfterMount(executors[i]) :
       /\ e.backups <= MaxBackups
       /\ executors' = [executors EXCEPT ![i] = e]
  /\ UNCHANGED <<running, waiting, calls, kuprc>>

BackupFails(i) ==
  /\ \E e \in AfterGivingUp(executors[i]) : Becomes(i, e)
  /\ UNCHANGED kuprc

\* A backup that has been made is recorded before the executor leaves its state.
BackupEnds(i, made) ==
  /\ \E e \in AfterBackup(executors[i]) : Becomes(i, e)
  /\ kuprc' = IF made THEN SaveStatus(kuprc, executors[i].number, executors[i].plan)
                      ELSE kuprc

\* A check or a repair.
TestStarts(i) ==
  /\ \E e \in AfterTestStart(executors[i]) : Becomes(i, e)
  /\ UNCHANGED kuprc

TestEnds(i) ==
  /\ \E e \in AfterTest(executors[i]) : Becomes(i, e)
  /\ UNCHANGED kuprc

\* A test that is not the one the executor is in reports, or the usage monitor does.
TestEndsLate(i) ==
  /\ Becomes(i, executors[i])
  /\ UNCHANGED kuprc

\* Only a plan run by usage time is saved.
AccumulateUsageTime(i) ==
  /\ executors[i].phase # "backup"
  /\ Becomes(i, executors[i])
  /\ kuprc' = SaveStatus(kuprc, executors[i].number, executors[i].plan)

ExecutorStep(i) ==
  \/ DestinationAppears(i) \/ DestinationLeaves(i)
  \/ BackupStarts(i) \/ DriveMounted(i) \/ BackupFails(i)
  \/ \E made \in BOOLEAN : BackupEnds(i, made)
  \/ TestStarts(i) \/ TestEnds(i) \/ TestEndsLate(i)
  \/ AccumulateUsageTime(i)

DaemonStep ==
  \/ QueuedCall \/ Start \/ Crash
  \/ \E i \in DOMAIN executors : ExecutorStep(i)

-----------------------------------------------------------------------------
\* A request that had to wait is not forgotten: when no executor is busy any more,
\* reloadConfig() has been queued (kupdaemon.cpp:84, 155-158).
RequestIsRemembered == waiting /\ NoneBusy => calls > 0

\* A busy executor is not deleted with its job (kupdaemon.cpp:82-87): it is still
\* there after every step that is not the end of the process, with the plan and
\* the number it was loaded with.
BusyIsKept(i) ==
  /\ i \in DOMAIN executors'
  /\ executors'[i].plan = executors[i].plan
  /\ executors'[i].number = executors[i].number

BusyExecutorsAreKept ==
  [][running' => \A i \in DOMAIN executors : busy(executors[i]) => BusyIsKept(i)]_daemon
=============================================================================
