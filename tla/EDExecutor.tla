----------------------------- MODULE EDExecutor -----------------------------
(***************************************************************************)
(* A backup plan whose destination is an external drive: class EDExecutor  *)
(* (daemon/edexecutor.cpp) on top of PlanExecutor, in the event loop of    *)
(* the daemon.  Every action is one event the loop delivers: a signal from *)
(* Solid, a timer, the result of a job, a choice of the user in the tray   *)
(* menu or in a notification, a call over D-Bus.  The drive is part of the *)
(* environment: it is plugged, mounted and unplugged at any time, and the  *)
(* executor learns of it later, by signals that arrive in order.           *)
(***************************************************************************)
EXTENDS PlanExecutor, Sequences

CONSTANTS
  PlanSettings,     \* the plans the user may have configured
  PathMayBeEmpty,   \* a mounted drive may have an empty filePath()
  MaxJobs,          \* bound: jobs in flight, backups and sizes, checks and repairs
  MaxSignals        \* bound: Solid signals not delivered yet

ASSUME EDAssumption ==
  /\ PlanSettings \subseteq Plan
  /\ PathMayBeEmpty \in BOOLEAN
  /\ MaxJobs \in Nat
  /\ MaxSignals \in Nat

VARIABLES
  exec,      \* the executor
  plugged,   \* the drive with the plan's UUID is connected to the computer
  mounted,   \* and isAccessible()
  signals    \* signals of Solid on their way to the daemon

vars == <<exec, plugged, mounted, signals>>

DriveSignals == {"deviceAdded", "deviceRemoved", "accessibilityChanged"}

TypeOK ==
  /\ exec \in Executor
  /\ plugged \in BOOLEAN
  /\ mounted \in BOOLEAN
  /\ signals \in Seq(DriveSignals)

-----------------------------------------------------------------------------
(***************************************************************************)
(* The slots of EDExecutor.                                                *)
(***************************************************************************)

\* What startBackup() may come to for executor e, given the drive: without a
\* drive it fails, a drive that is not accessible is asked to mount, and on an
\* accessible one the folder may be read-only or the backup type invalid.
StartBackupOutcomes(e) ==
  IF ~e.udi THEN {"failed"}
  ELSE IF ~mounted THEN {"mounting"}
  ELSE {"failed"}
       \cup (IF e.plan.type # "Invalid" /\ e.backups + e.sizes < MaxJobs
             THEN {"job"} ELSE {})
       \cup (IF PathMayBeEmpty THEN {"nothing"} ELSE {})

\* `found' says whether the folder of the plan exists on the mounted drive.
ShowFilesClicked(e, found) ==
  CASE ~e.udi               -> e
    [] e.udi /\ mounted     -> [e EXCEPT !.wantsShow = @ /\ ~found]
    [] e.udi /\ ~mounted    -> [e EXCEPT !.wantsShow = TRUE, !.listening = OneMore(@, 1)]

UpdateAccessibility(e, outcome, found) ==
  CASE e.wantsRun                -> StartBackup(e, outcome)
    [] ~e.wantsRun /\ e.wantsShow -> ShowFilesClicked(e, found)
    [] OTHER                     -> e

DeviceAdded(e, outcome) == EnterAvailableState([e EXCEPT !.udi = TRUE], outcome)

\* Mutant: the drive that is gone is still held.
DeviceRemovedHolding(e) ==
  IF e.udi
  THEN EnterNotAvailableState([e EXCEPT !.wantsRun = FALSE, !.listening = 0])
  ELSE e

DeviceRemoved(e) ==
  IF e.udi
  THEN EnterNotAvailableState([e EXCEPT !.wantsRun = FALSE, !.udi = FALSE,
                                        !.listening = 0])
  ELSE e

\* The drive as it was when the executor is created is announced by checkStatus(),
\* and updateAccessibility() is called whether it was found or not.
CheckStatus(e, outcome) ==
  IF plugged
  THEN UpdateAccessibility(DeviceAdded(e, outcome), outcome, FALSE)
  ELSE e

-----------------------------------------------------------------------------
(***************************************************************************)
(* The drive.                                                              *)
(***************************************************************************)
Emit(signal) ==
  /\ Len(signals) < MaxSignals
  /\ signals' = Append(signals, signal)

Plug ==
  /\ ~plugged
  /\ plugged' = TRUE
  /\ Emit("deviceAdded")
  /\ UNCHANGED <<exec, mounted>>

Unplug ==
  /\ plugged
  /\ plugged' = FALSE
  /\ mounted' = FALSE
  /\ Emit("deviceRemoved")
  /\ UNCHANGED exec

Mount ==
  /\ plugged /\ ~mounted
  /\ mounted' = TRUE
  /\ Emit("accessibilityChanged")
  /\ UNCHANGED <<exec, plugged>>

Unmount ==
  /\ mounted
  /\ mounted' = FALSE
  /\ Emit("accessibilityChanged")
  /\ UNCHANGED <<exec, plugged>>

(***************************************************************************)
(* Delivery of the signals.  A device that is gone again by the time its   *)
(* deviceAdded arrives is no storage volume any more and is ignored; the   *)
(* connections of accessibilityChanged go with the device.  Every request  *)
(* to mount has connected the signal once more, so that the slot is called *)
(* more than once; the second call may show the files after the first has  *)
(* started the backup, and a third finds nothing else to do.               *)
(***************************************************************************)
Receive(signal) ==
  /\ signals # <<>>
  /\ Head(signals) = signal
  /\ signals' = Tail(signals)
  /\ UNCHANGED <<plugged, mounted>>

ReceiveDeviceAdded ==
  /\ Receive("deviceAdded")
  /\ \/ /\ plugged
        /\ \E o \in StartBackupOutcomes([exec EXCEPT !.udi = TRUE]) :
              exec' = DeviceAdded(exec, o)
     \/ ~plugged /\ UNCHANGED exec

ReceiveDeviceRemoved ==
  /\ Receive("deviceRemoved")
  /\ exec' = DeviceRemoved(exec)

ReceiveAccessibilityChanged ==
  /\ Receive("accessibilityChanged")
  /\ \E o \in StartBackupOutcomes(exec), found \in BOOLEAN :
       LET once == UpdateAccessibility(exec, o, found)
       IN  exec' = CASE exec.listening = 0 -> exec
                     [] exec.listening = 1 -> once
                     [] exec.listening = 2 -> UpdateAccessibility(once, o, found)

-----------------------------------------------------------------------------
(***************************************************************************)
(* The user, the clock and the jobs.                                       *)
(***************************************************************************)
drive == <<plugged, mounted, signals>>

TakeBackupNow ==
  /\ exec.runAction
  /\ \E o \in StartBackupOutcomes(exec) : exec' = EnterBackupRunningState(exec, o)
  /\ UNCHANGED drive

AnswerYes ==
  /\ exec.question
  /\ \E o \in StartBackupOutcomes(exec) : exec' = EnterBackupRunningState(exec, o)
  /\ UNCHANGED drive

AnswerNo ==
  /\ exec.question
  /\ exec' = DiscardUserQuestion(exec)
  /\ UNCHANGED drive

ShowFiles ==
  /\ exec.showAction
  /\ \E found \in BOOLEAN : exec' = ShowFilesClicked(exec, found)
  /\ UNCHANGED drive

CheckIntegrity ==
  /\ exec.checks + exec.repairs < MaxJobs
  /\ exec' = StartIntegrityCheck(exec)
  /\ UNCHANGED drive

\* The notification closes with the answer, which discards it.
AcceptRepair(notification) ==
  /\ notification \in exec.offers
  /\ exec.checks + exec.repairs < MaxJobs
  /\ exec' = StartRepairJob([exec EXCEPT !.offers = @ \ {notification}])
  /\ UNCHANGED drive

DeclineRepair(notification) ==
  /\ notification \in exec.offers
  /\ exec' = [exec EXCEPT !.offers = @ \ {notification}]
  /\ UNCHANGED drive

BackupDone ==
  /\ exec.backups > 0
  /\ \E r \in ResultsOf(exec) : exec' = SlotBackupDone(exec, r)
  /\ UNCHANGED drive

BackupSizeDone ==
  /\ exec.sizes > 0
  /\ \E successful \in BOOLEAN,
        o \in StartBackupOutcomes([exec EXCEPT !.sizes = @ - 1]) :
        exec' = SlotBackupSizeDone(exec, successful, o)
  /\ UNCHANGED drive

\* The check that reports is the one that put the executor into
\* INTEGRITY_TESTING (own) or one that was started before it.
CheckDone(own) ==
  /\ \/ own /\ exec.state = "INTEGRITY_TESTING"
     \/ ~own /\ exec.checks > IF exec.state = "INTEGRITY_TESTING" THEN 1 ELSE 0
  /\ \E r \in {"Error", "ErrorSuggestRepair"} : exec' = IntegrityCheckFinished(exec, r)
  /\ UNCHANGED drive

RepairDone(own) ==
  /\ \/ own /\ exec.state = "REPAIRING"
     \/ ~own /\ exec.repairs > IF exec.state = "REPAIRING" THEN 1 ELSE 0
  /\ exec' = RepairFinished(exec)
  /\ UNCHANGED drive

UsageMonitorTimeout ==
  /\ \E o \in StartBackupOutcomes(exec) : exec' = UpdateAccumulatedUsageTime(exec, o)
  /\ UNCHANGED drive

Wakeup ==
  /\ exec.timer = 0
  /\ \E o \in StartBackupOutcomes(exec) : exec' = SchedulingTimeout(exec, o)
  /\ UNCHANGED drive

Tick ==
  /\ exec' = ClockTick(exec)
  /\ UNCHANGED drive

-----------------------------------------------------------------------------
(***************************************************************************)
(* A new executor is made from what the old one has saved, after a crash   *)
(* of the daemon and when reloadConfig() finds no executor busy.  A job of *)
(* the old executor has nobody left to report to.                          *)
(***************************************************************************)
Recreate(plan) ==
  LET new == NewExecutor(plan, exec.savedAge, exec.savedUsage)
  IN  \E o \in StartBackupOutcomes([new EXCEPT !.udi = TRUE]) :
         exec' = CheckStatus(new, o)

Crash ==
  /\ Recreate(exec.plan)
  /\ signals' = <<>>
  /\ UNCHANGED <<plugged, mounted>>

Reload ==
  /\ ~busy(exec)
  /\ \E plan \in PlanSettings : Recreate(plan)
  /\ UNCHANGED drive

\* A plan that has just been configured and has never been run.
Init ==
  /\ \E plan \in PlanSettings : exec = NewExecutor(plan, Never, 0)
  /\ plugged = FALSE
  /\ mounted = FALSE
  /\ signals = <<>>

Next ==
  \/ Plug \/ Unplug \/ Mount \/ Unmount
  \/ ReceiveDeviceAdded \/ ReceiveDeviceRemoved \/ ReceiveAccessibilityChanged
  \/ TakeBackupNow \/ AnswerYes \/ AnswerNo \/ ShowFiles \/ CheckIntegrity
  \/ \E n \in {"fail", "integrity"} : AcceptRepair(n) \/ DeclineRepair(n)
  \/ BackupDone \/ BackupSizeDone
  \/ \E own \in BOOLEAN : CheckDone(own) \/ RepairDone(own)
  \/ UsageMonitorTimeout \/ Wakeup \/ Tick
  \/ Crash \/ Reload

Spec == Init /\ [][Next]_vars

-----------------------------------------------------------------------------
(***************************************************************************)
(* Properties the executor has.                                            *)
(***************************************************************************)

\* A drive the executor holds is never shown as unavailable: whatever finishes,
\* fires or is clicked after deviceAdded() (edexecutor.cpp:73), only the removal
\* of the drive takes its plan back to NOT_AVAILABLE, and "Show Files" is offered
\* only while there is a drive to show.
HeldDriveIsAvailable ==
  /\ exec.udi => exec.state # "NOT_AVAILABLE"
  /\ exec.showAction => exec.udi

\* The executor does not hang in a busy state: while it says that a backup is
\* running, a job or a size job is in flight or a mount is awaited; while it says
\* that the archive is tested or repaired, a check or a repair is in flight
\* (planexecutor.cpp:271, 298, 312-341).  reloadConfig() waits for busy executors,
\* so a busy state without a cause would put off a new configuration for ever.
\* A mounted drive without a path is the one exception (edexecutor.cpp:103).
BusyHasCause ==
  /\ BackupHasCause(exec) \/ PathMayBeEmpty
  /\ TestHasCause(exec)

\* A plan that is available and not busy can always be run by hand: every way out
\* of a backup, a check or a repair enables "Take Backup Now" again, also when the
\* drive came or went during it (planexecutor.cpp:100, 275, 302, 321), and no check
\* or repair that the executor still waits for returns it to a state that is out of
\* date or busy (271, 298).
NeverLockedOut == RunnableByHand(exec) /\ TestReturnsToIdle(exec)

\* A plan run at intervals never waits without an alarm: the timer runs and rings
\* no later than when the backup falls due, also across checks and repairs that
\* overlap with a removal of the drive (planexecutor.cpp:126-127, 151-153).  A plan
\* whose drive is away has no alarm, which would call the dispatcher and show the
\* plan as available (98, 158).
WaitingHasWakeup == HasWakeup(exec) /\ SleepsWhileAway(exec)

\* What a crash leaves in kuprc never claims a newer backup than the one that was
\* really completed, and has all the usage time: the status is written only after
\* the job has succeeded (edexecutor.cpp:142, 163, planexecutor.cpp:325-350), so
\* after a restart a backup may come early but is not skipped.
RecordNeverOverstates == RecordIsHonest(exec)

\* Usage time is dropped only together with the record of the backup that covers
\* it: no step, a crash between two saves included, leaves kuprc with the usage
\* reset and the backup unknown (edexecutor.cpp:163-164, planexecutor.cpp:324-328).
UsageDroppedOnlyWithRecord ==
  [][exec'.savedUsage < exec.savedUsage =>
       exec'.savedAge = exec'.age /\ exec'.age # Never]_vars

\* What the daemon sees of the executor in one call of a slot is what KupDaemon lets an
\* executor do: up to two changes of ExecutorPhases, or a new executor.  So no backup
\* is lost sight of while its drive is away or a test is running, and no test begins
\* but in an executor that is idle (planexecutor.cpp:97-363, kupdaemon.cpp:82-87).
ChangesAsSeen ==
  [][\/ MayBecome(Seen(exec), Seen(exec'))
     \/ (Crash \/ Reload) /\ Seen(exec') \in NewViews]_vars

(***************************************************************************)
(* The event loop is fair to the timer it holds, and time passes.  Nothing *)
(* is assumed of the user, the drive or the jobs.                          *)
(***************************************************************************)
FairSpec == Spec /\ WF_vars(Tick) /\ WF_vars(Wakeup)

\* A plan run at intervals does not wait for ever: its next backup is started or
\* asked for, its drive goes away or its schedule is changed, whatever checks,
\* reloads and crashes come in between (planexecutor.cpp:114-130, 144-154).
ScheduleComesRound ==
  LET waits == exec.plan.schedule = "INTERVAL" /\ OnSchedule(exec)
  IN  waits ~> ~waits

-----------------------------------------------------------------------------
(***************************************************************************)
(* What the comments and the documentation say and the code does not do.   *)
(***************************************************************************)

\* planexecutor.cpp:271: the state before a check is restored "only ... if nothing
\* has changed during the run": a check that is not the one the executor is in
\* leaves the state alone.
OnlyRestoreIfNothingChanged ==
  [][CheckDone(FALSE) => exec'.state = exec.state]_vars

\* planexecutor.cpp:145: the user is asked "the first time after destination has
\* become available": the drive alone does not start a backup of such a plan.
AskedWhenDriveBecomesAvailable ==
  [][~exec.udi /\ exec'.udi /\ exec'.plan.ask =>
       ~exec'.wantsRun /\ exec'.backups <= exec.backups]_vars

=============================================================================
