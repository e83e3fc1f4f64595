-------------------------- MODULE EDExecutorProofs --------------------------
(***************************************************************************)
(* The invariants of EDExecutor hold for every plan, every interval and    *)
(* usage limit, and any number of jobs and signals.  They are proved       *)
(* together: that a check never ends with no check counted (the type)      *)
(* needs that a test has a cause, that the wakeup is there needs that a    *)
(* test returns to a state that was idle, and that a plan without a drive  *)
(* is not shown as available needs that its timer sleeps.  At the end, the *)
(* steps: usage time is dropped only with the record of its backup, and    *)
(* what the daemon sees of a plan changes as KupDaemon lets it.            *)
(***************************************************************************)
EXTENDS EDExecutor, PlanExecutorProofs

\* The inductive invariant.
IInv ==
  /\ TypeOK
  /\ HeldDriveIsAvailable
  /\ BusyHasCause
  /\ NeverLockedOut
  /\ WaitingHasWakeup
  /\ RecordNeverOverstates

\* The same of one executor, in the terms of PlanExecutorProofs.
Good(e) ==
  /\ Sound(e)
  /\ e.udi => e.state # "NOT_AVAILABLE"
  /\ e.showAction => e.udi
  /\ BackupHasCause(e) \/ PathMayBeEmpty

DriveType ==
  /\ plugged \in BOOLEAN
  /\ mounted \in BOOLEAN
  /\ signals \in Seq(DriveSignals)

LEMMA IInvIsGood == IInv <=> DriveType /\ Good(exec)
BY DEF IInv, TypeOK, HeldDriveIsAvailable, BusyHasCause, NeverLockedOut, WaitingHasWakeup,
   RecordNeverOverstates, DriveType, Good, Sound, Sane

\* Without an empty path, startBackup() always comes to something.
Legal(o) == o \in BackupOutcomes \ {"nothing"} \/ PathMayBeEmpty

LEMMA OutcomesLegal ==
  ASSUME NEW e, NEW o \in StartBackupOutcomes(e)
  PROVE  Legal(o)
<1>1. CASE ~e.udi
  BY <1>1 DEF StartBackupOutcomes, Legal, BackupOutcomes
<1>2. CASE e.udi /\ ~mounted
  BY <1>2 DEF StartBackupOutcomes, Legal, BackupOutcomes
<1>3. CASE e.udi /\ mounted
  <2>1. o \in {"failed", "job"} \/ (PathMayBeEmpty /\ o = "nothing")
    BY <1>3 DEF StartBackupOutcomes
  <2>2. QED  BY <2>1 DEF Legal, BackupOutcomes
<1>4. QED  BY <1>1, <1>2, <1>3

LEMMA KeepsGood ==
  ASSUME NEW e, Good(e), NEW r, Sound(r), Keeps(e, r),
         BackupHasCause(r) \/ PathMayBeEmpty
  PROVE  Good(r)
BY DEF Good, Keeps

-----------------------------------------------------------------------------
(***************************************************************************)
(* The slots of EDExecutor.                                                *)
(***************************************************************************)
LEMMA StartGood ==
  ASSUME NEW e, Good(e), NEW o, Legal(o)
  PROVE  Good(StartBackup(e, o))
<1>1. Sound(StartBackup(e, o)) /\ e \in Executor
  BY StartBackupSound DEF Good, Sound, Sane
<1>2. BackupHasCause(StartBackup(e, o)) \/ PathMayBeEmpty
  BY <1>1, StartBackupCaused DEF Legal
<1>3. QED  BY <1>1, <1>2, StartBackupKeeps DEF Good

LEMMA EnterGood ==
  ASSUME NEW e, Good(e), NEW o, Legal(o)
  PROVE  Good(EnterBackupRunningState(e, o))
<1>1. e \in Executor /\ Sane(e)
  BY DEF Good, Sound, Sane
<1>2. BackupHasCause(EnterBackupRunningState(e, o)) \/ PathMayBeEmpty
  BY <1>1, EnterCaused DEF Legal
<1>3. QED  BY <1>1, <1>2, EnterSound DEF Good

LEMMA ShowFilesGood ==
  ASSUME NEW e, Good(e), NEW found \in BOOLEAN
  PROVE  Good(ShowFilesClicked(e, found))
<1> DEFINE r == ShowFilesClicked(e, found)
<1>1. e \in Executor
  BY DEF Good, Sound, Sane
<1>2. CASE ~e.udi
  BY <1>2 DEF ShowFilesClicked
<1>3. CASE e.udi /\ mounted
  <2> DEFINE w == e.wantsShow /\ ~found
  <2>1. r = [e EXCEPT !.wantsShow = w] /\ w \in BOOLEAN
    BY <1>3 DEF ShowFilesClicked
  <2> HIDE DEF w
  <2>2. r \in Executor
    BY <1>1, <2>1 DEF Executor
  <2>3. QED
    BY <1>1, <2>1, <2>2 DEF Good, Sound, Sane, RunnableByHand, RecordIsHonest,
       TestReturnsToIdle, TestHasCause, HasWakeup, OnSchedule, SleepsWhileAway,
       BackupHasCause, Executor
<1>4. CASE e.udi /\ ~mounted
  <2> DEFINE n == OneMore(e.listening, 1)
  <2>1. r = [e EXCEPT !.wantsShow = TRUE, !.listening = n]
    BY <1>4 DEF ShowFilesClicked
  <2>2. r \in Executor /\ n > 0
    BY <1>1, <2>1, ConnectedType
  <2> HIDE DEF n
  <2>3. QED
    BY <1>1, <2>1, <2>2 DEF Good, Sound, Sane, RunnableByHand, RecordIsHonest,
       TestReturnsToIdle, TestHasCause, HasWakeup, OnSchedule, SleepsWhileAway,
       BackupHasCause, Executor
<1>5. QED  BY <1>2, <1>3, <1>4

LEMMA AccessibilityGood ==
  ASSUME NEW e, Good(e), NEW o, Legal(o), NEW found \in BOOLEAN
  PROVE  Good(UpdateAccessibility(e, o, found))
<1>1. CASE e.wantsRun
  BY <1>1, StartGood DEF UpdateAccessibility
<1>2. CASE ~e.wantsRun /\ e.wantsShow
  BY <1>2, ShowFilesGood DEF UpdateAccessibility
<1>3. CASE ~e.wantsRun /\ ~e.wantsShow
  BY <1>3 DEF UpdateAccessibility
<1>4. QED  BY <1>1, <1>2, <1>3

LEMMA AddedGood ==
  ASSUME NEW e, Good(e), NEW o, Legal(o)
  PROVE  Good(DeviceAdded(e, o))
<1> DEFINE x == [e EXCEPT !.udi = TRUE]
<1>1. e \in Executor /\ x \in Executor
  BY DEF Good, Sound, Sane, Executor
<1>2. Sane(x) /\ x.udi /\ (BackupHasCause(x) \/ PathMayBeEmpty)
  BY <1>1 DEF Good, Sound, Sane, RunnableByHand, RecordIsHonest, TestReturnsToIdle,
     TestHasCause, BackupHasCause, Executor
<1> HIDE DEF x
<1>3. DeviceAdded(e, o) = EnterAvailableState(x, o)
  BY DEF DeviceAdded, x
<1>4. BackupHasCause(EnterAvailableState(x, o)) \/ PathMayBeEmpty
  BY <1>1, <1>2, EnterAvailableCaused DEF Legal
<1>5. QED  BY <1>2, <1>3, <1>4, EnterAvailableSound DEF Good

LEMMA RemovedGood ==
  ASSUME NEW e, Good(e)
  PROVE  Good(DeviceRemoved(e))
<1>1. CASE e.udi
  <2> DEFINE x == [e EXCEPT !.wantsRun = FALSE, !.udi = FALSE, !.listening = 0]
  <2>1. e \in Executor /\ x \in Executor
    BY DEF Good, Sound, Sane, Executor
  <2>2. Sane(x) /\ ~x.udi
    BY <2>1 DEF Good, Sound, Sane, RunnableByHand, RecordIsHonest, TestReturnsToIdle,
       TestHasCause, Executor
  <2> HIDE DEF x
  <2>3. DeviceRemoved(e) = EnterNotAvailableState(x)
    BY <1>1 DEF DeviceRemoved, x
  <2>4. QED  BY <2>2, <2>3, NotAvailableSound DEF Good
<1>2. CASE ~e.udi
  BY <1>2 DEF DeviceRemoved
<1>3. QED  BY <1>1, <1>2

LEMMA RecreateGood ==
  ASSUME Good(exec), NEW plan \in Plan, Recreate(plan)
  PROVE  Good(exec')
<1> DEFINE new == NewExecutor(plan, exec.savedAge, exec.savedUsage)
<1>1. exec.savedAge \in Ages /\ exec.savedUsage \in UsageTimes
  BY DEF Good, Sound, Sane, Executor
<1>2. Good(new)
  BY <1>1, NewSound DEF Good
<1> HIDE DEF new
<1>3. PICK o \in StartBackupOutcomes([new EXCEPT !.udi = TRUE]) : exec' = CheckStatus(new, o)
  BY DEF Recreate, new
<1>4. Legal(o)
  BY OutcomesLegal
<1>5. CASE plugged
  <2>1. Good(DeviceAdded(new, o))
    BY <1>2, <1>4, AddedGood
  <2>2. Good(UpdateAccessibility(DeviceAdded(new, o), o, FALSE))
    BY <1>4, <2>1, AccessibilityGood
  <2>3. QED  BY <1>3, <1>5, <2>2 DEF CheckStatus
<1>6. CASE ~plugged
  BY <1>2, <1>3, <1>6 DEF CheckStatus
<1>7. QED  BY <1>5, <1>6

-----------------------------------------------------------------------------
(***************************************************************************)
(* The invariant.                                                          *)
(***************************************************************************)
LEMMA InitGood == Init => IInv
<1> SUFFICES ASSUME Init PROVE DriveType /\ Good(exec)
  BY IInvIsGood
<1>1. DriveType
  <2>1. plugged = FALSE /\ mounted = FALSE /\ signals = <<>>
    BY DEF Init
  <2>2. <<>> \in Seq(DriveSignals)
    OBVIOUS
  <2>3. QED  BY <2>1, <2>2 DEF DriveType
<1>2. PICK plan \in PlanSettings : exec = NewExecutor(plan, Never, 0)
  BY DEF Init
<1>3. plan \in Plan /\ Never \in Ages /\ 0 \in UsageTimes
  BY EDAssumption, SchedulingAssumption DEF EDAssumption, Ages, UsageTimes
<1>4. Good(exec)
  BY <1>2, <1>3, NewSound DEF Good
<1>5. QED  BY <1>1, <1>4

\* The drive and its signals keep their types whatever happens.
LEMMA DriveTyped ==
  ASSUME DriveType, [Next]_vars
  PROVE  DriveType'
<1>1. ASSUME NEW s \in DriveSignals, Emit(s)
      PROVE  signals' \in Seq(DriveSignals)
  BY <1>1 DEF DriveType, Emit
<1>2. ASSUME NEW s, Receive(s)
      PROVE  signals' \in Seq(DriveSignals) /\ UNCHANGED <<plugged, mounted>>
  BY <1>2 DEF DriveType, Receive
<1>3. CASE Plug \/ Mount \/ Unmount \/ Unplug
  BY <1>1, <1>3 DEF Plug, Mount, Unmount, Unplug, DriveType, DriveSignals
<1>4. CASE ReceiveDeviceAdded \/ ReceiveDeviceRemoved \/ ReceiveAccessibilityChanged
  BY <1>2, <1>4 DEF ReceiveDeviceAdded, ReceiveDeviceRemoved, ReceiveAccessibilityChanged,
     DriveType
<1>5. CASE Crash
  BY <1>5 DEF Crash, DriveType
<1>6. CASE UNCHANGED drive
  BY <1>6 DEF drive, DriveType
<1>7. QED
  BY <1>3, <1>4, <1>5, <1>6 DEF Next, vars, drive, TakeBackupNow, AnswerYes, AnswerNo, ShowFiles,
     CheckIntegrity, AcceptRepair, DeclineRepair, BackupDone, BackupSizeDone, CheckDone,
     RepairDone, UsageMonitorTimeout, Wakeup, Tick, Reload

LEMMA WithoutOfferGood ==
  ASSUME NEW e, Good(e), NEW n
  PROVE  Good([e EXCEPT !.offers = @ \ {n}])
<1> DEFINE r == [e EXCEPT !.offers = @ \ {n}]
<1>1. e \in Executor /\ r \in Executor
  BY DEF Good, Sound, Sane, Executor
<1>2. QED
  BY <1>1 DEF Good, Sound, Sane, RunnableByHand, RecordIsHonest, TestReturnsToIdle,
     TestHasCause, HasWakeup, OnSchedule, SleepsWhileAway, BackupHasCause, Executor

LEMMA StepGood ==
  ASSUME Good(exec), [Next]_vars
  PROVE  Good(exec')
<1>0. exec \in Executor /\ Sound(exec)
  BY DEF Good, Sound, Sane
<1>1. CASE Plug \/ Unplug \/ Mount \/ Unmount
  BY <1>1 DEF Plug, Unplug, Mount, Unmount
<1>2. CASE ReceiveDeviceAdded
  BY <1>2, OutcomesLegal, AddedGood DEF ReceiveDeviceAdded
<1>3. CASE ReceiveDeviceRemoved
  BY <1>3, RemovedGood DEF ReceiveDeviceRemoved
<1>4. CASE ReceiveAccessibilityChanged
  <2> DEFINE once(o, found) == UpdateAccessibility(exec, o, found)
             twice(o, found) == UpdateAccessibility(once(o, found), o, found)
  <2>1. PICK o \in StartBackupOutcomes(exec), found \in BOOLEAN :
           exec' \in {exec, once(o, found), twice(o, found)}
    BY <1>0, <1>4 DEF ReceiveAccessibilityChanged, Executor
  <2>2. Legal(o)
    BY OutcomesLegal
  <2>3. Good(once(o, found))
    BY <2>2, AccessibilityGood
  <2>4. Good(twice(o, found))
    BY <2>2, <2>3, AccessibilityGood
  <2>5. QED  BY <2>1, <2>3, <2>4
<1>5. CASE TakeBackupNow \/ AnswerYes
  BY <1>5, OutcomesLegal, EnterGood DEF TakeBackupNow, AnswerYes
<1>6. CASE AnswerNo
  BY <1>0, <1>6, DiscardSound, KeepsGood DEF AnswerNo, Good
<1>7. CASE ShowFiles
  BY <1>7, ShowFilesGood DEF ShowFiles
<1>8. CASE CheckIntegrity
  BY <1>0, <1>8, StartCheckSound, KeepsGood DEF CheckIntegrity, Good
<1>9. CASE \E n \in {"fail", "integrity"} : AcceptRepair(n)
  <2> DEFINE without(n) == [exec EXCEPT !.offers = @ \ {n}]
  <2>1. PICK n \in {"fail", "integrity"} : exec' = StartRepairJob(without(n))
    BY <1>9 DEF AcceptRepair
  <2>2. Good(without(n))
    BY WithoutOfferGood
  <2> HIDE DEF without
  <2>3. QED  BY <2>1, <2>2, StartRepairSound, KeepsGood DEF Good
<1>10. CASE \E n \in {"fail", "integrity"} : DeclineRepair(n)
  BY <1>10, WithoutOfferGood DEF DeclineRepair
<1>11. CASE BackupDone
  <2>1. PICK r \in JobResults : exec.backups > 0 /\ exec' = SlotBackupDone(exec, r)
    BY <1>11 DEF BackupDone, ResultsOf, JobResults
  <2>2. QED  BY <1>0, <2>1, BackupDoneSound, KeepsGood
<1>12. CASE BackupSizeDone
  <2>1. PICK successful \in BOOLEAN, o \in StartBackupOutcomes([exec EXCEPT !.sizes = @ - 1]) :
           exec.sizes > 0 /\ exec' = SlotBackupSizeDone(exec, successful, o)
    BY <1>12 DEF BackupSizeDone
  <2>2. Legal(o)
    BY OutcomesLegal
  <2>3. QED  BY <1>0, <2>1, <2>2, SizeDoneSound, KeepsGood DEF Legal
<1>13. CASE \E own \in BOOLEAN : CheckDone(own)
  <2>1. PICK own \in BOOLEAN, r \in {"Error", "ErrorSuggestRepair"} :
           /\ \/ own /\ exec.state = "INTEGRITY_TESTING"
              \/ ~own /\ exec.checks > IF exec.state = "INTEGRITY_TESTING" THEN 1 ELSE 0
           /\ exec' = IntegrityCheckFinished(exec, r)
    BY <1>13 DEF CheckDone
  <2>2. exec.checks > 0
    BY <1>0, <2>1 DEF Executor, Sound, Sane, TestHasCause
  <2>3. QED  BY <1>0, <2>1, <2>2, CheckFinishedSound, KeepsGood DEF Good
<1>14. CASE \E own \in BOOLEAN : RepairDone(own)
  <2>1. PICK own \in BOOLEAN :
           /\ \/ own /\ exec.state = "REPAIRING"
              \/ ~own /\ exec.repairs > IF exec.state = "REPAIRING" THEN 1 ELSE 0
           /\ exec' = RepairFinished(exec)
    BY <1>14 DEF RepairDone
  <2>2. exec.repairs > 0
    BY <1>0, <2>1 DEF Executor, Sound, Sane, TestHasCause
  <2>3. QED  BY <1>0, <2>1, <2>2, RepairFinishedSound, KeepsGood DEF Good
<1>15. CASE UsageMonitorTimeout
  <2>1. PICK o \in StartBackupOutcomes(exec) : exec' = UpdateAccumulatedUsageTime(exec, o)
    BY <1>15 DEF UsageMonitorTimeout
  <2>2. Legal(o)
    BY OutcomesLegal
  <2>3. QED  BY <1>0, <2>1, <2>2, UsageMonitorSound, KeepsGood DEF Good, Legal
<1>16. CASE Wakeup
  <2>1. PICK o \in StartBackupOutcomes(exec) :
           exec.timer = 0 /\ exec' = SchedulingTimeout(exec, o)
    BY <1>16 DEF Wakeup
  <2>2. Legal(o)
    BY OutcomesLegal
  <2>3. QED  BY <1>0, <2>1, <2>2, TimeoutSound, KeepsGood DEF Good, Legal
<1>17. CASE Tick
  BY <1>0, <1>17, TickSound, KeepsGood DEF Tick, Good
<1>18. CASE Crash
  <2>1. exec.plan \in Plan
    BY <1>0 DEF Executor
  <2>2. QED  BY <1>18, <2>1, RecreateGood DEF Crash
<1>19. CASE Reload
  BY <1>19, EDAssumption, RecreateGood DEF Reload, EDAssumption
<1>20. CASE UNCHANGED vars
  BY <1>20 DEF vars
<1>21. QED
  BY <1>1, <1>2, <1>3, <1>4, <1>5, <1>6, <1>7, <1>8, <1>9, <1>10, <1>11, <1>12, <1>13,
     <1>14, <1>15, <1>16, <1>17, <1>18, <1>19, <1>20 DEF Next

\* All of the invariants together: the induction.
THEOREM InvariantsHold == Spec => []IInv
<1>1. Init => IInv
  BY InitGood
<1>2. IInv /\ [Next]_vars => IInv'
  <2> SUFFICES ASSUME IInv, [Next]_vars PROVE IInv'
    OBVIOUS
  <2>1. DriveType /\ Good(exec)
    BY IInvIsGood
  <2>2. DriveType' /\ Good(exec')
    BY <2>1, DriveTyped, StepGood
  <2>3. QED
    BY <2>2 DEF IInv, TypeOK, HeldDriveIsAvailable, BusyHasCause, NeverLockedOut,
       WaitingHasWakeup, RecordNeverOverstates, DriveType, Good, Sound, Sane
<1>3. QED  BY <1>1, <1>2, PTL DEF Spec

\* The state of the executor and of the drive is well typed; no counter of jobs
\* falls below zero, so no job reports to an executor that has not started one.
THEOREM TypeCorrect == Spec => []TypeOK
<1>1. IInv => TypeOK  BY DEF IInv
<1>2. QED  BY <1>1, InvariantsHold, PTL

\* A drive the executor holds is never shown as unavailable.
THEOREM HeldDriveStaysAvailable == Spec => []HeldDriveIsAvailable
<1>1. IInv => HeldDriveIsAvailable  BY DEF IInv
<1>2. QED  BY <1>1, InvariantsHold, PTL

\* A busy state has something in flight that can end it, unless a mounted drive
\* has an empty path: reloadConfig() waits for busy executors.
THEOREM NoBusyStateWithoutCause == Spec => []BusyHasCause
<1>1. IInv => BusyHasCause  BY DEF IInv
<1>2. QED  BY <1>1, InvariantsHold, PTL

\* "Take Backup Now" is enabled in every available state that is not busy.
THEOREM UserIsNeverLockedOut == Spec => []NeverLockedOut
<1>1. IInv => NeverLockedOut  BY DEF IInv
<1>2. QED  BY <1>1, InvariantsHold, PTL

\* A plan run at intervals never waits without a timer that rings in time.
THEOREM NoWaitWithoutWakeup == Spec => []WaitingHasWakeup
<1>1. IInv => WaitingHasWakeup  BY DEF IInv
<1>2. QED  BY <1>1, InvariantsHold, PTL

\* What is written to kuprc never claims a newer backup than was completed.
THEOREM RecordIsSafeInACrash == Spec => []RecordNeverOverstates
<1>1. IInv => RecordNeverOverstates  BY DEF IInv
<1>2. QED  BY <1>1, InvariantsHold, PTL

-----------------------------------------------------------------------------
(***************************************************************************)
(* Usage time is dropped only with the record.  Most slots leave the       *)
(* record alone; a backup whose size is being asked for was completed, so  *)
(* that the record written with the usage reset is never the empty one.    *)
(***************************************************************************)
LeavesRecord(e, r) ==
  /\ r.age = e.age /\ r.savedAge = e.savedAge
  /\ r.usage = e.usage /\ r.savedUsage = e.savedUsage
  /\ r.sizes = e.sizes

\* A size job follows a backup that was completed.
Completed(e) == e.sizes > 0 => e.age # Never

\* The step of UsageDroppedOnlyWithRecord.
DropsWithRecord(e, r) == r.savedUsage < e.savedUsage => r.savedAge = r.age /\ r.age # Never

LEMMA LeftAlone ==
  ASSUME NEW e \in Executor, NEW r, LeavesRecord(e, r), Completed(e)
  PROVE  Completed(r) /\ DropsWithRecord(e, r)
BY DEF LeavesRecord, Completed, DropsWithRecord, Executor, UsageTimes

LEMMA EnterLeaves ==
  ASSUME NEW e \in Executor, NEW o
  PROVE  LeavesRecord(e, StartBackup(e, o)) /\ LeavesRecord(e, EnterBackupRunningState(e, o))
<1>1. ASSUME NEW x \in Executor
      PROVE  LeavesRecord(x, StartBackup(x, o))
  <2>1. CASE o = "failed"
    BY <2>1 DEF StartBackup, ExitBackupRunningStateFailed, LeavesRecord, Executor
  <2>2. CASE o \in {"job", "mounting"}
    BY <2>2 DEF StartBackup, LeavesRecord, Executor
  <2>3. CASE o \notin {"job", "failed", "mounting"}
    BY <2>3 DEF StartBackup, LeavesRecord
  <2>4. QED  BY <2>1, <2>2, <2>3
<1> DEFINE x == [e EXCEPT !.question = FALSE, !.state = "BACKUP_RUNNING",
                          !.runAction = FALSE]
<1>2. x \in Executor /\ LeavesRecord(e, x)
  BY DEF Executor, ExecutorState, BusyStates, LeavesRecord
<1>3. EnterBackupRunningState(e, o) = StartBackup(x, o)
  BY DEF EnterBackupRunningState
<1> HIDE DEF x
<1>4. LeavesRecord(x, StartBackup(x, o))
  BY <1>1, <1>2
<1>5. QED  BY <1>1, <1>2, <1>3, <1>4 DEF LeavesRecord

LEMMA AvailableLeaves ==
  ASSUME NEW e \in Executor, NEW o
  PROVE  LeavesRecord(e, EnterAvailableState(e, o))
<1> DEFINE x == MakeAvailable(e)
<1>1. x \in Executor /\ LeavesRecord(e, x)
  <2>1. CASE e.state = "NOT_AVAILABLE"
    BY <2>1 DEF MakeAvailable, Executor, ExecutorState, WaitingStates, LeavesRecord
  <2>2. CASE e.state # "NOT_AVAILABLE"
    BY <2>2 DEF MakeAvailable, LeavesRecord
  <2>3. QED  BY <2>1, <2>2
<1> HIDE DEF x
<1>2. LeavesRecord(x, EnterBackupRunningState(x, o))
  BY <1>1, EnterLeaves
<1>3. LeavesRecord(x, AskUser(x))
  BY <1>1 DEF AskUser, LeavesRecord, Executor
<1>4. LeavesRecord(x, [x EXCEPT !.timer = Interval - x.age]) /\ LeavesRecord(x, x)
  BY <1>1 DEF LeavesRecord, Executor
<1>5. LeavesRecord(x, FollowSchedule(x, o))
  BY <1>2, <1>3, <1>4 DEF FollowSchedule
<1>6. QED  BY <1>1, <1>5 DEF EnterAvailableState, LeavesRecord, x

LEMMA AccessibilityLeaves ==
  ASSUME NEW e \in Executor, NEW o, NEW found \in BOOLEAN
  PROVE  /\ LeavesRecord(e, ShowFilesClicked(e, found))
         /\ LeavesRecord(e, UpdateAccessibility(e, o, found))
<1>1. LeavesRecord(e, ShowFilesClicked(e, found))
  BY DEF ShowFilesClicked, LeavesRecord, Executor
<1>2. LeavesRecord(e, StartBackup(e, o)) /\ LeavesRecord(e, e)
  BY EnterLeaves DEF LeavesRecord
<1>3. QED  BY <1>1, <1>2 DEF UpdateAccessibility

LEMMA AddedLeaves ==
  ASSUME NEW e \in Executor, NEW o
  PROVE  LeavesRecord(e, DeviceAdded(e, o))
<1> DEFINE x == [e EXCEPT !.udi = TRUE]
<1>1. x \in Executor /\ LeavesRecord(e, x)
  BY DEF Executor, LeavesRecord
<1>2. DeviceAdded(e, o) = EnterAvailableState(x, o)
  BY DEF DeviceAdded
<1> HIDE DEF x
<1>3. QED  BY <1>1, <1>2, AvailableLeaves DEF LeavesRecord

LEMMA RemovedLeaves ==
  ASSUME NEW e \in Executor
  PROVE  LeavesRecord(e, DeviceRemoved(e))
BY DEF DeviceRemoved, EnterNotAvailableState, LeavesRecord, Executor

LEMMA TestsLeave ==
  ASSUME NEW e \in Executor, NEW result, NEW n
  PROVE  /\ LeavesRecord(e, StartIntegrityCheck(e))
         /\ LeavesRecord(e, StartRepairJob(e))
         /\ LeavesRecord(e, [e EXCEPT !.offers = @ \ {n}])
         /\ LeavesRecord(e, IntegrityCheckFinished(e, result))
         /\ LeavesRecord(e, RepairFinished(e))
<1>1. LeavesRecord(e, StartIntegrityCheck(e)) /\ LeavesRecord(e, StartRepairJob(e))
  BY DEF StartIntegrityCheck, StartRepairJob, LeavesRecord, Executor
<1>2. LeavesRecord(e, [e EXCEPT !.offers = @ \ {n}])
  BY DEF LeavesRecord, Executor
<1>3. LeavesRecord(e, RepairFinished(e))
  BY DEF RepairFinished, RestoreFrom, LeavesRecord, Executor
<1>4. LeavesRecord(e, IntegrityCheckFinished(e, result))
  BY DEF IntegrityCheckFinished, RestoreFrom, Offer, LeavesRecord, Executor
<1>5. QED  BY <1>1, <1>2, <1>3, <1>4
LEMMA SaveLeaves ==
  ASSUME NEW e \in Executor
  PROVE  LET r == Save(e)
         IN  /\ r \in Executor /\ r.sizes = e.sizes
             /\ r.age = e.age /\ r.savedAge = e.age
             /\ r.usage = e.usage /\ r.savedUsage = e.usage
<1>1. e.age \in Ages /\ e.usage \in UsageTimes
  BY DEF Executor
<1>2. Save(e) \in Executor
  BY <1>1, SavedType DEF Save
<1>3. QED  BY <1>2 DEF Save, Executor

LEMMA BackupDoneDrops ==
  ASSUME NEW e \in Executor, Completed(e), e.backups > 0, NEW result \in JobResults
  PROVE  LET r == SlotBackupDone(e, result)
         IN  Completed(r) /\ DropsWithRecord(e, r)
<1> DEFINE done == [e EXCEPT !.backups = @ - 1]
           r    == SlotBackupDone(e, result)
<1>1. done \in Executor /\ LeavesRecord(e, done)
  BY CountersType DEF Executor, LeavesRecord
<1>2. CASE result = "NoError"
  <2>1. r = [done EXCEPT !.age = 0, !.sizes = @ + 1]
    BY <1>2 DEF SlotBackupDone
  <2> HIDE DEF done
  <2>2. r.age = 0 /\ r.savedUsage = e.savedUsage
    BY <1>1, <2>1 DEF Executor, LeavesRecord
  <2>3. QED  BY <2>2 DEF Completed, DropsWithRecord, Executor, UsageTimes, Never
<1>3. CASE result # "NoError"
  <2>1. r = ExitBackupRunningStateFailed(Offer(done, "fail", result))
    BY <1>3 DEF SlotBackupDone
  <2> HIDE DEF done
  <2>2. LeavesRecord(done, r)
    BY <1>1, <2>1 DEF ExitBackupRunningStateFailed, Offer, LeavesRecord, Executor
  <2>3. LeavesRecord(e, r)
    BY <1>1, <2>2 DEF LeavesRecord
  <2>4. QED  BY <2>3, LeftAlone
<1>4. QED  BY <1>2, <1>3

\* The one slot that resets the usage has just written the record.
LEMMA SizeDoneDrops ==
  ASSUME NEW e \in Executor, Completed(e), e.sizes > 0, NEW successful \in BOOLEAN, NEW o
  PROVE  LET r == SlotBackupSizeDone(e, successful, o)
         IN  Completed(r) /\ DropsWithRecord(e, r)
<1> DEFINE done == [e EXCEPT !.sizes = @ - 1]
           s    == Save(done)
           u    == ResetUsage(s)
           y    == [u EXCEPT !.state = "WAITING_FOR_BACKUP_AGAIN", !.runAction = TRUE]
           r    == SlotBackupSizeDone(e, successful, o)
           Recorded(x) == x \in Executor /\ x.age = e.age /\ x.savedAge = e.age
<1>1. done \in Executor /\ done.age = e.age
  BY CountersType DEF Executor
<1>2. Recorded(s)
  <2> HIDE DEF done
  <2>1. s \in Executor
    BY <1>1, SaveLeaves
  <2>2. QED  BY <1>1, <2>1, SaveLeaves
<1>3. CASE successful
  <2> HIDE DEF s
  <2>1. Recorded([s EXCEPT !.usage = 0])
    <3>1. 0 \in UsageTimes
      BY SchedulingAssumption DEF UsageTimes
    <3>2. [s EXCEPT !.usage = 0] \in Executor
      BY <1>2, <3>1, UsageType
    <3>3. QED  BY <1>2, <3>2 DEF Executor
  <2>2. Recorded(Save([s EXCEPT !.usage = 0]))
    <3> DEFINE z == [s EXCEPT !.usage = 0]
    <3>1. z \in Executor /\ z.age = e.age
      BY <2>1
    <3> HIDE DEF z
    <3>2. Save(z) \in Executor
      BY <3>1, SaveLeaves
    <3>3. Save(z).age = e.age /\ Save(z).savedAge = e.age
      BY <3>1, SaveLeaves
    <3>4. QED  BY <3>2, <3>3 DEF z
  <2>3. Recorded(u)
    BY <1>2, <2>2 DEF ResetUsage
  <2> HIDE DEF u
  <2>4. Recorded(y)
    BY <2>3 DEF Executor, ExecutorState, WaitingStates
  <2>5. r = EnterAvailableState(y, o)
    BY <1>3 DEF SlotBackupSizeDone, ExitBackupRunningState, u, s
  <2> HIDE DEF y
  <2>6. LeavesRecord(y, r)
    BY <2>4, <2>5, AvailableLeaves
  <2>7. r.age = e.age /\ r.savedAge = e.age
    BY <2>4, <2>6 DEF LeavesRecord
  <2>8. QED  BY <2>7 DEF Completed, DropsWithRecord
<1>4. CASE ~successful
  <2>1. r = ExitBackupRunningStateFailed(s)
    BY <1>4 DEF SlotBackupSizeDone, ExitBackupRunningState
  <2> HIDE DEF s
  <2>2. r.age = e.age /\ r.savedAge = e.age
    BY <1>2, <2>1 DEF ExitBackupRunningStateFailed, Executor
  <2>3. QED  BY <2>2 DEF Completed, DropsWithRecord
<1>5. QED  BY <1>3, <1>4

LEMMA UsageMonitorDrops ==
  ASSUME NEW e \in Executor, RecordIsHonest(e), Completed(e), NEW o
  PROVE  LET r == UpdateAccumulatedUsageTime(e, o)
         IN  Completed(r) /\ DropsWithRecord(e, r)
<1> DEFINE more    == [e EXCEPT !.usage = OneMore(@, UsageLimit)]
           counted == IF e.plan.schedule = "USAGE" THEN Save(more) ELSE e
           r       == UpdateAccumulatedUsageTime(e, o)
           Counts(x) == /\ x \in Executor /\ x.age = e.age /\ x.sizes = e.sizes
                        /\ x.savedUsage >= e.savedUsage
<1>1. OneMore(e.usage, UsageLimit) \in UsageTimes /\ OneMore(e.usage, UsageLimit) >= e.usage
  BY SchedulingAssumption DEF OneMore, Executor, UsageTimes
<1>2. more \in Executor /\ more.usage >= e.usage /\ more.age = e.age /\ more.sizes = e.sizes
  <2> DEFINE n == OneMore(e.usage, UsageLimit)
  <2>1. more = [e EXCEPT !.usage = n]
    OBVIOUS
  <2> HIDE DEF n, more
  <2>2. n \in UsageTimes /\ n >= e.usage
    BY <1>1 DEF n
  <2>3. QED  BY <2>1, <2>2 DEF Executor
<1> HIDE DEF more
<1>3. Counts(Save(more))
  <2>1. Save(more) \in Executor
    BY <1>2, SaveLeaves
  <2>2. /\ Save(more).age = more.age /\ Save(more).sizes = more.sizes
        /\ Save(more).savedUsage = more.usage
    BY <1>2, SaveLeaves
  <2>3. QED  BY <1>2, <2>1, <2>2 DEF RecordIsHonest
<1>4. Counts(e)
  BY DEF Executor, UsageTimes
<1>5. Counts(counted)
  BY <1>3, <1>4
<1>6. r \in {e, counted, EnterAvailableState(counted, o)}
  BY DEF UpdateAccumulatedUsageTime, more
<1> HIDE DEF counted
<1>7. LeavesRecord(counted, EnterAvailableState(counted, o))
  BY <1>5, AvailableLeaves
<1>8. r.age = e.age /\ r.sizes = e.sizes /\ r.savedUsage >= e.savedUsage
  BY <1>4, <1>5, <1>6, <1>7 DEF LeavesRecord
<1>9. QED
  <2>1. ASSUME NEW x \in Executor  PROVE x.savedUsage \in Int
    BY DEF Executor, UsageTimes
  <2>2. r.savedUsage \in Int /\ e.savedUsage \in Int
    BY <1>5, <1>6, <1>7, <2>1 DEF LeavesRecord
  <2>3. QED  BY <1>8, <2>2 DEF Completed, DropsWithRecord
LEMMA TickDrops ==
  ASSUME NEW e \in Executor, Completed(e)
  PROVE  Completed(ClockTick(e)) /\ DropsWithRecord(e, ClockTick(e))
<1> DEFINE r == ClockTick(e)
<1>1. r.age = Older(e.age) /\ r.sizes = e.sizes /\ r.savedUsage = e.savedUsage
  BY DEF ClockTick, Executor
<1>2. e.age # Never => Older(e.age) # Never
  BY OlderAge DEF Executor
<1>3. ~(e.savedUsage < e.savedUsage)
  BY DEF Executor, UsageTimes
<1>4. QED  BY <1>1, <1>2, <1>3 DEF Completed, DropsWithRecord

\* A new executor waits for no job, and begins with the usage that was saved.
LEMMA RecreateDrops ==
  ASSUME Good(exec), NEW plan \in Plan, Recreate(plan)
  PROVE  Completed(exec') /\ DropsWithRecord(exec, exec')
<1> DEFINE new == NewExecutor(plan, exec.savedAge, exec.savedUsage)
<1>1. exec \in Executor /\ exec.savedAge \in Ages /\ exec.savedUsage \in UsageTimes
  BY DEF Good, Sound, Sane, Executor
<1>2. Good(new) /\ new \in Executor
  BY <1>1, NewSound DEF Good, Sound, Sane
<1>3. new.sizes = 0 /\ new.savedUsage = exec.savedUsage
  BY DEF NewExecutor
<1> HIDE DEF new
<1>4. PICK o \in StartBackupOutcomes([new EXCEPT !.udi = TRUE]) : exec' = CheckStatus(new, o)
  BY DEF Recreate, new
<1>5. LeavesRecord(new, exec')
  <2>1. CASE plugged
    <3> DEFINE x == DeviceAdded(new, o)
    <3>1. x \in Executor
      BY <1>2, OutcomesLegal, AddedGood DEF Good, Sound, Sane
    <3>2. LeavesRecord(new, x)
      BY <1>2, AddedLeaves
    <3>3. exec' = UpdateAccessibility(x, o, FALSE)
      BY <1>4, <2>1 DEF CheckStatus
    <3> HIDE DEF x
    <3>4. LeavesRecord(x, exec')
      BY <3>1, <3>3, AccessibilityLeaves
    <3>5. QED  BY <3>2, <3>4 DEF LeavesRecord
  <2>2. CASE ~plugged
    BY <1>4, <2>2 DEF CheckStatus, LeavesRecord
  <2>3. QED  BY <2>1, <2>2
<1>6. exec'.sizes = 0 /\ exec'.savedUsage = exec.savedUsage
  BY <1>3, <1>5 DEF LeavesRecord
<1>7. ~(exec.savedUsage < exec.savedUsage)
  BY <1>1 DEF UsageTimes
<1>8. QED  BY <1>6, <1>7 DEF Completed, DropsWithRecord

LEMMA StepDrops ==
  ASSUME Good(exec), Completed(exec), [Next]_vars
  PROVE  Completed(exec') /\ DropsWithRecord(exec, exec')
<1>0. exec \in Executor /\ Sound(exec) /\ RecordIsHonest(exec)
  BY DEF Good, Sound, Sane
<1> SUFFICES ASSUME ~LeavesRecord(exec, exec')
             PROVE  Completed(exec') /\ DropsWithRecord(exec, exec')
  BY <1>0, LeftAlone
<1>1. ~UNCHANGED exec
  BY DEF LeavesRecord
<1>2. ~ReceiveDeviceAdded
  BY <1>0, <1>1, AddedLeaves DEF ReceiveDeviceAdded
<1>3. ~ReceiveDeviceRemoved
  BY <1>0, RemovedLeaves DEF ReceiveDeviceRemoved
<1>4. ~ReceiveAccessibilityChanged
  <2> SUFFICES ASSUME ReceiveAccessibilityChanged  PROVE FALSE
    OBVIOUS
  <2> DEFINE once(o, found) == UpdateAccessibility(exec, o, found)
             twice(o, found) == UpdateAccessibility(once(o, found), o, found)
  <2>1. PICK o \in StartBackupOutcomes(exec), found \in BOOLEAN :
           exec' \in {exec, once(o, found), twice(o, found)}
    BY <1>0 DEF ReceiveAccessibilityChanged, Executor
  <2>2. once(o, found) \in Executor
    BY OutcomesLegal, AccessibilityGood DEF Good, Sound, Sane
  <2>3. LeavesRecord(exec, once(o, found))
    BY <1>0, AccessibilityLeaves
  <2>4. LeavesRecord(once(o, found), twice(o, found))
    BY <2>2, AccessibilityLeaves
  <2> HIDE DEF once, twice
  <2>5. LeavesRecord(exec, twice(o, found))
    BY <2>3, <2>4 DEF LeavesRecord
  <2>6. QED  BY <1>1, <2>1, <2>3, <2>5
<1>5. ~TakeBackupNow /\ ~AnswerYes
  BY <1>0, EnterLeaves DEF TakeBackupNow, AnswerYes
<1>6. ~AnswerNo
  BY <1>0 DEF AnswerNo, DiscardUserQuestion, LeavesRecord, Executor
<1>7. ~ShowFiles
  BY <1>0, AccessibilityLeaves DEF ShowFiles
<1>8. ~CheckIntegrity
  BY <1>0, TestsLeave DEF CheckIntegrity
<1>9. ~\E n \in {"fail", "integrity"} : AcceptRepair(n)
  <2> SUFFICES ASSUME NEW n, AcceptRepair(n)  PROVE FALSE
    OBVIOUS
  <2> DEFINE without == [exec EXCEPT !.offers = @ \ {n}]
  <2>1. exec' = StartRepairJob(without)
    BY DEF AcceptRepair
  <2>2. without \in Executor /\ LeavesRecord(exec, without)
    BY <1>0, WithoutOfferGood, TestsLeave DEF Good, Sound, Sane
  <2> HIDE DEF without
  <2>3. LeavesRecord(without, exec')
    BY <2>1, <2>2, TestsLeave
  <2>4. QED  BY <2>2, <2>3 DEF LeavesRecord
<1>10. ~\E n \in {"fail", "integrity"} : DeclineRepair(n)
  BY <1>0, TestsLeave DEF DeclineRepair
<1>11. ~(\E own \in BOOLEAN : CheckDone(own)) /\ ~(\E own \in BOOLEAN : RepairDone(own))
  BY <1>0, TestsLeave DEF CheckDone, RepairDone
<1>12. ~Wakeup
  <2> SUFFICES ASSUME Wakeup  PROVE FALSE
    OBVIOUS
  <2> DEFINE x == [exec EXCEPT !.timer = Stopped]
  <2>1. PICK o : exec' = EnterAvailableState(x, o)
    BY DEF Wakeup, SchedulingTimeout
  <2>2. x \in Executor /\ LeavesRecord(exec, x)
    BY <1>0, AsleepType DEF Executor, LeavesRecord
  <2> HIDE DEF x
  <2>3. LeavesRecord(x, exec')
    BY <2>1, <2>2, AvailableLeaves
  <2>4. QED  BY <2>2, <2>3 DEF LeavesRecord
<1>13. CASE BackupDone
  <2>1. PICK r \in JobResults : exec.backups > 0 /\ exec' = SlotBackupDone(exec, r)
    BY <1>13 DEF BackupDone, ResultsOf, JobResults
  <2>2. QED  BY <1>0, <2>1, BackupDoneDrops
<1>14. CASE BackupSizeDone
  <2>1. PICK successful \in BOOLEAN, o \in StartBackupOutcomes([exec EXCEPT !.sizes = @ - 1]) :
           exec.sizes > 0 /\ exec' = SlotBackupSizeDone(exec, successful, o)
    BY <1>14 DEF BackupSizeDone
  <2>2. QED  BY <1>0, <2>1, SizeDoneDrops
<1>15. CASE UsageMonitorTimeout
  BY <1>0, <1>15, UsageMonitorDrops DEF UsageMonitorTimeout
<1>16. CASE Tick
  BY <1>0, <1>16, TickDrops DEF Tick
<1>17. CASE Crash
  <2>1. exec.plan \in Plan
    BY <1>0 DEF Executor
  <2>2. QED  BY <1>17, <2>1, RecreateDrops DEF Crash
<1>18. CASE Reload
  BY <1>18, EDAssumption, RecreateDrops DEF Reload, EDAssumption
<1>19. CASE UNCHANGED vars
  BY <1>1, <1>19 DEF vars
<1>20. CASE Plug \/ Unplug \/ Mount \/ Unmount
  BY <1>1, <1>20 DEF Plug, Unplug, Mount, Unmount
<1>21. QED
  BY <1>2, <1>3, <1>4, <1>5, <1>6, <1>7, <1>8, <1>9, <1>10, <1>11, <1>12, <1>13, <1>14,
     <1>15, <1>16, <1>17, <1>18, <1>19, <1>20 DEF Next

\* No step, a crash between two saves included, leaves kuprc with the usage reset and
\* the backup that covers it unknown.
THEOREM NoUsageIsForgotten == Spec => UsageDroppedOnlyWithRecord
<1>1. Init => Completed(exec)
  <2> SUFFICES ASSUME Init  PROVE Completed(exec)
    OBVIOUS
  <2>1. exec.sizes = 0
    BY DEF Init, NewExecutor
  <2>2. QED  BY <2>1 DEF Completed
<1>2. IInv /\ Completed(exec) /\ [Next]_vars =>
        Completed(exec)' /\ [DropsWithRecord(exec, exec')]_vars
  BY IInvIsGood, StepDrops
<1>3. [DropsWithRecord(exec, exec')]_vars =>
        [exec'.savedUsage < exec.savedUsage => exec'.savedAge = exec'.age /\ exec'.age # Never]_vars
  BY DEF DropsWithRecord
<1>4. QED
  BY <1>1, <1>2, <1>3, InvariantsHold, PTL DEF Spec, UsageDroppedOnlyWithRecord

-----------------------------------------------------------------------------
(***************************************************************************)
(* What the daemon sees of the steps.  A job that starts late, when the    *)
(* drive is mounted at last, needs that a drive the executor holds is      *)
(* never shown as away; a test that ends needs that it returns to a state  *)
(* that is idle.                                                           *)
(***************************************************************************)
LEMMA OutcomeNeedsDrive ==
  ASSUME NEW e, Good(e), NEW o \in StartBackupOutcomes(e)
  PROVE  o = "job" => e.state # "NOT_AVAILABLE"
BY DEF StartBackupOutcomes, Good

\* updateAccessibility() shows one change at most.
LEMMA AccessibilitySeen ==
  ASSUME NEW e, Good(e), NEW o, o = "job" => e.state # "NOT_AVAILABLE", NEW found \in BOOLEAN
  PROVE  LET r == UpdateAccessibility(e, o, found)
         IN  OneChange(Seen(e), Seen(r))
<1>0. e \in Executor
  BY DEF Good, Sound, Sane
<1>1. CASE e.wantsRun
  BY <1>0, <1>1, StartBackupSeen DEF UpdateAccessibility
<1>2. CASE ~e.wantsRun
  <2> DEFINE r == UpdateAccessibility(e, o, found)
  <2>1. r.state = e.state /\ r.backups = e.backups /\ r.sizes = e.sizes
    BY <1>0, <1>2 DEF UpdateAccessibility, ShowFilesClicked, Executor
  <2>2. QED  BY <2>1, UnseenIf DEF OneChange
<1>3. QED  BY <1>1, <1>2

\* With two connections to the signal the second call finds what the first has left:
\* no wish any more, or the same outcome for an executor that shows it already.
LEMMA SecondAccessibilityUnseen ==
  ASSUME NEW e \in Executor, NEW o, NEW found \in BOOLEAN
  PROVE  LET once == UpdateAccessibility(e, o, found)
         IN  Seen(UpdateAccessibility(once, o, found)) = Seen(once)
<1> DEFINE once  == UpdateAccessibility(e, o, found)
           twice == UpdateAccessibility(once, o, found)
<1>1. ASSUME NEW x, ~x.wantsRun
      PROVE  LET y == UpdateAccessibility(x, o, found)
             IN  y.state = x.state /\ y.backups = x.backups /\ y.sizes = x.sizes
  BY <1>1 DEF UpdateAccessibility, ShowFilesClicked
<1>2. CASE ~once.wantsRun
  <2> HIDE DEF once
  <2>1. QED  BY <1>1, <1>2, UnseenIf DEF once
<1>3. CASE once.wantsRun
  <2>1. e.wantsRun /\ once = StartBackup(e, o)
    BY <1>3 DEF UpdateAccessibility, ShowFilesClicked, Executor
  <2>2. o # "job"
    BY <1>3, <2>1 DEF StartBackup, Executor
  <2>3. CASE o = "failed"
    <3>1. once.state = "WAITING_FOR_MANUAL_BACKUP" /\ once \in Executor
      <4> DEFINE s == "WAITING_FOR_MANUAL_BACKUP"
      <4>1. once = [e EXCEPT !.state = s, !.runAction = TRUE]
        BY <2>1, <2>3 DEF StartBackup, ExitBackupRunningStateFailed
      <4>2. s \in ExecutorState
        BY DEF ExecutorState
      <4> HIDE DEF once, s
      <4>3. once.state = s /\ once \in Executor
        BY <4>1, <4>2 DEF Executor
      <4>4. QED  BY <4>3 DEF s
    <3> HIDE DEF once
    <3>2. /\ twice.state = "WAITING_FOR_MANUAL_BACKUP"
          /\ twice.backups = once.backups /\ twice.sizes = once.sizes
      BY <1>3, <2>3, <3>1
      DEF UpdateAccessibility, StartBackup, ExitBackupRunningStateFailed, Executor
    <3>3. QED  BY <3>1, <3>2, UnseenIf DEF once
  <2>4. CASE o # "failed"
    <3> HIDE DEF once
    <3>1. twice.state = once.state /\ twice.backups = once.backups /\ twice.sizes = once.sizes
      BY <1>3, <2>2, <2>4 DEF UpdateAccessibility, StartBackup
    <3>2. QED  BY <3>1, UnseenIf DEF once
  <2>5. QED  BY <2>3, <2>4
<1>4. QED  BY <1>2, <1>3

\* The dispatcher asks for a mount only by what startBackup() comes to.
LEMMA AvailableWants ==
  ASSUME NEW e \in Executor, ~e.wantsRun, ~e.wantsShow, NEW o
  PROVE  LET r == EnterAvailableState(e, o)
         IN  (r.wantsRun => o = "mounting") /\ ~r.wantsShow
<1> DEFINE m == MakeAvailable(e)
<1>1. m \in Executor /\ ~m.wantsRun /\ ~m.wantsShow
  <2>1. m \in Executor
    BY MakeAvailableSeen
  <2>2. ~m.wantsRun /\ ~m.wantsShow
    BY DEF MakeAvailable, Executor
  <2>3. QED  BY <2>1, <2>2
<1> HIDE DEF m
<1>2. LET r == EnterBackupRunningState(m, o)
      IN  (r.wantsRun => o = "mounting") /\ ~r.wantsShow
  BY <1>1 DEF EnterBackupRunningState, StartBackup, ExitBackupRunningStateFailed, Executor
<1>3. LET r == FollowSchedule(m, o)
      IN  (r.wantsRun => o = "mounting") /\ ~r.wantsShow
  BY <1>1, <1>2 DEF FollowSchedule, AskUser, Executor
<1>4. QED  BY <1>3 DEF EnterAvailableState, m

\* A new executor that looks for its drive.
LEMMA RecreateSeen ==
  ASSUME Good(exec), NEW plan \in Plan, Recreate(plan)
  PROVE  Seen(exec') \in NewViews
<1> DEFINE new == NewExecutor(plan, exec.savedAge, exec.savedUsage)
<1>1. exec.savedAge \in Ages /\ exec.savedUsage \in UsageTimes
  BY DEF Good, Sound, Sane, Executor
<1>2. Good(new) /\ new \in Executor
  BY <1>1, NewSound DEF Good, Sound, Sane
<1>3. /\ new.state = "NOT_AVAILABLE" /\ new.backups = 0 /\ new.sizes = 0
      /\ Seen(new) = V("away", 0) /\ ~new.wantsRun /\ ~new.wantsShow
  BY NewSeen DEF NewExecutor
<1> HIDE DEF new
<1>4. PICK o \in StartBackupOutcomes([new EXCEPT !.udi = TRUE]) : exec' = CheckStatus(new, o)
  BY DEF Recreate, new
<1>5. CASE ~plugged
  BY <1>3, <1>4, <1>5, NewViewsAre DEF CheckStatus
<1>6. CASE plugged
  <2> DEFINE x == [new EXCEPT !.udi = TRUE]
             y == DeviceAdded(new, o)
  <2>1. /\ x \in Executor /\ x.state = "NOT_AVAILABLE" /\ x.backups = 0 /\ x.sizes = 0
        /\ x.udi /\ ~x.wantsRun /\ ~x.wantsShow
    BY <1>2, <1>3 DEF Executor
  <2>2. y = EnterAvailableState(x, o)
    BY DEF DeviceAdded
  <2>3. o \in StartBackupOutcomes(x)
    BY <1>4
  <2> HIDE DEF x
  <2>4. Seen(y) \in {V("idle", 0), V("backup", 0), V("backup", 1)}
    BY <2>1, <2>2, AvailableSeen
  <2>5. y.wantsRun => o = "mounting"
    BY <2>1, <2>2, AvailableWants
  <2>6. ~y.wantsShow
    BY <2>1, <2>2, AvailableWants
  <2>7. exec' = UpdateAccessibility(y, o, FALSE)
    BY <1>4, <1>6 DEF CheckStatus
  <2>8. y \in Executor
    BY <1>2, OutcomesLegal, AddedGood DEF Good, Sound, Sane
  <2> HIDE DEF y
  <2>9. /\ exec'.state = y.state /\ exec'.backups = y.backups /\ exec'.sizes = y.sizes
    BY <2>5, <2>6, <2>7, <2>8 DEF UpdateAccessibility, StartBackup, Executor
  <2>10. QED  BY <2>4, <2>9, UnseenIf, NewViewsAre
<1>7. QED  BY <1>5, <1>6

LEMMA StepSeen ==
  ASSUME Good(exec), [Next]_vars
  PROVE  \/ MayBecome(Seen(exec), Seen(exec'))
         \/ (Crash \/ Reload) /\ Seen(exec') \in NewViews
<1>0. exec \in Executor /\ TestReturnsToIdle(exec)
  BY DEF Good, Sound, Sane
<1>1. ASSUME OneChange(Seen(exec), Seen(exec'))
      PROVE  MayBecome(Seen(exec), Seen(exec'))
  BY <1>1 DEF OneChange, MayBecome
<1>2. ASSUME UNCHANGED exec
      PROVE  MayBecome(Seen(exec), Seen(exec'))
  BY <1>2 DEF MayBecome
<1>3. CASE Plug \/ Unplug \/ Mount \/ Unmount \/ UNCHANGED vars
  BY <1>2, <1>3 DEF Plug, Unplug, Mount, Unmount, vars
<1>4. CASE ReceiveDeviceAdded
  <2> DEFINE x == [exec EXCEPT !.udi = TRUE]
  <2>1. CASE UNCHANGED exec
    BY <1>2, <2>1
  <2>2. CASE \E o : exec' = EnterAvailableState(x, o)
    <3>1. PICK o : exec' = EnterAvailableState(x, o)
      BY <2>2
    <3>2. /\ x \in Executor /\ x.state = exec.state
          /\ x.backups = exec.backups /\ x.sizes = exec.sizes
      BY <1>0 DEF Executor
    <3> HIDE DEF x
    <3>3. QED  BY <3>1, <3>2, UnseenIf, AvailableSeen
  <2>3. QED  BY <1>4, <2>1, <2>2 DEF ReceiveDeviceAdded, DeviceAdded
<1>5. CASE ReceiveDeviceRemoved
  <2> DEFINE x == [exec EXCEPT !.wantsRun = FALSE, !.udi = FALSE, !.listening = 0]
  <2>1. CASE UNCHANGED exec
    BY <1>2, <2>1
  <2>2. CASE exec' = EnterNotAvailableState(x)
    <3>1. /\ x \in Executor /\ x.state = exec.state
          /\ x.backups = exec.backups /\ x.sizes = exec.sizes
      BY <1>0 DEF Executor
    <3> HIDE DEF x
    <3>2. QED  BY <1>1, <2>2, <3>1, UnseenIf, NotAvailableSeen
  <2>3. QED  BY <1>5, <2>1, <2>2 DEF ReceiveDeviceRemoved, DeviceRemoved
<1>6. CASE ReceiveAccessibilityChanged
  <2> DEFINE once(o, found) == UpdateAccessibility(exec, o, found)
             twice(o, found) == UpdateAccessibility(once(o, found), o, found)
  <2>1. PICK o \in StartBackupOutcomes(exec), found \in BOOLEAN :
           exec' \in {exec, once(o, found), twice(o, found)}
    BY <1>0, <1>6 DEF ReceiveAccessibilityChanged, Executor
  <2>2. OneChange(Seen(exec), Seen(once(o, found)))
    BY OutcomeNeedsDrive, AccessibilitySeen
  <2>3. Seen(twice(o, found)) = Seen(once(o, found))
    BY <1>0, SecondAccessibilityUnseen
  <2> HIDE DEF once, twice
  <2>4. QED  BY <1>1, <1>2, <2>1, <2>2, <2>3
<1>7. CASE TakeBackupNow \/ AnswerYes
  BY <1>0, <1>1, <1>7, EnterSeen DEF TakeBackupNow, AnswerYes
<1>8. CASE AnswerNo
  BY <1>0, <1>1, <1>8, OthersUnseen DEF AnswerNo, OneChange
<1>9. CASE ShowFiles
  <2>1. exec'.state = exec.state /\ exec'.backups = exec.backups /\ exec'.sizes = exec.sizes
    BY <1>0, <1>9 DEF ShowFiles, ShowFilesClicked, Executor
  <2>2. QED  BY <1>1, <2>1, UnseenIf DEF OneChange
<1>10. CASE CheckIntegrity
  BY <1>0, <1>1, <1>10, TestStartSeen DEF CheckIntegrity
<1>11. CASE \E n \in {"fail", "integrity"} : AcceptRepair(n)
  <2>1. PICK n : exec' = StartRepairJob([exec EXCEPT !.offers = @ \ {n}])
    BY <1>11 DEF AcceptRepair
  <2> DEFINE x == [exec EXCEPT !.offers = @ \ {n}]
  <2>2. x \in Executor /\ Seen(x) = Seen(exec) /\ exec' = StartRepairJob(x)
    BY <1>0, <2>1, OthersUnseen
  <2> HIDE DEF x
  <2>3. QED  BY <1>1, <2>2, TestStartSeen
<1>12. CASE \E n \in {"fail", "integrity"} : DeclineRepair(n)
  BY <1>0, <1>1, <1>12, OthersUnseen DEF DeclineRepair, OneChange
<1>13. CASE BackupDone
  BY <1>0, <1>1, <1>13, BackupDoneSeen DEF BackupDone
<1>14. CASE BackupSizeDone
  BY <1>0, <1>14, SizeDoneSeen DEF BackupSizeDone
<1>15. CASE \E own \in BOOLEAN : CheckDone(own) \/ RepairDone(own)
  BY <1>0, <1>1, <1>15, TestEndSeen DEF CheckDone, RepairDone
<1>16. CASE UsageMonitorTimeout
  BY <1>0, <1>1, <1>16, UsageMonitorSeen DEF UsageMonitorTimeout
<1>17. CASE Wakeup
  BY <1>0, <1>17, TimeoutSeen DEF Wakeup
<1>18. CASE Tick
  BY <1>0, <1>1, <1>18, OthersUnseen DEF Tick, OneChange
<1>19. CASE Crash
  <2>1. exec.plan \in Plan
    BY <1>0 DEF Executor
  <2>2. QED  BY <1>19, <2>1, RecreateSeen DEF Crash
<1>20. CASE Reload
  BY <1>20, EDAssumption, RecreateSeen DEF Reload, EDAssumption
<1>21. QED
  BY <1>3, <1>4, <1>5, <1>6, <1>7, <1>8, <1>9, <1>10, <1>11, <1>12, <1>13, <1>14, <1>15,
     <1>16, <1>17, <1>18, <1>19, <1>20 DEF Next

\* Every step of a plan on an external drive is, for the daemon, a step that KupDaemon
\* lets an executor take: the composed daemon leaves nothing out.
THEOREM DaemonSeesItAll == Spec => ChangesAsSeen
<1> DEFINE A == \/ MayBecome(Seen(exec), Seen(exec'))
                \/ (Crash \/ Reload) /\ Seen(exec') \in NewViews
<1>1. IInv /\ [Next]_vars => [A]_vars
  BY IInvIsGood, StepSeen
<1>2. QED
  BY <1>1, InvariantsHold, PTL DEF Spec, ChangesAsSeen
=============================================================================
