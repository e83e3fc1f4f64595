------------------------- MODULE PlanExecutorProofs -------------------------
(***************************************************************************)
(* What the slots of PlanExecutor preserve, for every executor and every   *)
(* value of Interval and UsageLimit.  Two predicates carry the argument:   *)
(* Sane holds of the executor also in the middle of a slot, Sound holds    *)
(* between slots.  The dispatcher enterAvailableState() is what leads from *)
(* one to the other: whatever it is called with, it leaves a wakeup behind *)
(* where one is needed.                                                    *)
(***************************************************************************)
EXTENDS PlanExecutor, TLAPS

Sane(e) ==
  /\ e \in Executor
  /\ RunnableByHand(e)
  /\ RecordIsHonest(e)
  /\ TestReturnsToIdle(e)
  /\ TestHasCause(e)

Sound(e) ==
  /\ Sane(e)
  /\ HasWakeup(e)
  /\ SleepsWhileAway(e)

-----------------------------------------------------------------------------
(***************************************************************************)
(* Types.                                                                  *)
(***************************************************************************)
LEMMA CountersType ==
  ASSUME NEW e \in Executor
  PROVE  /\ e.backups + 1 \in Nat /\ e.sizes + 1 \in Nat
         /\ e.checks + 1 \in Nat /\ e.repairs + 1 \in Nat
         /\ e.backups > 0 => e.backups - 1 \in Nat
         /\ e.sizes > 0 => e.sizes - 1 \in Nat
         /\ e.checks > 0 => e.checks - 1 \in Nat
         /\ e.repairs > 0 => e.repairs - 1 \in Nat
BY DEF Executor

LEMMA StartedType ==
  ASSUME NEW e \in Executor, NEW n \in Nat
  PROVE  [e EXCEPT !.backups = n, !.wantsRun = FALSE] \in Executor
BY DEF Executor

\* What asks for the drive to be mounted changes, to run or to show.
LEMMA ConnectedType ==
  ASSUME NEW e \in Executor
  PROVE  /\ OneMore(e.listening, 1) \in {1, 2} /\ OneMore(e.listening, 1) > 0
         /\ [e EXCEPT !.wantsRun = TRUE, !.listening = OneMore(@, 1)] \in Executor
         /\ [e EXCEPT !.wantsShow = TRUE, !.listening = OneMore(@, 1)] \in Executor
<1>1. OneMore(e.listening, 1) \in {1, 2} /\ OneMore(e.listening, 1) > 0
  BY DEF Executor, OneMore
<1>2. ASSUME NEW n \in {1, 2}
      PROVE  /\ [e EXCEPT !.wantsRun = TRUE, !.listening = n] \in Executor
             /\ [e EXCEPT !.wantsShow = TRUE, !.listening = n] \in Executor
  BY DEF Executor
<1>3. QED  BY <1>1, <1>2

LEMMA StartBackupType ==
  ASSUME NEW e \in Executor, NEW o
  PROVE  StartBackup(e, o) \in Executor
<1>1. CASE o = "job"
  BY <1>1, CountersType, StartedType DEF StartBackup
<1>2. CASE o = "failed"
  BY <1>2 DEF StartBackup, ExitBackupRunningStateFailed, Executor, ExecutorState
<1>3. CASE o = "mounting"
  BY <1>3, ConnectedType DEF StartBackup
<1>4. CASE o \notin {"job", "failed", "mounting"}
  BY <1>4 DEF StartBackup
<1>5. QED BY <1>1, <1>2, <1>3, <1>4

LEMMA EnterType ==
  ASSUME NEW e \in Executor, NEW o
  PROVE  EnterBackupRunningState(e, o) \in Executor
<1> DEFINE entered == [e EXCEPT !.question = FALSE, !.state = "BACKUP_RUNNING",
                                !.runAction = FALSE]
<1>1. entered \in Executor
  BY DEF Executor, ExecutorState, BusyStates
<1>2. QED BY <1>1, StartBackupType DEF EnterBackupRunningState

LEMMA AsleepType ==
  ASSUME NEW e \in Executor, NEW n \in {Stopped} \cup 0 .. Interval
  PROVE  [e EXCEPT !.timer = n] \in Executor
BY DEF Executor

LEMMA TimerRange ==
  ASSUME NEW e \in Executor, ~Due(e), e.plan.schedule = "INTERVAL"
  PROVE  e.age # Never /\ Interval - e.age \in 0 .. Interval
BY SchedulingAssumption DEF Due, Executor, Ages, Never

-----------------------------------------------------------------------------
(***************************************************************************)
(* Entering BACKUP_RUNNING and the dispatcher.                             *)
(***************************************************************************)
LEMMA StartBackupSane ==
  ASSUME NEW e, Sane(e), NEW o
  PROVE  Sane(StartBackup(e, o))
<1> DEFINE r == StartBackup(e, o)
<1>1. e \in Executor /\ r \in Executor
  BY StartBackupType DEF Sane
<1>2. CASE o = "failed"
  BY <1>1, <1>2 DEF Sane, StartBackup, ExitBackupRunningStateFailed, Executor,
     RunnableByHand, RecordIsHonest, TestReturnsToIdle, TestHasCause
<1>3. CASE o \in {"job", "mounting"}
  BY <1>1, <1>3 DEF Sane, StartBackup, Executor,
     RunnableByHand, RecordIsHonest, TestReturnsToIdle, TestHasCause
<1>4. CASE o \notin {"job", "failed", "mounting"}
  BY <1>4 DEF StartBackup
<1>5. QED BY <1>2, <1>3, <1>4

LEMMA StartBackupKeeps ==
  ASSUME NEW e \in Executor, NEW o
  PROVE  LET r == StartBackup(e, o)
         IN  /\ r.state \in {e.state, "WAITING_FOR_MANUAL_BACKUP"}
             /\ r.plan = e.plan /\ r.timer = e.timer /\ r.age = e.age
             /\ r.lastState = e.lastState
             /\ r.udi = e.udi /\ r.showAction = e.showAction
<1>1. CASE o = "failed"
  BY <1>1 DEF StartBackup, ExitBackupRunningStateFailed, Executor
<1>2. CASE o \in {"job", "mounting"}
  BY <1>2 DEF StartBackup, Executor
<1>3. CASE o \notin {"job", "failed", "mounting"}
  BY <1>3 DEF StartBackup
<1>4. QED BY <1>1, <1>2, <1>3

LEMMA StartBackupSound ==
  ASSUME NEW e, Sound(e), NEW o
  PROVE  Sound(StartBackup(e, o))
BY StartBackupSane, StartBackupKeeps
   DEF Sound, Sane, HasWakeup, OnSchedule, SleepsWhileAway, WaitingStates

LEMMA EnterSound ==
  ASSUME NEW e, Sane(e), NEW o
  PROVE  /\ Sound(EnterBackupRunningState(e, o))
         /\ EnterBackupRunningState(e, o).state # "NOT_AVAILABLE"
         /\ EnterBackupRunningState(e, o).udi = e.udi
         /\ EnterBackupRunningState(e, o).showAction = e.showAction
<1> DEFINE entered == [e EXCEPT !.question = FALSE, !.state = "BACKUP_RUNNING",
                                !.runAction = FALSE]
<1>1. /\ entered \in Executor
      /\ entered.state = "BACKUP_RUNNING"
      /\ entered.udi = e.udi /\ entered.showAction = e.showAction
  BY DEF Sane, Executor, ExecutorState, BusyStates
<1>2. Sane(entered)
  BY <1>1 DEF Sane, Executor, RunnableByHand, RecordIsHonest, TestReturnsToIdle,
     TestHasCause, WaitingStates
<1>3. Sound(entered)
  BY <1>1, <1>2 DEF Sound, HasWakeup, OnSchedule, SleepsWhileAway, WaitingStates
<1>4. QED
  BY <1>1, <1>3, StartBackupSound, StartBackupKeeps DEF EnterBackupRunningState

LEMMA FollowSound ==
  ASSUME NEW e, Sane(e), e.state # "NOT_AVAILABLE", NEW o
  PROVE  /\ Sound(FollowSchedule(e, o))
         /\ FollowSchedule(e, o).state # "NOT_AVAILABLE"
         /\ FollowSchedule(e, o).udi = e.udi
         /\ FollowSchedule(e, o).showAction = e.showAction
<1> DEFINE asks == e.plan.ask /\ e.state = "WAITING_FOR_FIRST_BACKUP"
           r == FollowSchedule(e, o)
<1>0. e \in Executor
  BY DEF Sane
<1>1. CASE Due(e) /\ asks
  <2>1. r = [e EXCEPT !.question = TRUE, !.state = "WAITING_FOR_MANUAL_BACKUP"]
    BY <1>1 DEF FollowSchedule, AskUser
  <2>2. r \in Executor
    BY <1>0, <2>1 DEF Executor, ExecutorState
  <2>3. e.runAction
    BY <1>1 DEF Sane, RunnableByHand, WaitingStates
  <2>4. Sane(r)
    BY <1>0, <2>1, <2>2, <2>3 DEF Sane, Executor, RunnableByHand, RecordIsHonest,
       TestReturnsToIdle, TestHasCause
  <2>5. QED
    BY <1>0, <2>1, <2>4 DEF Executor, Sound, HasWakeup, OnSchedule, SleepsWhileAway,
       WaitingStates
<1>2. CASE Due(e) /\ ~asks
  BY <1>2, EnterSound DEF FollowSchedule
<1>3. CASE ~Due(e) /\ e.plan.schedule = "INTERVAL"
  <2> DEFINE t == Interval - e.age
  <2>1. e.age # Never /\ t \in 0 .. Interval
    BY <1>0, <1>3, TimerRange
  <2>2. r = [e EXCEPT !.timer = t]
    BY <1>3 DEF FollowSchedule
  <2>3. r \in Executor
    BY <1>0, <2>1, <2>2, AsleepType
  <2> HIDE DEF t
  <2>4. Sane(r)
    BY <1>0, <2>2, <2>3 DEF Sane, Executor, RunnableByHand, RecordIsHonest,
       TestReturnsToIdle, TestHasCause
  <2>5. r.timer = t /\ r.age = e.age /\ r.state = e.state
        /\ r.udi = e.udi /\ r.showAction = e.showAction
    BY <1>0, <2>2 DEF Executor
  <2>6. HasWakeup(r)
    BY <1>0, <2>1, <2>5, SchedulingAssumption
       DEF HasWakeup, t, Stopped, Executor, Ages, Never
  <2>7. QED
    BY <2>4, <2>5, <2>6 DEF Sound, SleepsWhileAway
<1>4. CASE ~Due(e) /\ e.plan.schedule # "INTERVAL"
  BY <1>4 DEF FollowSchedule, Sound, HasWakeup, SleepsWhileAway
<1>5. QED  BY <1>1, <1>2, <1>3, <1>4

LEMMA EnterAvailableSound ==
  ASSUME NEW e, Sane(e), NEW o
  PROVE  /\ Sound(EnterAvailableState(e, o))
         /\ EnterAvailableState(e, o).state # "NOT_AVAILABLE"
         /\ EnterAvailableState(e, o).udi = e.udi
         /\ e.state # "NOT_AVAILABLE" =>
              EnterAvailableState(e, o).showAction = e.showAction
<1> DEFINE m == MakeAvailable(e)
<1>1. CASE e.state = "NOT_AVAILABLE"
  <2>1. m = [e EXCEPT !.state = "WAITING_FOR_FIRST_BACKUP",
                      !.runAction = TRUE, !.showAction = TRUE]
    BY <1>1 DEF MakeAvailable
  <2>2. m \in Executor
    BY <2>1 DEF Sane, Executor, ExecutorState, WaitingStates
  <2>3. Sane(m) /\ m.state # "NOT_AVAILABLE" /\ m.udi = e.udi
    BY <2>1, <2>2 DEF Sane, Executor, RunnableByHand, RecordIsHonest,
       TestReturnsToIdle, TestHasCause
  <2>4. QED  BY <1>1, <2>3, FollowSound DEF EnterAvailableState
<1>2. CASE e.state # "NOT_AVAILABLE"
  BY <1>2, FollowSound DEF EnterAvailableState, MakeAvailable
<1>3. QED  BY <1>1, <1>2

-----------------------------------------------------------------------------
(***************************************************************************)
(* A backup that is running has a cause, unless startBackup() did nothing. *)
(***************************************************************************)
LEMMA StartBackupCaused ==
  ASSUME NEW e \in Executor, NEW o \in BackupOutcomes \ {"nothing"}
  PROVE  BackupHasCause(StartBackup(e, o))
<1>1. CASE o = "job"
  <2> DEFINE r == StartBackup(e, o)
  <2>1. r.backups = e.backups + 1 /\ r.sizes = e.sizes
    BY <1>1 DEF StartBackup, Executor
  <2>2. QED  BY <2>1 DEF BackupHasCause, Executor
<1>2. CASE o = "failed"
  BY <1>2 DEF StartBackup, ExitBackupRunningStateFailed, Executor, BackupHasCause
<1>3. CASE o = "mounting"
  <2> DEFINE r == StartBackup(e, o)
  <2>1. r.wantsRun = TRUE /\ r.listening = OneMore(e.listening, 1)
    BY <1>3 DEF StartBackup, Executor
  <2>2. r.listening > 0
    BY <2>1, ConnectedType
  <2>3. QED  BY <2>1, <2>2 DEF BackupHasCause
<1>4. QED  BY <1>1, <1>2, <1>3 DEF BackupOutcomes

LEMMA EnterCaused ==
  ASSUME NEW e \in Executor, NEW o \in BackupOutcomes \ {"nothing"}
  PROVE  BackupHasCause(EnterBackupRunningState(e, o))
<1> DEFINE entered == [e EXCEPT !.question = FALSE, !.state = "BACKUP_RUNNING",
                                !.runAction = FALSE]
<1>1. entered \in Executor
  BY DEF Executor, ExecutorState, BusyStates
<1>2. QED  BY <1>1, StartBackupCaused DEF EnterBackupRunningState

LEMMA EnterAvailableCaused ==
  ASSUME NEW e \in Executor, BackupHasCause(e), NEW o \in BackupOutcomes \ {"nothing"}
  PROVE  BackupHasCause(EnterAvailableState(e, o))
<1> DEFINE m == MakeAvailable(e)
           asks == m.plan.ask /\ m.state = "WAITING_FOR_FIRST_BACKUP"
<1>1. m \in Executor /\ BackupHasCause(m)
  <2>1. CASE e.state = "NOT_AVAILABLE"
    BY <2>1 DEF MakeAvailable, Executor, ExecutorState, WaitingStates, BackupHasCause
  <2>2. CASE e.state # "NOT_AVAILABLE"
    BY <2>2 DEF MakeAvailable
  <2>3. QED  BY <2>1, <2>2
<1> HIDE DEF m
<1>2. CASE Due(m) /\ asks
  BY <1>1, <1>2 DEF FollowSchedule, AskUser, Executor, BackupHasCause, EnterAvailableState, m
<1>3. CASE Due(m) /\ ~asks
  BY <1>1, <1>3, EnterCaused DEF FollowSchedule, EnterAvailableState, m
<1>4. CASE ~Due(m) /\ m.plan.schedule = "INTERVAL"
  <2>1. EnterAvailableState(e, o) = [m EXCEPT !.timer = Interval - m.age]
    BY <1>4 DEF FollowSchedule, EnterAvailableState, m
  <2>2. QED  BY <1>1, <2>1 DEF Executor, BackupHasCause
<1>5. CASE ~Due(m) /\ m.plan.schedule # "INTERVAL"
  BY <1>1, <1>5 DEF FollowSchedule, EnterAvailableState, m
<1>6. QED  BY <1>2, <1>3, <1>4, <1>5

-----------------------------------------------------------------------------
(***************************************************************************)
(* The other slots.  Keeps says what a slot leaves to the subclass: whether *)
(* there is a drive, and that the plan is not shown as away because of it. *)
(***************************************************************************)
Keeps(e, r) ==
  /\ r.udi = e.udi
  /\ r.showAction = e.showAction
  /\ e.state # "NOT_AVAILABLE" => r.state # "NOT_AVAILABLE"

LEMMA NewSound ==
  ASSUME NEW plan \in Plan, NEW age \in Ages, NEW usage \in UsageTimes
  PROVE  LET e == NewExecutor(plan, age, usage)
         IN  /\ Sound(e) /\ BackupHasCause(e)
             /\ e.state = "NOT_AVAILABLE" /\ ~e.udi /\ ~e.showAction
<1> DEFINE e == NewExecutor(plan, age, usage)
<1>1. e \in Executor
  BY DEF NewExecutor, Executor, ExecutorState
<1>2. QED
  BY <1>1, SchedulingAssumption DEF NewExecutor, Sound, Sane, RunnableByHand, RecordIsHonest,
     TestReturnsToIdle, TestHasCause, HasWakeup, OnSchedule, SleepsWhileAway,
     WaitingStates, BackupHasCause, Ages, Never

LEMMA FailedSound ==
  ASSUME NEW e, Sane(e)
  PROVE  LET r == ExitBackupRunningStateFailed(e)
         IN  Sound(r) /\ BackupHasCause(r) /\ Keeps(e, r) /\ r.state # "NOT_AVAILABLE"
<1> DEFINE r == ExitBackupRunningStateFailed(e)
<1>1. e \in Executor /\ r \in Executor
  BY DEF Sane, ExitBackupRunningStateFailed, Executor, ExecutorState
<1>2. QED
  BY <1>1 DEF ExitBackupRunningStateFailed, Sound, Sane, RunnableByHand, RecordIsHonest,
     TestReturnsToIdle, TestHasCause, HasWakeup, OnSchedule, SleepsWhileAway,
     WaitingStates, BackupHasCause, Keeps, Executor

LEMMA OfferSound ==
  ASSUME NEW e, Sound(e), NEW n \in {"fail", "integrity"}, NEW result
  PROVE  LET r == Offer(e, n, result)
         IN  Sound(r) /\ (BackupHasCause(e) => BackupHasCause(r)) /\ Keeps(e, r)
<1> DEFINE r == Offer(e, n, result)
<1>1. e \in Executor /\ r \in Executor
  BY DEF Sound, Sane, Offer, Executor
<1>2. QED
  BY <1>1 DEF Offer, Sound, Sane, RunnableByHand, RecordIsHonest,
     TestReturnsToIdle, TestHasCause, HasWakeup, OnSchedule, SleepsWhileAway,
     BackupHasCause, Keeps, Executor

LEMMA DiscardSound ==
  ASSUME NEW e, Sound(e)
  PROVE  LET r == DiscardUserQuestion(e)
         IN  Sound(r) /\ (BackupHasCause(e) => BackupHasCause(r)) /\ Keeps(e, r)
<1> DEFINE r == DiscardUserQuestion(e)
<1>1. e \in Executor /\ r \in Executor
  BY DEF Sound, Sane, DiscardUserQuestion, Executor
<1>2. QED
  BY <1>1 DEF DiscardUserQuestion, Sound, Sane, RunnableByHand, RecordIsHonest,
     TestReturnsToIdle, TestHasCause, HasWakeup, OnSchedule, SleepsWhileAway,
     BackupHasCause, Keeps, Executor

LEMMA NotAvailableSound ==
  ASSUME NEW e, Sane(e)
  PROVE  LET r == EnterNotAvailableState(e)
         IN  Sound(r) /\ BackupHasCause(r) /\ r.udi = e.udi /\ ~r.showAction
<1> DEFINE r == EnterNotAvailableState(e)
<1>1. e \in Executor /\ r \in Executor
  BY DEF Sane, EnterNotAvailableState, Executor, ExecutorState
<1>2. QED
  BY <1>1 DEF EnterNotAvailableState, Sound, Sane, RunnableByHand, RecordIsHonest,
     TestReturnsToIdle, TestHasCause, HasWakeup, OnSchedule, SleepsWhileAway,
     WaitingStates, BackupHasCause, Executor

LEMMA SavedType ==
  ASSUME NEW e \in Executor, NEW a \in Ages, NEW u \in UsageTimes
  PROVE  [e EXCEPT !.savedAge = a, !.savedUsage = u] \in Executor
BY DEF Executor

\* save() needs nothing of what has been saved before.
LEMMA SaveSound ==
  ASSUME NEW e \in Executor, RunnableByHand(e), TestReturnsToIdle(e), TestHasCause(e)
  PROVE  LET r == Save(e)
         IN  /\ Sane(r)
             /\ HasWakeup(e) /\ SleepsWhileAway(e) => Sound(r)
             /\ BackupHasCause(e) => BackupHasCause(r)
             /\ Keeps(e, r) /\ r.state = e.state
<1> DEFINE r == Save(e)
<1>1. e.age \in Ages /\ e.usage \in UsageTimes /\ r \in Executor
  BY SavedType DEF Save, Executor
<1>2. /\ r.state = e.state /\ r.lastState = e.lastState /\ r.runAction = e.runAction
      /\ r.checks = e.checks /\ r.repairs = e.repairs /\ r.plan = e.plan
      /\ r.timer = e.timer /\ r.age = e.age
      /\ r.savedAge = e.age /\ r.usage = e.usage /\ r.savedUsage = e.usage
  BY DEF Save, Executor
<1>3. /\ r.backups = e.backups /\ r.sizes = e.sizes
      /\ r.wantsRun = e.wantsRun /\ r.listening = e.listening
      /\ r.udi = e.udi /\ r.showAction = e.showAction
  BY DEF Save, Executor
<1>4. RecordIsHonest(r)
  <2>1. e.age <= e.age
    BY <1>1, SchedulingAssumption DEF Ages, Never
  <2>2. QED  BY <1>2, <2>1 DEF RecordIsHonest
<1>5. Sane(r)
  BY <1>1, <1>2, <1>4 DEF Sane, RunnableByHand, TestReturnsToIdle, TestHasCause
<1>6. QED
  BY <1>2, <1>3, <1>5 DEF Sound, HasWakeup, OnSchedule, SleepsWhileAway, BackupHasCause, Keeps

-----------------------------------------------------------------------------
(***************************************************************************)
(* The slots in which jobs report and tests start.                         *)
(***************************************************************************)
LEMMA UsageType ==
  ASSUME NEW e \in Executor, NEW u \in UsageTimes
  PROVE  [e EXCEPT !.usage = u] \in Executor
BY DEF Executor

LEMMA ResetUsageSane ==
  ASSUME NEW e, Sane(e)
  PROVE  Sane(ResetUsage(e)) /\ Keeps(e, ResetUsage(e))
<1> DEFINE reset == [e EXCEPT !.usage = 0]
<1>1. e \in Executor /\ 0 \in UsageTimes
  BY SchedulingAssumption DEF Sane, UsageTimes
<1>2. reset \in Executor
  BY <1>1, UsageType
<1>3. /\ RunnableByHand(reset) /\ TestReturnsToIdle(reset) /\ TestHasCause(reset)
      /\ Keeps(e, reset)
  BY <1>1 DEF Sane, RunnableByHand, TestReturnsToIdle, TestHasCause, Keeps, Executor
<1>4. Sane(Save(reset)) /\ Keeps(reset, Save(reset))
  BY <1>2, <1>3, SaveSound
<1>5. QED  BY <1>3, <1>4 DEF ResetUsage, Keeps

LEMMA ExitSound ==
  ASSUME NEW e, Sane(e), NEW successful \in BOOLEAN, NEW o
  PROVE  LET r == ExitBackupRunningState(e, successful, o)
         IN  /\ Sound(r) /\ Keeps(e, r) /\ r.state # "NOT_AVAILABLE"
             /\ o \in BackupOutcomes \ {"nothing"} => BackupHasCause(r)
<1>1. CASE successful
  <2> DEFINE u == ResetUsage(e)
             x == [u EXCEPT !.state = "WAITING_FOR_BACKUP_AGAIN", !.runAction = TRUE]
  <2>1. Sane(u) /\ Keeps(e, u)
    BY ResetUsageSane
  <2> HIDE DEF u
  <2>2. x \in Executor
    BY <2>1 DEF Sane, Executor, ExecutorState, WaitingStates
  <2>3. /\ Sane(x) /\ BackupHasCause(x) /\ x.state # "NOT_AVAILABLE"
        /\ x.udi = u.udi /\ x.showAction = u.showAction
    BY <2>1, <2>2 DEF Sane, RunnableByHand, RecordIsHonest, TestReturnsToIdle,
       TestHasCause, BackupHasCause, Executor
  <2> HIDE DEF x
  <2>4. ExitBackupRunningState(e, successful, o) = EnterAvailableState(x, o)
    BY <1>1 DEF ExitBackupRunningState, x, u
  <2>5. QED
    BY <2>1, <2>2, <2>3, <2>4, EnterAvailableSound, EnterAvailableCaused DEF Keeps
<1>2. CASE ~successful
  BY <1>2, FailedSound DEF ExitBackupRunningState
<1>3. QED  BY <1>1, <1>2

LEMMA BackupDoneSound ==
  ASSUME NEW e, Sound(e), e.backups > 0, NEW result \in JobResults
  PROVE  LET r == SlotBackupDone(e, result)
         IN  Sound(r) /\ Keeps(e, r) /\ BackupHasCause(r)
<1> DEFINE n == e.backups - 1
           done == [e EXCEPT !.backups = n]
<1>1. e \in Executor /\ n \in Nat /\ e.sizes + 1 \in Nat
  BY CountersType DEF Sound, Sane
<1> HIDE DEF n
<1>2. done \in Executor
  BY <1>1 DEF Executor
<1>3. Sound(done) /\ Keeps(e, done) /\ done.sizes = e.sizes
  BY <1>1, <1>2 DEF Sound, Sane, RunnableByHand, RecordIsHonest, TestReturnsToIdle,
     TestHasCause, HasWakeup, OnSchedule, SleepsWhileAway, Keeps, Executor
<1>4. CASE result = "NoError"
  <2> DEFINE s == e.sizes + 1
             r == [done EXCEPT !.age = 0, !.sizes = s]
  <2>1. s \in Nat /\ s > 0 /\ 0 \in Ages /\ 0 # Never
    BY <1>1, SchedulingAssumption DEF Ages, Never, Executor
  <2>2. SlotBackupDone(e, result) = r
    BY <1>3, <1>4 DEF SlotBackupDone, n
  <2> HIDE DEF s, done
  <2>3. r \in Executor
    BY <1>2, <2>1 DEF Executor
  <2>4. /\ r.age = 0 /\ r.sizes = s /\ r.state = done.state /\ r.backups = done.backups
        /\ r.savedAge = done.savedAge /\ r.usage = done.usage
        /\ r.savedUsage = done.savedUsage /\ r.timer = done.timer
        /\ r.plan = done.plan /\ r.lastState = done.lastState
        /\ r.runAction = done.runAction /\ r.checks = done.checks
        /\ r.repairs = done.repairs /\ Keeps(done, r)
    BY <1>2 DEF Executor, Keeps
  <2>5. RecordIsHonest(r)
    <3>1. done.savedAge # Never => 0 <= done.savedAge
      BY <1>2, SchedulingAssumption DEF Executor, Ages, Never
    <3>2. QED  BY <1>3, <2>1, <2>4, <3>1 DEF Sound, Sane, RecordIsHonest
  <2>6. HasWakeup(r)
    <3>1. done.timer # Stopped => done.timer + 0 <= Interval
      BY <1>2, SchedulingAssumption DEF Executor, Stopped
    <3>2. QED  BY <1>3, <2>1, <2>4, <3>1 DEF Sound, HasWakeup, OnSchedule
  <2>7. BackupHasCause(r)
    BY <1>2, <2>1, <2>4 DEF BackupHasCause, Executor
  <2>8. QED
    BY <1>3, <2>2, <2>3, <2>4, <2>5, <2>6, <2>7 DEF Sound, Sane, RunnableByHand,
       TestReturnsToIdle, TestHasCause, SleepsWhileAway, Keeps
<1>5. CASE result # "NoError"
  <2> DEFINE offered == Offer(done, "fail", result)
  <2>1. Sound(offered) /\ Keeps(done, offered)
    BY <1>3, OfferSound
  <2>2. SlotBackupDone(e, result) = ExitBackupRunningStateFailed(offered)
    BY <1>5 DEF SlotBackupDone, n
  <2> HIDE DEF offered, done
  <2>3. QED  BY <1>3, <2>1, <2>2, FailedSound DEF Keeps, Sound
<1>6. QED  BY <1>4, <1>5

LEMMA SizeDoneSound ==
  ASSUME NEW e, Sound(e), e.sizes > 0, NEW successful \in BOOLEAN, NEW o
  PROVE  LET r == SlotBackupSizeDone(e, successful, o)
         IN  /\ Sound(r) /\ Keeps(e, r)
             /\ o \in BackupOutcomes \ {"nothing"} => BackupHasCause(r)
<1> DEFINE n == e.sizes - 1
           done == [e EXCEPT !.sizes = n]
<1>1. e \in Executor /\ n \in Nat
  BY CountersType DEF Sound, Sane
<1> HIDE DEF n
<1>2. done \in Executor
  BY <1>1 DEF Executor
<1>3. /\ RunnableByHand(done) /\ TestReturnsToIdle(done) /\ TestHasCause(done)
      /\ Keeps(e, done)
  BY <1>1 DEF Sound, Sane, RunnableByHand, TestReturnsToIdle, TestHasCause, Keeps, Executor
<1> HIDE DEF done
<1>4. Sane(Save(done)) /\ Keeps(done, Save(done))
  BY <1>2, <1>3, SaveSound
<1>5. SlotBackupSizeDone(e, successful, o) = ExitBackupRunningState(Save(done), successful, o)
  BY DEF SlotBackupSizeDone, done, n
<1>6. QED  BY <1>3, <1>4, <1>5, ExitSound DEF Keeps

LEMMA StartCheckSound ==
  ASSUME NEW e, Sound(e)
  PROVE  LET r == StartIntegrityCheck(e)
         IN  Sound(r) /\ Keeps(e, r) /\ (BackupHasCause(e) => BackupHasCause(r))
<1>1. CASE MayTest(e)
  <2> DEFINE n == e.checks + 1
             r == [e EXCEPT !.checks = n, !.lastState = e.state,
                            !.state = "INTEGRITY_TESTING", !.runAction = FALSE]
  <2>1. e \in Executor /\ n \in Nat /\ n > 0 /\ e.state \in ExecutorState
    BY CountersType DEF Sound, Sane, Executor
  <2>2. StartIntegrityCheck(e) = r
    BY <1>1 DEF StartIntegrityCheck
  <2> HIDE DEF n
  <2>3. r \in Executor
    BY <2>1 DEF Executor, ExecutorState, BusyStates
  <2>4. /\ r.state = "INTEGRITY_TESTING" /\ r.lastState = e.state /\ r.checks = n
        /\ r.timer = e.timer /\ r.age = e.age /\ r.plan = e.plan
        /\ r.savedAge = e.savedAge /\ r.usage = e.usage /\ r.savedUsage = e.savedUsage
        /\ Keeps(e, r)
    BY <2>1 DEF Executor, Keeps
  <2>5. e.state \in WaitingStates \cup {"WAITING_FOR_MANUAL_BACKUP"}
    BY <1>1, <2>1 DEF MayTest, busy, ExecutorState
  <2>6. Sane(r) /\ BackupHasCause(r)
    BY <2>1, <2>3, <2>4, <2>5 DEF Sound, Sane, RunnableByHand, RecordIsHonest,
       TestReturnsToIdle, TestHasCause, BackupHasCause, WaitingStates
  <2>7. HasWakeup(r) /\ SleepsWhileAway(r)
    BY <2>4 DEF Sound, HasWakeup, OnSchedule, SleepsWhileAway, WaitingStates
  <2>8. QED  BY <2>2, <2>4, <2>6, <2>7 DEF Sound
<1>2. CASE ~MayTest(e)
  BY <1>2 DEF StartIntegrityCheck, Keeps
<1>3. QED  BY <1>1, <1>2

LEMMA StartRepairSound ==
  ASSUME NEW e, Sound(e)
  PROVE  LET r == StartRepairJob(e)
         IN  Sound(r) /\ Keeps(e, r) /\ (BackupHasCause(e) => BackupHasCause(r))
<1>1. CASE MayTest(e)
  <2> DEFINE n == e.repairs + 1
             r == [e EXCEPT !.repairs = n, !.lastState = e.state,
                            !.state = "REPAIRING", !.runAction = FALSE]
  <2>1. e \in Executor /\ n \in Nat /\ n > 0 /\ e.state \in ExecutorState
    BY CountersType DEF Sound, Sane, Executor
  <2>2. StartRepairJob(e) = r
    BY <1>1 DEF StartRepairJob
  <2> HIDE DEF n
  <2>3. r \in Executor
    BY <2>1 DEF Executor, ExecutorState, BusyStates
  <2>4. /\ r.state = "REPAIRING" /\ r.lastState = e.state /\ r.repairs = n
        /\ r.timer = e.timer /\ r.age = e.age /\ r.plan = e.plan
        /\ r.savedAge = e.savedAge /\ r.usage = e.usage /\ r.savedUsage = e.savedUsage
        /\ Keeps(e, r)
    BY <2>1 DEF Executor, Keeps
  <2>5. e.state \in WaitingStates \cup {"WAITING_FOR_MANUAL_BACKUP"}
    BY <1>1, <2>1 DEF MayTest, busy, ExecutorState
  <2>6. Sane(r) /\ BackupHasCause(r)
    BY <2>1, <2>3, <2>4, <2>5 DEF Sound, Sane, RunnableByHand, RecordIsHonest,
       TestReturnsToIdle, TestHasCause, BackupHasCause, WaitingStates
  <2>7. HasWakeup(r) /\ SleepsWhileAway(r)
    BY <2>4 DEF Sound, HasWakeup, OnSchedule, SleepsWhileAway, WaitingStates
  <2>8. QED  BY <2>2, <2>4, <2>6, <2>7 DEF Sound
<1>2. CASE ~MayTest(e)
  BY <1>2 DEF StartRepairJob, Keeps
<1>3. QED  BY <1>1, <1>2

\* The state in which the last check or repair was started comes back; an
\* executor that is in another state stays there.
LEMMA RestoreSound ==
  ASSUME NEW e, e \in Executor, RecordIsHonest(e), TestReturnsToIdle(e),
         HasWakeup(e), SleepsWhileAway(e),
         NEW s \in {"INTEGRITY_TESTING", "REPAIRING"},
         e.state # s => TestHasCause(e)
  PROVE  LET r == RestoreFrom(e, s)
         IN  Sound(r) /\ Keeps(e, r) /\ (BackupHasCause(e) => BackupHasCause(r))
<1> DEFINE r == RestoreFrom(e, s)
<1>1. r \in Executor /\ Keeps(e, r)
  BY DEF RestoreFrom, Executor, Keeps, TestReturnsToIdle, WaitingStates
<1>2. /\ r.state = IF e.state = s THEN e.lastState ELSE e.state
      /\ r.runAction = TRUE /\ r.lastState = e.lastState
      /\ r.checks = e.checks /\ r.repairs = e.repairs
      /\ r.timer = e.timer /\ r.age = e.age /\ r.plan = e.plan
      /\ r.savedAge = e.savedAge /\ r.usage = e.usage /\ r.savedUsage = e.savedUsage
      /\ r.backups = e.backups /\ r.sizes = e.sizes
      /\ r.wantsRun = e.wantsRun /\ r.listening = e.listening
  BY DEF RestoreFrom, Executor
<1>3. Sane(r)
  BY <1>1, <1>2 DEF Sane, RunnableByHand, RecordIsHonest, TestReturnsToIdle, TestHasCause,
     WaitingStates
<1>4. HasWakeup(r) /\ SleepsWhileAway(r)
  BY <1>2 DEF HasWakeup, OnSchedule, SleepsWhileAway, TestReturnsToIdle, WaitingStates
<1>5. BackupHasCause(e) => BackupHasCause(r)
  BY <1>2 DEF BackupHasCause, TestReturnsToIdle, WaitingStates
<1>6. QED  BY <1>1, <1>3, <1>4, <1>5 DEF Sound

LEMMA CheckFinishedSound ==
  ASSUME NEW e, Sound(e), e.checks > 0, NEW result
  PROVE  LET r == IntegrityCheckFinished(e, result)
         IN  Sound(r) /\ Keeps(e, r) /\ (BackupHasCause(e) => BackupHasCause(r))
<1> DEFINE n == e.checks - 1
           done == [e EXCEPT !.checks = n]
           offered == Offer(done, "integrity", result)
<1>1. e \in Executor /\ n \in Nat
  BY CountersType DEF Sound, Sane
<1> HIDE DEF n
<1>2. done \in Executor /\ Keeps(e, done)
  BY <1>1 DEF Executor, Keeps
<1>3. /\ done.state = e.state /\ done.repairs = e.repairs
      /\ RecordIsHonest(done) /\ TestReturnsToIdle(done)
      /\ HasWakeup(done) /\ SleepsWhileAway(done)
      /\ BackupHasCause(e) => BackupHasCause(done)
  BY <1>1 DEF Sound, Sane, RecordIsHonest, TestReturnsToIdle, HasWakeup, OnSchedule,
     SleepsWhileAway, BackupHasCause, Executor
<1> HIDE DEF done
<1>4. offered \in Executor /\ Keeps(done, offered)
  BY <1>2 DEF Offer, Executor, Keeps
<1>5. /\ offered.state = done.state /\ offered.repairs = done.repairs
      /\ RecordIsHonest(offered) /\ TestReturnsToIdle(offered)
      /\ HasWakeup(offered) /\ SleepsWhileAway(offered)
      /\ BackupHasCause(done) => BackupHasCause(offered)
  BY <1>2, <1>3 DEF Offer, RecordIsHonest, TestReturnsToIdle, HasWakeup, OnSchedule,
     SleepsWhileAway, BackupHasCause, Executor
<1>6. offered.state # "INTEGRITY_TESTING" => TestHasCause(offered)
  BY <1>3, <1>5 DEF Sound, Sane, TestHasCause
<1> HIDE DEF offered
<1>7. IntegrityCheckFinished(e, result) = RestoreFrom(offered, "INTEGRITY_TESTING")
  BY DEF IntegrityCheckFinished, offered, done, n
<1>8. QED
  BY <1>2, <1>3, <1>4, <1>5, <1>6, <1>7, RestoreSound DEF Keeps

LEMMA RepairFinishedSound ==
  ASSUME NEW e, Sound(e), e.repairs > 0
  PROVE  LET r == RepairFinished(e)
         IN  Sound(r) /\ Keeps(e, r) /\ (BackupHasCause(e) => BackupHasCause(r))
<1> DEFINE n == e.repairs - 1
           done == [e EXCEPT !.repairs = n]
<1>1. e \in Executor /\ n \in Nat
  BY CountersType DEF Sound, Sane
<1> HIDE DEF n
<1>2. done \in Executor /\ Keeps(e, done)
  BY <1>1 DEF Executor, Keeps
<1>3. /\ done.state = e.state /\ done.checks = e.checks
      /\ RecordIsHonest(done) /\ TestReturnsToIdle(done)
      /\ HasWakeup(done) /\ SleepsWhileAway(done)
      /\ BackupHasCause(e) => BackupHasCause(done)
  BY <1>1 DEF Sound, Sane, RecordIsHonest, TestReturnsToIdle, HasWakeup, OnSchedule,
     SleepsWhileAway, BackupHasCause, Executor
<1>4. done.state # "REPAIRING" => TestHasCause(done)
  BY <1>3 DEF Sound, Sane, TestHasCause
<1> HIDE DEF done
<1>5. RepairFinished(e) = RestoreFrom(done, "REPAIRING")
  BY DEF RepairFinished, done, n
<1>6. QED
  BY <1>2, <1>3, <1>4, <1>5, RestoreSound DEF Keeps

-----------------------------------------------------------------------------
(***************************************************************************)
(* Time.                                                                   *)
(***************************************************************************)
LEMMA OneMoreUsage ==
  ASSUME NEW u \in UsageTimes
  PROVE  OneMore(u, UsageLimit) \in UsageTimes
BY SchedulingAssumption DEF OneMore, UsageTimes

LEMMA UsageMonitorSound ==
  ASSUME NEW e, Sound(e), NEW o
  PROVE  LET r == UpdateAccumulatedUsageTime(e, o)
         IN  /\ Sound(r) /\ Keeps(e, r)
             /\ BackupHasCause(e) /\ o \in BackupOutcomes \ {"nothing"} => BackupHasCause(r)
<1> DEFINE u == OneMore(e.usage, UsageLimit)
           more == [e EXCEPT !.usage = u]
           counted == IF e.plan.schedule = "USAGE" THEN Save(more) ELSE e
<1>1. e \in Executor /\ u \in UsageTimes
  BY OneMoreUsage DEF Sound, Sane, Executor
<1> HIDE DEF u
<1>2. more \in Executor
  BY <1>1, UsageType
<1>3. /\ RunnableByHand(more) /\ TestReturnsToIdle(more) /\ TestHasCause(more)
      /\ HasWakeup(more) /\ SleepsWhileAway(more) /\ Keeps(e, more)
      /\ BackupHasCause(e) => BackupHasCause(more)
      /\ more.state = e.state
  BY <1>1 DEF Sound, Sane, RunnableByHand, TestReturnsToIdle, TestHasCause, HasWakeup,
     OnSchedule, SleepsWhileAway, Keeps, BackupHasCause, Executor
<1> HIDE DEF more
<1>4. /\ Sound(counted) /\ Keeps(e, counted) /\ counted.state = e.state
      /\ BackupHasCause(e) => BackupHasCause(counted)
  BY <1>2, <1>3, SaveSound DEF Keeps
<1>5. counted = IF e.plan.schedule = "USAGE"
                THEN Save([e EXCEPT !.usage = OneMore(@, UsageLimit)]) ELSE e
  BY DEF more, u
<1> HIDE DEF counted
<1>6. CASE e.state = "BACKUP_RUNNING"
  <2>1. UpdateAccumulatedUsageTime(e, o) = e
    BY <1>6 DEF UpdateAccumulatedUsageTime, WaitingStates
  <2>2. QED  BY <2>1 DEF Keeps
<1>7. CASE e.state \in WaitingStates /\ e.plan.schedule = "USAGE"
  <2>1. UpdateAccumulatedUsageTime(e, o) = EnterAvailableState(counted, o)
    BY <1>5, <1>7 DEF UpdateAccumulatedUsageTime, WaitingStates
  <2>2. counted.state # "NOT_AVAILABLE" /\ counted \in Executor
    BY <1>4, <1>7 DEF WaitingStates, Sound, Sane
  <2>3. QED
    BY <1>4, <2>1, <2>2, EnterAvailableSound, EnterAvailableCaused DEF Sound, Keeps
<1>8. CASE /\ e.state # "BACKUP_RUNNING"
           /\ ~(e.state \in WaitingStates /\ e.plan.schedule = "USAGE")
  <2>1. UpdateAccumulatedUsageTime(e, o) = counted
    BY <1>5, <1>8 DEF UpdateAccumulatedUsageTime
  <2>2. QED  BY <1>4, <2>1
<1>9. QED  BY <1>6, <1>7, <1>8

LEMMA TimeoutSound ==
  ASSUME NEW e, Sound(e), e.timer = 0, NEW o
  PROVE  LET r == SchedulingTimeout(e, o)
         IN  /\ Sound(r) /\ Keeps(e, r)
             /\ BackupHasCause(e) /\ o \in BackupOutcomes \ {"nothing"} => BackupHasCause(r)
<1> DEFINE x == [e EXCEPT !.timer = Stopped]
<1>1. e \in Executor /\ x \in Executor
  BY AsleepType DEF Sound, Sane
<1>2. /\ Sane(x) /\ x.state = e.state /\ Keeps(e, x)
      /\ BackupHasCause(e) => BackupHasCause(x)
  BY <1>1 DEF Sound, Sane, RunnableByHand, RecordIsHonest, TestReturnsToIdle,
     TestHasCause, Keeps, BackupHasCause, Executor
<1>3. e.state # "NOT_AVAILABLE"
  BY DEF Sound, SleepsWhileAway, Stopped
<1> HIDE DEF x
<1>4. SchedulingTimeout(e, o) = EnterAvailableState(x, o)
  BY DEF SchedulingTimeout, x
<1>5. QED
  BY <1>1, <1>2, <1>3, <1>4, EnterAvailableSound, EnterAvailableCaused DEF Keeps

LEMMA OlderAge ==
  ASSUME NEW a \in Ages
  PROVE  /\ Older(a) \in Ages
         /\ a # Never => Older(a) # Never /\ Older(a) <= a + 1 /\ a <= Older(a)
         /\ a = Never => Older(a) = Never
         /\ \A b \in Ages : a # Never /\ b # Never /\ a <= b => Older(a) <= Older(b)
BY SchedulingAssumption DEF Older, OneMore, Ages, Never

LEMMA ClockedType ==
  ASSUME NEW e \in Executor, NEW a \in Ages, NEW s \in Ages,
         NEW t \in {Stopped} \cup 0 .. Interval
  PROVE  [e EXCEPT !.age = a, !.savedAge = s, !.timer = t] \in Executor
BY DEF Executor

LEMMA TickSound ==
  ASSUME NEW e, Sound(e)
  PROVE  LET r == ClockTick(e)
         IN  Sound(r) /\ Keeps(e, r) /\ (BackupHasCause(e) => BackupHasCause(r))
<1> DEFINE a == Older(e.age)
           s == Older(e.savedAge)
           t == IF e.timer > 0 THEN e.timer - 1 ELSE e.timer
           r == [e EXCEPT !.age = a, !.savedAge = s, !.timer = t]
<1>1. e \in Executor /\ e.age \in Ages /\ e.savedAge \in Ages
  BY DEF Sound, Sane, Executor
<1>2. a \in Ages /\ s \in Ages /\ t \in {Stopped} \cup 0 .. Interval
  BY <1>1, OlderAge, SchedulingAssumption DEF Executor, Stopped
<1>3. ClockTick(e) = r
  BY DEF ClockTick
<1>4. /\ e.timer = Stopped <=> t = Stopped
      /\ e.timer > 0 => t = e.timer - 1
      /\ e.timer = 0 => t = 0
  BY <1>1, SchedulingAssumption DEF Executor, Stopped
<1>5. /\ e.savedAge # Never /\ e.age # Never /\ e.age <= e.savedAge => a <= s
      /\ s # Never <=> e.savedAge # Never
      /\ a # Never <=> e.age # Never
      /\ e.age # Never => a <= e.age + 1
  BY <1>1, OlderAge
<1> HIDE DEF a, s, t
<1>6. r \in Executor
  BY <1>1, <1>2, ClockedType
<1>7. /\ r.age = a /\ r.savedAge = s /\ r.timer = t
      /\ r.state = e.state /\ r.lastState = e.lastState /\ r.runAction = e.runAction
      /\ r.checks = e.checks /\ r.repairs = e.repairs /\ r.plan = e.plan
      /\ r.usage = e.usage /\ r.savedUsage = e.savedUsage
      /\ Keeps(e, r) /\ (BackupHasCause(e) => BackupHasCause(r))
  BY <1>1 DEF Executor, Keeps, BackupHasCause
<1>8. Sane(r)
  BY <1>5, <1>6, <1>7 DEF Sound, Sane, RunnableByHand, RecordIsHonest, TestReturnsToIdle,
     TestHasCause
<1>9. HasWakeup(r)
  <2> SUFFICES ASSUME r.plan.schedule = "INTERVAL", OnSchedule(r)
               PROVE  /\ t # Stopped /\ a # Never
                      /\ t = 0 \/ t + a <= Interval
    BY <1>7 DEF HasWakeup
  <2>1. /\ e.timer # Stopped /\ e.age # Never
        /\ e.timer = 0 \/ e.timer + e.age <= Interval
    BY <1>7 DEF Sound, HasWakeup, OnSchedule
  <2>2. e.timer \in 0 .. Interval /\ e.age \in 0 .. (Interval + 1) /\ a \in 0 .. (Interval + 1)
    BY <1>1, <1>2, <1>5, <2>1 DEF Executor, Ages
  <2>3. QED  BY <1>4, <1>5, <2>1, <2>2, SchedulingAssumption DEF Stopped
<1>10. SleepsWhileAway(r)
  BY <1>4, <1>7 DEF Sound, SleepsWhileAway
<1>11. QED  BY <1>3, <1>7, <1>8, <1>9, <1>10 DEF Sound

-----------------------------------------------------------------------------
(***************************************************************************)
(* What the daemon sees of the slots.  V(p, n) is the view of an executor  *)
(* in phase p with n backups; most slots show one change at most, and the  *)
(* dispatcher one, or two when it finds the destination newly available.   *)
(***************************************************************************)
V(p, n) == [phase |-> p, backups |-> n]

OneChange(x, y) == y = x \/ y \in Changes(x)

LEMMA ViewOf ==
  ASSUME NEW x \in View
  PROVE  x = V(x.phase, x.backups)
BY DEF View, V

LEMMA TwoChanges ==
  ASSUME NEW x, NEW y \in AfterAppearing(x) \cup AfterBackup(x), NEW z,
         z = y \/ z \in AfterStart(y)
  PROVE  MayBecome(x, z)
BY DEF Changes, MayBecome

LEMMA SingleChanges ==
  ASSUME NEW p \in Phases, NEW n \in Nat
  PROVE  /\ OneChange(V(p, n), V("away", n))
         /\ OneChange(V(p, n), V("idle", n))
         /\ OneChange(V(p, n), V("backup", n))
         /\ OneChange(V(p, n), V("backup", n + 1))
         /\ p = "idle" => OneChange(V(p, n), V("test", n))
         /\ p # "away" => OneChange(V(p, n), V(p, n + 1))
         /\ n > 0 => OneChange(V(p, n), V("idle", n - 1))
         /\ p = "away" => V("idle", n) \in AfterAppearing(V(p, n))
         /\ n > 0 => V("idle", n - 1) \in AfterBackup(V(p, n))
         /\ {V("backup", n), V("backup", n + 1)} \subseteq AfterStart(V(p, n))
<1> DEFINE x == V(p, n)
<1>0. x.phase = p /\ x.backups = n /\ x \in View /\ \A q : InPhase(x, q) = V(q, n)
  BY DEF V, View, InPhase
<1>1. p # "away" => V(p, n + 1) \in AfterMount(x)
  BY <1>0 DEF AfterMount, V
<1> HIDE DEF x
<1>8. p = "away" => V("idle", n) \in AfterAppearing(x)
  BY <1>0 DEF AfterAppearing
<1>2. V("away", n) = x \/ V("away", n) \in AfterLeaving(x)
  BY <1>0, ViewOf DEF AfterLeaving
<1>3. V("idle", n) \in {x} \cup AfterAppearing(x) \cup AfterGivingUp(x) \cup AfterTest(x)
  BY <1>0, ViewOf DEF AfterAppearing, AfterGivingUp, AfterTest, Phases
<1>4. V("backup", n) \in AfterStart(x) /\ V("backup", n + 1) \in AfterStart(x)
  <2>1. ASSUME NEW k \in {0, 1}
        PROVE  [x EXCEPT !.phase = "backup", !.backups = x.backups + k] = V("backup", n + k)
    <3> DEFINE m == n + k
    <3>1. m \in Nat /\ "backup" \in Phases
      BY DEF Phases
    <3> HIDE DEF m
    <3> DEFINE y == [x EXCEPT !.phase = "backup", !.backups = m]
    <3>2. y \in View /\ y.phase = "backup" /\ y.backups = m
      BY <1>0, <3>1 DEF View
    <3>3. y = [x EXCEPT !.phase = "backup", !.backups = x.backups + k]
      BY <1>0 DEF m
    <3> HIDE DEF y
    <3>4. y = V("backup", m)
      BY <3>2, ViewOf
    <3>5. QED  BY <3>3, <3>4 DEF m
  <2>2. V("backup", n + 0) \in AfterStart(x) /\ V("backup", n + 1) \in AfterStart(x)
    BY <2>1 DEF AfterStart
  <2>3. QED  BY <2>2
<1>5. p = "idle" => V("test", n) \in AfterTestStart(x)
  BY <1>0 DEF AfterTestStart
<1>6. n > 0 => V("idle", n - 1) \in AfterBackup(x)
  <2> SUFFICES ASSUME n > 0 PROVE V("idle", n - 1) \in AfterBackup(x)
    OBVIOUS
  <2> DEFINE m == n - 1
  <2>1. m \in Nat /\ "idle" \in Phases
    BY DEF Phases
  <2> HIDE DEF m
  <2> DEFINE y == [x EXCEPT !.phase = "idle", !.backups = m]
  <2>2. y \in View /\ y.phase = "idle" /\ y.backups = m
    BY <1>0, <2>1 DEF View
  <2>3. y \in AfterBackup(x)
    BY <1>0 DEF m, AfterBackup
  <2> HIDE DEF y
  <2>4. y = V("idle", m)
    BY <2>2, ViewOf
  <2>5. QED  BY <2>3, <2>4 DEF m
<1>7. QED  BY <1>1, <1>2, <1>3, <1>4, <1>5, <1>6, <1>8 DEF OneChange, Changes, x

LEMMA PhasesOfStates ==
  /\ \A s \in ExecutorState : PhaseOf(s) \in Phases
  /\ \A s \in ExecutorState : PhaseOf(s) = "away" => s = "NOT_AVAILABLE"
  /\ PhaseOf("NOT_AVAILABLE") = "away"
  /\ PhaseOf("BACKUP_RUNNING") = "backup"
  /\ PhaseOf("INTEGRITY_TESTING") = "test" /\ PhaseOf("REPAIRING") = "test"
  /\ PhaseOf("WAITING_FOR_MANUAL_BACKUP") = "idle"
  /\ \A s \in WaitingStates : PhaseOf(s) = "idle"
BY DEF PhaseOf, ExecutorState, WaitingStates, BusyStates, Phases

LEMMA SeenType ==
  ASSUME NEW e \in Executor
  PROVE  /\ Seen(e) = V(PhaseOf(e.state), e.backups + e.sizes)
         /\ PhaseOf(e.state) \in Phases /\ e.backups + e.sizes \in Nat
BY PhasesOfStates DEF Seen, V, Executor

\* What does not touch the state and the backups is not seen.
LEMMA UnseenIf ==
  ASSUME NEW e, NEW r, r.state = e.state, r.backups = e.backups, r.sizes = e.sizes
  PROVE  Seen(r) = Seen(e)
BY DEF Seen

LEMMA StartBackupSeen ==
  ASSUME NEW e \in Executor, NEW o, o = "job" => e.state # "NOT_AVAILABLE"
  PROVE  OneChange(Seen(e), Seen(StartBackup(e, o)))
<1> DEFINE p == PhaseOf(e.state)
           n == e.backups + e.sizes
           r == StartBackup(e, o)
<1>0. Seen(e) = V(p, n) /\ p \in Phases /\ n \in Nat
  BY SeenType
<1>1. CASE o = "job"
  <2>1. /\ r.state = e.state /\ r.backups = e.backups + 1 /\ r.sizes = e.sizes
        /\ e.backups \in Nat /\ e.sizes \in Nat
    BY <1>1 DEF StartBackup, Executor
  <2>2. p # "away"
    BY <1>1, PhasesOfStates DEF Executor
  <2>3. Seen(r) = V(p, n + 1)
    BY <2>1 DEF Seen, V
  <2>4. QED  BY <1>0, <2>2, <2>3, SingleChanges
<1>2. CASE o = "failed"
  <2>1. r.state = "WAITING_FOR_MANUAL_BACKUP" /\ r.backups + r.sizes = n
    BY <1>2 DEF StartBackup, ExitBackupRunningStateFailed, Executor
  <2>2. Seen(r) = V("idle", n)
    BY <2>1, PhasesOfStates DEF Seen, V
  <2>3. QED  BY <1>0, <2>2, SingleChanges
<1>3. CASE o \notin {"job", "failed"}
  <2>1. r.state = e.state /\ r.backups = e.backups /\ r.sizes = e.sizes
    BY <1>3 DEF StartBackup, Executor
  <2>2. QED  BY <2>1, UnseenIf DEF OneChange
<1>4. QED  BY <1>1, <1>2, <1>3

\* The three faces of a backup that is being started.
LEMMA EnterSeen ==
  ASSUME NEW e \in Executor, NEW o
  PROVE  LET r == EnterBackupRunningState(e, o)
             n == e.backups + e.sizes
         IN  /\ Seen(r) \in {V("idle", n), V("backup", n), V("backup", n + 1)}
             /\ OneChange(Seen(e), Seen(r))
<1> DEFINE x == [e EXCEPT !.question = FALSE, !.state = "BACKUP_RUNNING",
                          !.runAction = FALSE]
           r == EnterBackupRunningState(e, o)
           n == e.backups + e.sizes
<1>1. /\ x \in Executor /\ x.state = "BACKUP_RUNNING"
      /\ x.backups = e.backups /\ x.sizes = e.sizes
  BY DEF Executor, ExecutorState, BusyStates
<1>2. r = StartBackup(x, o)
  BY DEF EnterBackupRunningState
<1> HIDE DEF x
<1>3. CASE o = "job"
  <2>1. /\ r.state = x.state /\ r.backups = x.backups + 1 /\ r.sizes = x.sizes
        /\ x.backups \in Nat /\ x.sizes \in Nat
    BY <1>1, <1>2, <1>3 DEF StartBackup, Executor
  <2>2. Seen(r) = V("backup", n + 1)
    BY <1>1, <2>1, PhasesOfStates DEF Seen, V
  <2>3. QED  BY <2>2, SeenType, SingleChanges
<1>4. CASE o = "failed"
  <2>1. r.state = "WAITING_FOR_MANUAL_BACKUP" /\ r.backups + r.sizes = n
    BY <1>1, <1>2, <1>4 DEF StartBackup, ExitBackupRunningStateFailed, Executor
  <2>2. QED  BY <2>1, SeenType, SingleChanges, PhasesOfStates DEF Seen, V
<1>5. CASE o \notin {"job", "failed"}
  <2>1. r.state = x.state /\ r.backups + r.sizes = n
    BY <1>1, <1>2, <1>5 DEF StartBackup, Executor
  <2>2. QED  BY <1>1, <2>1, SeenType, SingleChanges, PhasesOfStates DEF Seen, V
<1>6. QED  BY <1>3, <1>4, <1>5

LEMMA FollowSeen ==
  ASSUME NEW e \in Executor, NEW o
  PROVE  LET r == FollowSchedule(e, o)
             n == e.backups + e.sizes
         IN  /\ Seen(r) \in {Seen(e), V("idle", n), V("backup", n), V("backup", n + 1)}
             /\ OneChange(Seen(e), Seen(r))
<1> DEFINE r == FollowSchedule(e, o)
           asks == e.plan.ask /\ e.state = "WAITING_FOR_FIRST_BACKUP"
<1>1. CASE Due(e) /\ asks
  <2>1. /\ r.state = "WAITING_FOR_MANUAL_BACKUP"
        /\ r.backups = e.backups /\ r.sizes = e.sizes
    BY <1>1 DEF FollowSchedule, AskUser, Executor
  <2>2. Seen(r) = Seen(e)
    BY <1>1, <2>1, PhasesOfStates DEF Seen, WaitingStates
  <2>3. QED  BY <2>2 DEF OneChange
<1>2. CASE Due(e) /\ ~asks
  BY <1>2, EnterSeen DEF FollowSchedule
<1>3. CASE ~Due(e)
  <2>1. r.state = e.state /\ r.backups = e.backups /\ r.sizes = e.sizes
    BY <1>3 DEF FollowSchedule, Executor
  <2>2. QED  BY <2>1, UnseenIf DEF OneChange
<1>4. QED  BY <1>1, <1>2, <1>3

LEMMA MakeAvailableSeen ==
  ASSUME NEW e \in Executor
  PROVE  LET m == MakeAvailable(e)
             n == e.backups + e.sizes
         IN  /\ m \in Executor /\ m.backups = e.backups /\ m.sizes = e.sizes
             /\ e.state = "NOT_AVAILABLE" => Seen(m) = V("idle", n)
             /\ e.state = "NOT_AVAILABLE" => Seen(m) \in AfterAppearing(Seen(e))
             /\ e.state # "NOT_AVAILABLE" => m = e
<1> DEFINE m == MakeAvailable(e)
<1>1. CASE e.state = "NOT_AVAILABLE"
  <2>1. /\ m \in Executor /\ m.backups = e.backups /\ m.sizes = e.sizes
        /\ m.state = "WAITING_FOR_FIRST_BACKUP"
    BY <1>1 DEF MakeAvailable, Executor, ExecutorState, WaitingStates
  <2>2. Seen(m) = V("idle", e.backups + e.sizes)
    BY <2>1, PhasesOfStates DEF Seen, V, WaitingStates
  <2>3. QED  BY <1>1, <2>1, <2>2, SeenType, SingleChanges, PhasesOfStates
<1>2. CASE e.state # "NOT_AVAILABLE"
  BY <1>2 DEF MakeAvailable
<1>3. QED  BY <1>1, <1>2

LEMMA AvailableSeen ==
  ASSUME NEW e \in Executor, NEW o
  PROVE  LET r == EnterAvailableState(e, o)
             n == e.backups + e.sizes
         IN  /\ MayBecome(Seen(e), Seen(r))
             /\ e.state # "NOT_AVAILABLE" =>
                  /\ OneChange(Seen(e), Seen(r))
                  /\ Seen(r) \in {Seen(e), V("idle", n), V("backup", n), V("backup", n + 1)}
             /\ e.state = "NOT_AVAILABLE" /\ e.backups = 0 /\ e.sizes = 0
                  => Seen(r) \in {V("idle", 0), V("backup", 0), V("backup", 1)}
<1> DEFINE m == MakeAvailable(e)
           r == EnterAvailableState(e, o)
<1>1. /\ m \in Executor /\ m.backups = e.backups /\ m.sizes = e.sizes
      /\ e.state = "NOT_AVAILABLE" => Seen(m) = V("idle", e.backups + e.sizes)
      /\ e.state = "NOT_AVAILABLE" => Seen(m) \in AfterAppearing(Seen(e))
      /\ e.state # "NOT_AVAILABLE" => m = e
  BY MakeAvailableSeen
<1>2. r = FollowSchedule(m, o)
  BY DEF EnterAvailableState
<1> HIDE DEF m
<1>3. /\ Seen(r) \in {Seen(m), V("idle", m.backups + m.sizes), V("backup", m.backups + m.sizes),
                      V("backup", m.backups + m.sizes + 1)}
      /\ OneChange(Seen(m), Seen(r))
  BY <1>1, <1>2, FollowSeen
<1> HIDE DEF r
<1>4. CASE e.state = "NOT_AVAILABLE"
  <2> DEFINE n == e.backups + e.sizes
  <2>1. n \in Nat /\ Seen(m) = V("idle", n)
    BY <1>1, <1>4, SeenType
  <2>2. Seen(r) \in {V("idle", n), V("backup", n), V("backup", n + 1)}
    BY <1>1, <1>3, <2>1
  <2> HIDE DEF n
  <2>3. Seen(r) = Seen(m) \/ Seen(r) \in AfterStart(Seen(m))
    BY <2>1, <2>2, SingleChanges DEF Phases
  <2>4. MayBecome(Seen(e), Seen(r))
    BY <1>1, <1>4, <2>3, TwoChanges
  <2>5. e.backups = 0 /\ e.sizes = 0 => n = 0
    BY DEF n
  <2>6. QED  BY <1>4, <2>2, <2>4, <2>5 DEF r
<1>6. CASE e.state # "NOT_AVAILABLE"
  BY <1>1, <1>3, <1>6 DEF OneChange, MayBecome, r
<1>5. QED  BY <1>4, <1>6

LEMMA NotAvailableSeen ==
  ASSUME NEW e \in Executor
  PROVE  OneChange(Seen(e), Seen(EnterNotAvailableState(e)))
<1> DEFINE r == EnterNotAvailableState(e)
<1>1. r.state = "NOT_AVAILABLE" /\ r.backups = e.backups /\ r.sizes = e.sizes
  BY DEF EnterNotAvailableState, Executor
<1>2. Seen(r) = V("away", e.backups + e.sizes)
  BY <1>1, PhasesOfStates DEF Seen, V
<1>3. QED  BY <1>2, SeenType, SingleChanges

LEMMA BackupDoneSeen ==
  ASSUME NEW e \in Executor, e.backups > 0, NEW result
  PROVE  OneChange(Seen(e), Seen(SlotBackupDone(e, result)))
<1> DEFINE n    == e.backups + e.sizes
           done == [e EXCEPT !.backups = @ - 1]
           r    == SlotBackupDone(e, result)
<1>1. /\ done \in Executor /\ done.backups = e.backups - 1
      /\ done.sizes = e.sizes /\ done.state = e.state
  BY CountersType DEF Executor
<1>2. e.backups \in Nat /\ e.sizes \in Nat
  BY DEF Executor
<1>3. CASE result = "NoError"
  <2>1. r = [done EXCEPT !.age = 0, !.sizes = @ + 1]
    BY <1>3 DEF SlotBackupDone
  <2> HIDE DEF done
  <2>2. r.state = done.state /\ r.backups = done.backups /\ r.sizes = done.sizes + 1
    BY <1>1, <2>1 DEF Executor
  <2>3. Seen(r) = Seen(e)
    BY <1>1, <1>2, <2>2 DEF Seen
  <2>4. QED  BY <2>3 DEF OneChange
<1>4. CASE result # "NoError"
  <2>1. r = ExitBackupRunningStateFailed(Offer(done, "fail", result))
    BY <1>4 DEF SlotBackupDone
  <2> HIDE DEF done
  <2>2. /\ r.state = "WAITING_FOR_MANUAL_BACKUP"
        /\ r.backups = done.backups /\ r.sizes = done.sizes
    BY <1>1, <2>1 DEF ExitBackupRunningStateFailed, Offer, Executor
  <2>3. Seen(r) = V("idle", n - 1)
    BY <1>1, <1>2, <2>2, PhasesOfStates DEF Seen, V
  <2>4. n > 0
    BY <1>2
  <2>5. QED  BY <2>3, <2>4, SeenType, SingleChanges
<1>5. QED  BY <1>3, <1>4

LEMMA SaveUnseen ==
  ASSUME NEW e \in Executor
  PROVE  /\ Save(e) \in Executor
         /\ Save(e).state = e.state
         /\ Save(e).backups = e.backups /\ Save(e).sizes = e.sizes
<1>1. e.age \in Ages /\ e.usage \in UsageTimes
  BY DEF Executor
<1>2. Save(e) \in Executor
  BY <1>1, SavedType DEF Save
<1>3. QED  BY <1>2 DEF Save, Executor

LEMMA ResetUnseen ==
  ASSUME NEW e \in Executor
  PROVE  /\ ResetUsage(e) \in Executor
         /\ ResetUsage(e).backups = e.backups /\ ResetUsage(e).sizes = e.sizes
<1> DEFINE reset == [e EXCEPT !.usage = 0]
<1>1. 0 \in UsageTimes
  BY SchedulingAssumption DEF UsageTimes
<1>2. reset \in Executor /\ reset.backups = e.backups /\ reset.sizes = e.sizes
  BY <1>1 DEF Executor
<1>3. ResetUsage(e) = e \/ ResetUsage(e) = Save(reset)
  BY DEF ResetUsage
<1> HIDE DEF reset
<1>4. QED  BY <1>2, <1>3, SaveUnseen

\* The size of a backup arrives: the backup has ended, and the next may begin.
LEMMA SizeDoneSeen ==
  ASSUME NEW e \in Executor, e.sizes > 0, NEW successful \in BOOLEAN, NEW o
  PROVE  MayBecome(Seen(e), Seen(SlotBackupSizeDone(e, successful, o)))
<1> DEFINE n    == e.backups + e.sizes
           done == [e EXCEPT !.sizes = @ - 1]
           s    == Save(done)
           u    == ResetUsage(s)
           x    == [u EXCEPT !.state = "WAITING_FOR_BACKUP_AGAIN", !.runAction = TRUE]
           r    == SlotBackupSizeDone(e, successful, o)
<1>1. /\ done \in Executor /\ done.backups = e.backups /\ done.sizes = e.sizes - 1
      /\ e.backups \in Nat /\ e.sizes \in Nat
  BY CountersType DEF Executor
<1>2. n > 0
  BY <1>1
<1> HIDE DEF done
<1>3. s \in Executor /\ s.backups = done.backups /\ s.sizes = done.sizes
  BY <1>1, SaveUnseen
<1>4. r = ExitBackupRunningState(s, successful, o)
  BY DEF SlotBackupSizeDone, done
<1> HIDE DEF s
<1>5. CASE successful
  <2>1. u \in Executor /\ u.backups = s.backups /\ u.sizes = s.sizes
    BY <1>3, ResetUnseen
  <2>2. r = EnterAvailableState(x, o)
    BY <1>4, <1>5 DEF ExitBackupRunningState
  <2> HIDE DEF u
  <2>3. /\ x \in Executor /\ x.state = "WAITING_FOR_BACKUP_AGAIN"
        /\ x.backups = u.backups /\ x.sizes = u.sizes
    BY <2>1 DEF Executor, ExecutorState, WaitingStates
  <2> HIDE DEF x
  <2>4. Seen(x) = V("idle", n - 1)
    BY <1>1, <1>3, <2>1, <2>3, PhasesOfStates DEF Seen, V, WaitingStates
  <2>5. Seen(x) \in AfterBackup(Seen(e))
    BY <1>2, <2>4, SeenType, SingleChanges
  <2>6. Seen(r) = Seen(x) \/ Seen(r) \in AfterStart(Seen(x))
    <3> DEFINE k == n - 1
    <3>1. k \in Nat /\ x.backups + x.sizes = k
      BY <1>1, <1>2, <1>3, <2>1, <2>3
    <3>2. Seen(r) \in {Seen(x), V("idle", k), V("backup", k), V("backup", k + 1)}
      BY <2>2, <2>3, <3>1, AvailableSeen
    <3> HIDE DEF k
    <3>3. Seen(x) = V("idle", k)
      BY <2>4 DEF k
    <3>4. QED  BY <3>1, <3>2, <3>3, SingleChanges DEF Phases
  <2>7. QED  BY <2>5, <2>6, TwoChanges
<1>6. CASE ~successful
  <2>1. r = ExitBackupRunningStateFailed(s)
    BY <1>4, <1>6 DEF ExitBackupRunningState
  <2>2. /\ r.state = "WAITING_FOR_MANUAL_BACKUP"
        /\ r.backups = s.backups /\ r.sizes = s.sizes
    BY <1>3, <2>1 DEF ExitBackupRunningStateFailed, Executor
  <2>3. Seen(r) = V("idle", n - 1)
    BY <1>1, <1>3, <2>2, PhasesOfStates DEF Seen, V
  <2>4. OneChange(Seen(e), Seen(r))
    BY <1>2, <2>3, SeenType, SingleChanges
  <2>5. QED  BY <2>4 DEF OneChange, MayBecome
<1>7. QED  BY <1>5, <1>6

LEMMA TestStartSeen ==
  ASSUME NEW e \in Executor
  PROVE  /\ OneChange(Seen(e), Seen(StartIntegrityCheck(e)))
         /\ OneChange(Seen(e), Seen(StartRepairJob(e)))
<1> DEFINE n == e.backups + e.sizes
<1>1. ASSUME NEW r, r.state \in {"INTEGRITY_TESTING", "REPAIRING"},
             r.backups = e.backups, r.sizes = e.sizes, MayTest(e)
      PROVE  OneChange(Seen(e), Seen(r))
  <2>1. e.state \in WaitingStates \cup {"WAITING_FOR_MANUAL_BACKUP"}
    BY <1>1 DEF MayTest, busy, Executor, ExecutorState
  <2>2. PhaseOf(e.state) = "idle"
    BY <2>1, PhasesOfStates
  <2>3. Seen(r) = V("test", n)
    BY <1>1, PhasesOfStates DEF Seen, V
  <2>4. QED  BY <2>2, <2>3, SeenType, SingleChanges
<1>2. CASE MayTest(e)
  <2>1. LET r == StartIntegrityCheck(e)
        IN  r.state = "INTEGRITY_TESTING" /\ r.backups = e.backups /\ r.sizes = e.sizes
    BY <1>2 DEF StartIntegrityCheck, Executor
  <2>2. LET r == StartRepairJob(e)
        IN  r.state = "REPAIRING" /\ r.backups = e.backups /\ r.sizes = e.sizes
    BY <1>2 DEF StartRepairJob, Executor
  <2>3. QED  BY <1>1, <1>2, <2>1, <2>2
<1>3. CASE ~MayTest(e)
  BY <1>3 DEF StartIntegrityCheck, StartRepairJob, OneChange
<1>4. QED  BY <1>2, <1>3

\* A test ends in an executor that is idle again, or one that has left it.
LEMMA TestEndSeen ==
  ASSUME NEW e \in Executor, TestReturnsToIdle(e), NEW result
  PROVE  /\ OneChange(Seen(e), Seen(IntegrityCheckFinished(e, result)))
         /\ OneChange(Seen(e), Seen(RepairFinished(e)))
<1> DEFINE n == e.backups + e.sizes
<1>1. ASSUME NEW s \in {"INTEGRITY_TESTING", "REPAIRING"}, NEW r,
             r.state = IF e.state = s THEN e.lastState ELSE e.state,
             r.backups = e.backups, r.sizes = e.sizes
      PROVE  OneChange(Seen(e), Seen(r))
  <2>1. CASE e.state = s
    <3>1. PhaseOf(r.state) = "idle"
      BY <1>1, <2>1, PhasesOfStates DEF TestReturnsToIdle
    <3>2. Seen(r) = V("idle", n)
      BY <1>1, <3>1 DEF Seen, V
    <3>3. QED  BY <3>2, SeenType, SingleChanges
  <2>2. CASE e.state # s
    BY <1>1, <2>2, UnseenIf DEF OneChange
  <2>3. QED  BY <2>1, <2>2
<1>2. LET r == RepairFinished(e)
      IN  /\ r.state = IF e.state = "REPAIRING" THEN e.lastState ELSE e.state
          /\ r.backups = e.backups /\ r.sizes = e.sizes
  BY DEF RepairFinished, RestoreFrom, Executor
<1>3. LET r == IntegrityCheckFinished(e, result)
      IN  /\ r.state = IF e.state = "INTEGRITY_TESTING" THEN e.lastState ELSE e.state
          /\ r.backups = e.backups /\ r.sizes = e.sizes
  BY DEF IntegrityCheckFinished, RestoreFrom, Offer, Executor
<1>4. QED  BY <1>1, <1>2, <1>3

LEMMA UsageMonitorSeen ==
  ASSUME NEW e \in Executor, NEW o
  PROVE  OneChange(Seen(e), Seen(UpdateAccumulatedUsageTime(e, o)))
<1> DEFINE u       == OneMore(e.usage, UsageLimit)
           more    == [e EXCEPT !.usage = u]
           counted == IF e.plan.schedule = "USAGE" THEN Save(more) ELSE e
           r       == UpdateAccumulatedUsageTime(e, o)
<1>1. u \in UsageTimes
  BY OneMoreUsage DEF Executor
<1>2. /\ r \in {e, counted, EnterAvailableState(counted, o)}
      /\ r = EnterAvailableState(counted, o) => r \in {e, counted} \/ e.state \in WaitingStates
  BY DEF UpdateAccumulatedUsageTime
<1> HIDE DEF u
<1>3. more \in Executor /\ more.state = e.state
      /\ more.backups = e.backups /\ more.sizes = e.sizes
  BY <1>1, UsageType DEF Executor
<1> HIDE DEF more
<1>4. /\ counted \in Executor /\ counted.state = e.state
      /\ counted.backups = e.backups /\ counted.sizes = e.sizes
  BY <1>3, SaveUnseen
<1>5. Seen(counted) = Seen(e)
  BY <1>4, UnseenIf
<1> HIDE DEF counted
<1>6. CASE r \in {e, counted}
  BY <1>5, <1>6 DEF OneChange
<1>7. CASE e.state \in WaitingStates
  <2>1. counted.state # "NOT_AVAILABLE"
    BY <1>4, <1>7 DEF WaitingStates
  <2>2. OneChange(Seen(counted), Seen(EnterAvailableState(counted, o)))
    BY <1>4, <2>1, AvailableSeen
  <2>3. QED  BY <1>2, <1>5, <1>6, <2>2
<1>8. QED  BY <1>2, <1>6, <1>7

LEMMA TimeoutSeen ==
  ASSUME NEW e \in Executor, NEW o
  PROVE  MayBecome(Seen(e), Seen(SchedulingTimeout(e, o)))
<1> DEFINE x == [e EXCEPT !.timer = Stopped]
<1>1. /\ x \in Executor /\ x.state = e.state
      /\ x.backups = e.backups /\ x.sizes = e.sizes
  BY AsleepType DEF Executor
<1>2. SchedulingTimeout(e, o) = EnterAvailableState(x, o)
  BY DEF SchedulingTimeout
<1> HIDE DEF x
<1>3. QED  BY <1>1, <1>2, AvailableSeen, UnseenIf

\* What the slots change besides.
LEMMA OthersUnseen ==
  ASSUME NEW e \in Executor, NEW n
  PROVE  /\ Seen(DiscardUserQuestion(e)) = Seen(e)
         /\ Seen([e EXCEPT !.offers = @ \ {n}]) = Seen(e)
         /\ [e EXCEPT !.offers = @ \ {n}] \in Executor
         /\ Seen(ClockTick(e)) = Seen(e)
BY DEF DiscardUserQuestion, ClockTick, Seen, Executor

\* A new executor sees nothing yet; what it becomes when it looks, the daemon knows.
LEMMA NewSeen ==
  ASSUME NEW plan, NEW age, NEW usage
  PROVE  LET e == NewExecutor(plan, age, usage)
         IN  /\ e.state = "NOT_AVAILABLE" /\ e.backups = 0 /\ e.sizes = 0
             /\ Seen(e) = V("away", 0)
BY PhasesOfStates DEF NewExecutor, Seen, V

LEMMA NewViewsAre ==
  /\ V("away", 0) \in NewViews /\ V("idle", 0) \in NewViews
  /\ V("backup", 0) \in NewViews /\ V("backup", 1) \in NewViews
BY DEF V, NewViews
=============================================================================
