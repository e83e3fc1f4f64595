-------------------------- MODULE FSExecutorProofs --------------------------
(***************************************************************************)
(* The invariants of FSExecutor hold for any number of plans, any depth of *)
(* their destinations and any number of jobs, timers and mounts.  The      *)
(* executors themselves are covered by the lemmas of PlanExecutorProofs.   *)
(* That no plan is blind needs an invariant of its own, WillNotice: while  *)
(* a plan watches anything but what it should, a signal or a timer is on   *)
(* its way that makes it look again.  At the end, the steps: what the      *)
(* daemon sees of a plan changes as KupDaemon lets it.                     *)
(***************************************************************************)
EXTENDS FSExecutor, PlanExecutorProofs

Good(e) == Sound(e) /\ BackupHasCause(e)

\* What the slots of PlanExecutor do to the executor: never take it away.
Proceeds(e, r) ==
  /\ Good(r)
  /\ e.state # "NOT_AVAILABLE" => r.state # "NOT_AVAILABLE"

FolderType ==
  /\ folder \in [Plans -> Folder]
  /\ watched \in [Plans -> {NoParent} \cup 0 .. Depth - 1]
  /\ later \in BOOLEAN
  /\ timers \in [Plans -> Nat]
  /\ signals \in [Plans -> SUBSET Signals]

ExecutorsGood == exec \in [Plans -> Executor] /\ \A p \in Plans : Good(exec[p])

LEMMA GoodType == ASSUME NEW e, Good(e) PROVE e \in Executor
BY DEF Good, Sound, Sane

LEMMA OutcomeLegal ==
  ASSUME NEW e
  PROVE  Outcome(e) \in BackupOutcomes \ {"nothing"}
BY DEF Outcome, BackupOutcomes

-----------------------------------------------------------------------------
(***************************************************************************)
(* The executors.                                                          *)
(***************************************************************************)
LEMMA SeeGood ==
  ASSUME NEW e, Good(e), NEW f
  PROVE  /\ Good(SeeFolder(e, f))
         /\ Usable(f) => SeeFolder(e, f).state # "NOT_AVAILABLE"
<1>1. CASE Usable(f) /\ e.state = "NOT_AVAILABLE"
  <2>1. SeeFolder(e, f) = EnterAvailableState(e, Outcome(e))
    BY <1>1 DEF SeeFolder
  <2>2. Sane(e) /\ e \in Executor /\ BackupHasCause(e)
    BY DEF Good, Sound, Sane
  <2>3. BackupHasCause(EnterAvailableState(e, Outcome(e)))
    BY <2>2, OutcomeLegal, EnterAvailableCaused
  <2>4. QED  BY <2>1, <2>2, <2>3, EnterAvailableSound DEF Good
<1>2. CASE ~Usable(f) /\ e.state # "NOT_AVAILABLE"
  BY <1>2, NotAvailableSound DEF SeeFolder, Good, Sound
<1>3. CASE Usable(f) /\ e.state # "NOT_AVAILABLE"
  BY <1>3 DEF SeeFolder
<1>4. CASE ~Usable(f) /\ e.state = "NOT_AVAILABLE"
  BY <1>4 DEF SeeFolder
<1>5. QED  BY <1>1, <1>2, <1>3, <1>4

LEMMA EnterProceeds ==
  ASSUME NEW e, Good(e)
  PROVE  Proceeds(e, EnterBackupRunningState(e, Outcome(e)))
<1>1. e \in Executor /\ Sane(e)
  BY DEF Good, Sound, Sane
<1>2. BackupHasCause(EnterBackupRunningState(e, Outcome(e)))
  BY <1>1, OutcomeLegal, EnterCaused
<1>3. QED  BY <1>1, <1>2, EnterSound DEF Good, Proceeds

LEMMA WithoutProceeds ==
  ASSUME NEW e, Good(e), NEW n
  PROVE  Proceeds(e, Without(e, n))
<1>1. e \in Executor /\ Without(e, n) \in Executor
  BY DEF Good, Sound, Sane, Executor, Without
<1>2. QED
  BY <1>1 DEF Good, Proceeds, Sound, Sane, RunnableByHand, RecordIsHonest, TestReturnsToIdle,
     TestHasCause, HasWakeup, OnSchedule, SleepsWhileAway, BackupHasCause, Executor, Without

LEMMA UserProceeds ==
  ASSUME ExecutorsGood, NEW p \in Plans, User(p)
  PROVE  \E r : Proceeds(exec[p], r) /\ exec' = [exec EXCEPT ![p] = r]
<1> DEFINE e == exec[p]
<1>0. Good(e) /\ Sound(e)
  BY DEF ExecutorsGood, Good
<1>1. CASE UserStarts(p)
  BY <1>0, <1>1, EnterProceeds DEF UserStarts, Runs
<1>2. CASE AnswerNo(p)
  <2>1. Proceeds(e, DiscardUserQuestion(e))
    BY <1>0, DiscardSound DEF Good, Proceeds, Keeps
  <2>2. QED  BY <1>2, <2>1 DEF AnswerNo, Runs
<1>3. CASE CheckIntegrity(p)
  <2>1. Proceeds(e, StartIntegrityCheck(e))
    BY <1>0, StartCheckSound DEF Good, Proceeds, Keeps
  <2>2. QED  BY <1>3, <2>1 DEF CheckIntegrity, Runs
<1>4. ASSUME NEW n \in {"fail", "integrity"}, AcceptRepair(p, n)
      PROVE  \E r : Proceeds(e, r) /\ exec' = [exec EXCEPT ![p] = r]
  <2> DEFINE w == Without(e, n)
  <2>1. Proceeds(e, w) /\ Good(w) /\ Sound(w)
    BY <1>0, WithoutProceeds DEF Proceeds, Good
  <2> HIDE DEF w
  <2>2. Proceeds(e, StartRepairJob(w))
    BY <2>1, StartRepairSound DEF Good, Proceeds, Keeps
  <2>3. QED  BY <1>4, <2>2 DEF AcceptRepair, Runs, w
<1>5. ASSUME NEW n \in {"fail", "integrity"}, DeclineRepair(p, n)
      PROVE  \E r : Proceeds(e, r) /\ exec' = [exec EXCEPT ![p] = r]
  BY <1>0, <1>5, WithoutProceeds DEF DeclineRepair, Runs
<1>6. QED  BY <1>1, <1>2, <1>3, <1>4, <1>5 DEF User

LEMMA JobProceeds ==
  ASSUME ExecutorsGood, NEW p \in Plans, Job(p)
  PROVE  \E r : Proceeds(exec[p], r) /\ exec' = [exec EXCEPT ![p] = r]
<1> DEFINE e == exec[p]
<1>0. Good(e) /\ Sound(e) /\ e \in Executor
  BY DEF ExecutorsGood, Good
<1>1. CASE BackupDone(p)
  <2>1. PICK res \in JobResults :
           e.backups > 0 /\ exec' = [exec EXCEPT ![p] = SlotBackupDone(e, res)]
    BY <1>1 DEF BackupDone, ResultsOf, JobResults, Runs
  <2>2. Proceeds(e, SlotBackupDone(e, res))
    BY <1>0, <2>1, BackupDoneSound DEF Good, Proceeds, Keeps
  <2>3. QED  BY <2>1, <2>2
<1>2. CASE BackupSizeDone(p)
  <2>1. PICK ok \in BOOLEAN :
           /\ e.sizes > 0
           /\ exec' = [exec EXCEPT ![p] = SlotBackupSizeDone(e, ok, Outcome(e))]
    BY <1>2 DEF BackupSizeDone, Runs
  <2>2. Proceeds(e, SlotBackupSizeDone(e, ok, Outcome(e)))
    BY <1>0, <2>1, OutcomeLegal, SizeDoneSound DEF Good, Proceeds, Keeps
  <2>3. QED  BY <2>1, <2>2
<1>3. ASSUME NEW own \in BOOLEAN, CheckDone(p, own)
      PROVE  \E r : Proceeds(e, r) /\ exec' = [exec EXCEPT ![p] = r]
  <2>1. PICK res \in {"Error", "ErrorSuggestRepair"} :
           exec' = [exec EXCEPT ![p] = IntegrityCheckFinished(e, res)]
    BY <1>3 DEF CheckDone, Runs
  <2>2. e.checks > 0
    BY <1>0, <1>3 DEF CheckDone, Executor, Sound, Sane, TestHasCause
  <2>3. Proceeds(e, IntegrityCheckFinished(e, res))
    BY <1>0, <2>2, CheckFinishedSound DEF Good, Proceeds, Keeps
  <2>4. QED  BY <2>1, <2>3
<1>4. ASSUME NEW own \in BOOLEAN, RepairDone(p, own)
      PROVE  \E r : Proceeds(e, r) /\ exec' = [exec EXCEPT ![p] = r]
  <2>1. e.repairs > 0
    BY <1>0, <1>4 DEF RepairDone, Executor, Sound, Sane, TestHasCause
  <2>2. Proceeds(e, RepairFinished(e))
    BY <1>0, <2>1, RepairFinishedSound DEF Good, Proceeds, Keeps
  <2>3. QED  BY <1>4, <2>2 DEF RepairDone, Runs
<1>5. QED  BY <1>1, <1>2, <1>3, <1>4 DEF Job

LEMMA TimerProceeds ==
  ASSUME ExecutorsGood, NEW p \in Plans, Timer(p)
  PROVE  \E r : Proceeds(exec[p], r) /\ exec' = [exec EXCEPT ![p] = r]
<1> DEFINE e == exec[p]
<1>0. Good(e) /\ Sound(e)
  BY DEF ExecutorsGood, Good
<1>1. CASE UsageMonitorTimeout(p)
  <2>1. Proceeds(e, UpdateAccumulatedUsageTime(e, Outcome(e)))
    BY <1>0, OutcomeLegal, UsageMonitorSound DEF Good, Proceeds, Keeps
  <2>2. QED  BY <1>1, <2>1 DEF UsageMonitorTimeout, Runs
<1>2. CASE Wakeup(p)
  <2>1. Proceeds(e, SchedulingTimeout(e, Outcome(e)))
    BY <1>0, <1>2, OutcomeLegal, TimeoutSound DEF Wakeup, Good, Proceeds, Keeps
  <2>2. QED  BY <1>2, <2>1 DEF Wakeup, Runs
<1>3. QED  BY <1>1, <1>2 DEF Timer

\* A plan looks at its folder now, or does not look at all.
LEMMA MonitorLooks ==
  ASSUME NEW p \in Plans, Monitor(p)
  PROVE  UNCHANGED exec \/ exec' = [exec EXCEPT ![p] = SeeFolder(exec[p], folder[p])]
BY DEF Monitor, DirWatch, CheckMountPoints, LaterTimeout, CheckStatus, CheckStatusTwice,
   ComeBackLater, Examine, Runs

LEMMA RecreateGood ==
  ASSUME NEW e, Good(e), NEW plan \in Plan, NEW f
  PROVE  /\ Good(Recreate(e, plan, f))
         /\ Usable(f) => Recreate(e, plan, f).state # "NOT_AVAILABLE"
<1>1. e.savedAge \in Ages /\ e.savedUsage \in UsageTimes
  BY GoodType DEF Executor
<1>2. Good(NewExecutor(plan, e.savedAge, e.savedUsage))
  BY <1>1, NewSound DEF Good
<1>3. QED  BY <1>2, SeeGood DEF Recreate

LEMMA ReplaceGood ==
  ASSUME ExecutorsGood, NEW p \in Plans, NEW r, Good(r), exec' = [exec EXCEPT ![p] = r]
  PROVE  ExecutorsGood'
BY GoodType DEF ExecutorsGood

LEMMA SetupGood ==
  ASSUME ExecutorsGood, NEW plans \in [Plans -> Plan], SetupExecutors(plans)
  PROVE  ExecutorsGood'
<1>1. exec' = [p \in Plans |-> Recreate(exec[p], plans[p], folder[p])]
  BY DEF SetupExecutors
<1>2. ASSUME NEW p \in Plans
      PROVE  Good(Recreate(exec[p], plans[p], folder[p]))
  BY RecreateGood DEF ExecutorsGood
<1>3. QED  BY <1>1, <1>2, GoodType DEF ExecutorsGood

LEMMA StepGood ==
  ASSUME ExecutorsGood, [Next]_vars
  PROVE  ExecutorsGood'
<1>1. ASSUME NEW p \in Plans, FileSystem(p)
      PROVE  UNCHANGED exec
  BY <1>1 DEF FileSystem, Create, Delete, Mount, Unmount, ChangeMode, Noise, Becomes
<1>2. ASSUME NEW p \in Plans, Monitor(p)
      PROVE  ExecutorsGood'
  <2>1. Good(SeeFolder(exec[p], folder[p]))
    BY SeeGood DEF ExecutorsGood
  <2>2. CASE UNCHANGED exec
    BY <2>2 DEF ExecutorsGood
  <2>3. QED  BY <1>2, <2>1, <2>2, MonitorLooks, ReplaceGood
<1>3. ASSUME NEW p \in Plans, User(p) \/ Job(p) \/ Timer(p)
      PROVE  ExecutorsGood'
  <2>1. PICK r : Proceeds(exec[p], r) /\ exec' = [exec EXCEPT ![p] = r]
    BY <1>3, UserProceeds, JobProceeds, TimerProceeds
  <2>2. QED  BY <2>1, ReplaceGood DEF Proceeds
<1>4. CASE Tick
  <2>1. exec' = [p \in Plans |-> ClockTick(exec[p])]
    BY <1>4 DEF Tick
  <2>2. ASSUME NEW p \in Plans
        PROVE  Good(ClockTick(exec[p]))
    BY TickSound DEF ExecutorsGood, Good
  <2>3. QED  BY <2>1, <2>2, GoodType DEF ExecutorsGood
<1>5. CASE Crash
  <2> DEFINE plans == [p \in Plans |-> exec[p].plan]
  <2>1. plans \in [Plans -> Plan] /\ SetupExecutors(plans)
    BY <1>5 DEF Crash, ExecutorsGood, Executor
  <2>2. QED  BY <2>1, SetupGood
<1>6. CASE Reload
  <2>1. PICK plans \in [Plans -> PlanSettings] : SetupExecutors(plans)
    BY <1>6 DEF Reload
  <2>2. plans \in [Plans -> Plan]
    BY FSAssumption DEF FSAssumption
  <2>3. QED  BY <2>1, <2>2, SetupGood
<1>7. CASE UNCHANGED vars
  BY <1>7 DEF vars, ExecutorsGood
<1>8. QED
  <2>1. ASSUME UNCHANGED exec PROVE ExecutorsGood'
    BY <2>1 DEF ExecutorsGood
  <2>2. QED  BY <1>1, <1>2, <1>3, <1>4, <1>5, <1>6, <1>7, <2>1 DEF Next

LEMMA InitGood == Init => ExecutorsGood
<1> SUFFICES ASSUME Init PROVE ExecutorsGood
  OBVIOUS
<1>1. PICK plans \in [Plans -> PlanSettings] :
         exec = [p \in Plans |-> NewExecutor(plans[p], Never, 0)]
  BY DEF Init
<1>2. ASSUME NEW p \in Plans
      PROVE  Good(NewExecutor(plans[p], Never, 0))
  <2>1. plans[p] \in Plan /\ Never \in Ages /\ 0 \in UsageTimes
    BY FSAssumption, SchedulingAssumption DEF FSAssumption, Ages, UsageTimes
  <2>2. QED  BY <2>1, NewSound DEF Good
<1>3. QED  BY <1>1, <1>2, GoodType DEF ExecutorsGood

-----------------------------------------------------------------------------
(***************************************************************************)
(* The folders: types.                                                     *)
(***************************************************************************)
LEMMA ResizedType ==
  ASSUME NEW f \in Folder, NEW n \in 0 .. Depth, NEW g \in Resized(f, n)
  PROVE  g \in Folder /\ g.depth = n /\ g.mounts = f.mounts
BY DEF Resized, Folder

LEMMA NearestType ==
  ASSUME NEW f \in Folder
  PROVE  NearestParent(f) \in {NoParent} \cup 0 .. Depth - 1
BY FSAssumption DEF FSAssumption, NearestParent, Exists, Folder, NoParent

\* What an action of the file system does to one plan, and only to that one.
LEMMA FileSystemStep ==
  ASSUME FolderType, NEW p \in Plans, FileSystem(p)
  PROVE  /\ \E f \in Folder, ss \in SUBSET Signals : Becomes(p, f, ss)
         /\ folder' \in [Plans -> Folder]
         /\ signals' \in [Plans -> SUBSET Signals]
<1> DEFINE f == folder[p]
<1>0. /\ f \in Folder /\ f.depth \in 0 .. Depth /\ f.mounts \in 0 .. MaxMounts
      /\ Depth \in Nat /\ MountAt \in 0 .. Depth /\ CoverDepth \in MountAt .. Depth
      /\ MaxMounts \in Nat
  BY FSAssumption DEF FSAssumption, FolderType, Folder
<1>a. /\ \A n : DirtySignal(p, n) \in SUBSET Signals
      /\ MountSignal(p) \in SUBSET Signals
      /\ \A g : GoneSignal(p, g) \in SUBSET Signals
  BY DEF DirtySignal, MountSignal, GoneSignal, Signals
<1>1. CASE Create(p)
  <2>1. PICK g \in Resized(f, f.depth + 1) : Becomes(p, g, DirtySignal(p, f.depth))
    BY <1>1 DEF Create
  <2>2. f.depth + 1 \in 0 .. Depth
    BY <1>0, <1>1 DEF Create
  <2>3. g \in Folder
    BY <1>0, <2>2, ResizedType
  <2>4. QED  BY <1>a, <2>1, <2>3 DEF Becomes, FolderType
<1>2. CASE Delete(p)
  <2>1. PICK g \in Resized(f, f.depth - 1) :
           Becomes(p, g, DirtySignal(p, g.depth) \cup GoneSignal(p, g))
    BY <1>2 DEF Delete
  <2>2. f.depth - 1 \in 0 .. Depth
    BY <1>0, <1>2 DEF Delete
  <2>3. g \in Folder
    BY <1>0, <2>2, ResizedType
  <2>4. QED  BY <1>a, <2>1, <2>3 DEF Becomes, FolderType
<1>3. CASE Mount(p)
  <2>0. PICK n \in MountAt .. Depth : \E g \in Resized(f, n) :
           Becomes(p, [g EXCEPT !.mounts = f.mounts + 1], MountSignal(p))
    BY <1>3 DEF Mount
  <2>1. PICK g \in Resized(f, n) :
           Becomes(p, [g EXCEPT !.mounts = f.mounts + 1], MountSignal(p))
    BY <2>0
  <2>2. n \in 0 .. Depth
    BY <1>0
  <2>3. g \in Folder
    BY <1>0, <2>2, ResizedType
  <2> DEFINE m == f.mounts + 1
  <2>4. m \in 0 .. MaxMounts
    BY <1>0, <1>3 DEF Mount
  <2> HIDE DEF m
  <2>5. [g EXCEPT !.mounts = m] \in Folder
    BY <2>3, <2>4 DEF Folder
  <2>6. Becomes(p, [g EXCEPT !.mounts = m], MountSignal(p))
    BY <2>1 DEF m
  <2>7. QED  BY <1>a, <2>5, <2>6 DEF Becomes, FolderType
<1>4. CASE Unmount(p)
  <2>0. PICK n \in MountAt .. CoverDepth : \E g \in Resized(f, n) :
           Becomes(p, [g EXCEPT !.mounts = f.mounts - 1], MountSignal(p) \cup GoneSignal(p, g))
    BY <1>4 DEF Unmount
  <2>1. PICK g \in Resized(f, n) :
           Becomes(p, [g EXCEPT !.mounts = f.mounts - 1], MountSignal(p) \cup GoneSignal(p, g))
    BY <2>0
  <2>2. n \in 0 .. Depth
    BY <1>0
  <2>3. g \in Folder
    BY <1>0, <2>2, ResizedType
  <2> DEFINE m == f.mounts - 1
  <2>4. m \in 0 .. MaxMounts
    BY <1>0, <1>4 DEF Unmount
  <2> HIDE DEF m
  <2>5. [g EXCEPT !.mounts = m] \in Folder
    BY <2>3, <2>4 DEF Folder
  <2>6. Becomes(p, [g EXCEPT !.mounts = m], MountSignal(p) \cup GoneSignal(p, g))
    BY <2>1 DEF m
  <2>7. QED  BY <1>a, <2>5, <2>6 DEF Becomes, FolderType
<1>5. CASE ChangeMode(p)
  <2> DEFINE w == ~f.writable
  <2>1. Becomes(p, [f EXCEPT !.writable = w], {})
    BY <1>5 DEF ChangeMode
  <2>2. w \in BOOLEAN
    OBVIOUS
  <2> HIDE DEF w
  <2>3. [f EXCEPT !.writable = w] \in Folder
    BY <1>0, <2>2 DEF Folder
  <2>4. QED  BY <2>1, <2>3 DEF Becomes, FolderType
<1>6. ASSUME NEW s \in {"dirty", "mountsChanged"}, Noise(p, s)
      PROVE  /\ Becomes(p, f, {s}) /\ {s} \in SUBSET Signals
             /\ folder' \in [Plans -> Folder]
             /\ signals' \in [Plans -> SUBSET Signals]
  BY <1>0, <1>6 DEF Noise, Becomes, Signals, FolderType
<1>7. QED  BY <1>0, <1>1, <1>2, <1>3, <1>4, <1>5, <1>6 DEF FileSystem

\* What a look of the monitor does to one plan, and only to that one.
LEMMA MonitorStep ==
  ASSUME FolderType, NEW p \in Plans, Monitor(p)
  PROVE  /\ UNCHANGED folder
         /\ \A q \in Plans \ {p} : UNCHANGED <<watched[q], timers[q], signals[q]>>
         /\ FolderType'
<1>0. /\ NearestParent(folder[p]) \in {NoParent} \cup 0 .. Depth - 1
      /\ timers[p] \in Nat /\ later \in BOOLEAN
  BY NearestType DEF FolderType
<1>1. ASSUME NEW armed \in Nat, CheckStatus(p, armed)
      PROVE  /\ watched' \in [Plans -> {NoParent} \cup 0 .. Depth - 1]
             /\ later' \in BOOLEAN
             /\ timers' \in [Plans -> Nat]
             /\ \A q \in Plans \ {p} : UNCHANGED <<watched[q], timers[q]>>
  <2>1. armed + 1 \in Nat
    OBVIOUS
  <2>2. CASE ComeBackLater(p, armed)
    BY <2>1, <2>2 DEF ComeBackLater, FolderType
  <2>3. CASE Examine(p) /\ later' = FALSE /\ timers' = [timers EXCEPT ![p] = armed]
    BY <1>0, <2>3 DEF Examine, FolderType
  <2>4. QED  BY <1>1, <2>2, <2>3 DEF CheckStatus
<1>2. ASSUME CheckStatusTwice(p)
      PROVE  /\ watched' \in [Plans -> {NoParent} \cup 0 .. Depth - 1]
             /\ later' \in BOOLEAN
             /\ timers' \in [Plans -> Nat]
             /\ \A q \in Plans \ {p} : UNCHANGED <<watched[q], timers[q]>>
  BY <1>0, <1>2 DEF CheckStatusTwice, Examine, FolderType
<1>3. ASSUME NEW s, Consume(p, s)
      PROVE  /\ signals' \in [Plans -> SUBSET Signals]
             /\ \A q \in Plans \ {p} : UNCHANGED signals[q]
  BY <1>3 DEF Consume, FolderType
<1>4. CASE \E s \in {"dirty", "deleted"} : DirWatch(p, s)
  BY <1>0, <1>1, <1>3, <1>4 DEF DirWatch, FolderType
<1>5. CASE CheckMountPoints(p)
  BY <1>0, <1>1, <1>2, <1>3, <1>5 DEF CheckMountPoints, FolderType
<1>6. CASE LaterTimeout(p)
  <2>1. timers[p] - 1 \in Nat
    BY <1>0, <1>6 DEF LaterTimeout
  <2>2. QED  BY <1>1, <1>3, <1>6, <2>1 DEF LaterTimeout, FolderType
<1>7. QED  BY <1>4, <1>5, <1>6 DEF Monitor

LEMMA QuietStep ==
  ASSUME NEW p \in Plans, User(p) \/ Job(p) \/ Timer(p)
  PROVE  UNCHANGED quiet
BY DEF User, Job, Timer, UserStarts, AnswerNo, CheckIntegrity, AcceptRepair, DeclineRepair,
   BackupDone, BackupSizeDone, CheckDone, RepairDone, UsageMonitorTimeout, Wakeup

LEMMA SetupTyped ==
  ASSUME FolderType, NEW plans, SetupExecutors(plans)
  PROVE  FolderType'
<1>1. \A p \in Plans : NearestParent(folder[p]) \in {NoParent} \cup 0 .. Depth - 1
  BY NearestType DEF FolderType
<1>2. QED  BY <1>1 DEF SetupExecutors, FolderType

LEMMA StepTyped ==
  ASSUME FolderType, [Next]_vars
  PROVE  FolderType'
<1>1. ASSUME NEW p \in Plans, FileSystem(p)
      PROVE  FolderType'
  BY <1>1, FileSystemStep DEF Becomes, FolderType
<1>2. ASSUME NEW p \in Plans, Monitor(p)
      PROVE  FolderType'
  BY <1>2, MonitorStep
<1>3. ASSUME UNCHANGED quiet
      PROVE  FolderType'
  BY <1>3 DEF quiet, FolderType
<1>4. CASE Crash \/ Reload
  BY <1>4, SetupTyped DEF Crash, Reload
<1>5. QED  BY <1>1, <1>2, <1>3, <1>4, QuietStep DEF Next, Tick, vars, quiet

LEMMA InitTyped == Init => FolderType
<1> DEFINE none == [depth |-> 0, writable |-> FALSE, mounts |-> 0]
<1> SUFFICES ASSUME Init PROVE FolderType
  OBVIOUS
<1>1. none \in Folder /\ 0 \in 0 .. Depth - 1
  BY FSAssumption DEF FSAssumption, Folder
<1>2. /\ folder = [p \in Plans |-> none]
      /\ watched = [p \in Plans |-> 0]
      /\ later = FALSE
      /\ timers = [p \in Plans |-> 0]
      /\ signals = [p \in Plans |-> {}]
  BY DEF Init, none
<1> HIDE DEF none
<1>3. folder \in [Plans -> Folder]
  BY <1>1, <1>2
<1>4. watched \in [Plans -> {NoParent} \cup 0 .. Depth - 1]
  BY <1>1, <1>2
<1>5. signals \in [Plans -> SUBSET Signals] /\ timers \in [Plans -> Nat] /\ later \in BOOLEAN
  BY <1>2
<1>6. QED  BY <1>3, <1>4, <1>5 DEF FolderType

-----------------------------------------------------------------------------
(***************************************************************************)
(* No plan is blind.                                                       *)
(***************************************************************************)

\* Something is on its way that makes plan p look at its folder.
WillLook(p) ==
  \/ timers[p] > 0
  \/ signals[p] \cap {"dirty", "deleted"} # {}
  \/ "mountsChanged" \in signals[p] /\ watched[p] = MountAt /\ folder[p].mounts > 0

WillNotice(p) ==
  /\ folder[p].mounts > 0 => folder[p].depth >= MountAt
  /\ watched[p] = NearestParent(folder[p]) \/ WillLook(p)

\* A plan that watches the folder itself will learn of its deletion, and has
\* entered one of the available states when it saw it.
DestinationSeen(p) ==
  watched[p] = NoParent =>
    /\ Exists(folder[p]) \/ "deleted" \in signals[p]
    /\ Usable(folder[p]) /\ "deleted" \notin signals[p] => exec[p].state # "NOT_AVAILABLE"

LEMMA FileSystemNotices ==
  ASSUME FolderType, CoverDepth = MountAt, NEW p \in Plans, WillNotice(p), FileSystem(p)
  PROVE  WillNotice(p)'
<1> DEFINE f == folder[p]
           h == folder'[p]
           w == watched[p]
<1>0. /\ f.depth \in 0 .. Depth /\ f.mounts \in 0 .. MaxMounts
      /\ Depth \in Nat /\ MountAt \in 0 .. Depth /\ MaxMounts \in Nat
      /\ w \in {NoParent} \cup 0 .. Depth - 1
      /\ f \in Folder
  BY FSAssumption DEF FSAssumption, FolderType, Folder
<1>1. ASSUME NEW g, NEW ss, Becomes(p, g, ss)
      PROVE  /\ h = g /\ signals'[p] = signals[p] \cup ss
             /\ watched'[p] = w /\ timers'[p] = timers[p]
  BY <1>1 DEF Becomes, FolderType
<1>2. CASE Create(p)
  <2>1. PICK g \in Resized(f, f.depth + 1) : Becomes(p, g, DirtySignal(p, f.depth))
    BY <1>2 DEF Create
  <2>2. /\ f.depth < Depth /\ f.depth + 1 \in 0 .. Depth
        /\ g.depth = f.depth + 1 /\ g.mounts = f.mounts
    BY <1>0, <1>2, <2>1, ResizedType DEF Create
  <2>3. CASE w = NearestParent(f)
    <3>1. w = f.depth
      BY <1>0, <2>2, <2>3 DEF NearestParent, Exists
    <3>2. "dirty" \in signals'[p]
      BY <1>1, <2>1, <3>1 DEF DirtySignal
    <3>3. QED  BY <1>0, <1>1, <2>1, <2>2, <3>2 DEF WillNotice, WillLook
  <2>4. CASE WillLook(p)
    BY <1>0, <1>1, <2>1, <2>2, <2>4 DEF WillNotice, WillLook
  <2>5. QED  BY <2>3, <2>4 DEF WillNotice
<1>3. CASE Delete(p)
  <2>1. PICK g \in Resized(f, f.depth - 1) :
           Becomes(p, g, DirtySignal(p, g.depth) \cup GoneSignal(p, g))
    BY <1>3 DEF Delete
  <2>2. /\ f.depth > 0 /\ f.depth - 1 \in 0 .. Depth
        /\ g.depth = f.depth - 1 /\ g.mounts = f.mounts
        /\ f.mounts > 0 => f.depth # MountAt
    BY <1>0, <1>3, <2>1, ResizedType DEF Delete
  <2>3. CASE w = NearestParent(f)
    <3>1. "deleted" \in GoneSignal(p, g)
      BY <1>0, <2>2, <2>3 DEF NearestParent, Exists, GoneSignal, Watching, NoParent
    <3>2. "deleted" \in signals'[p]
      BY <1>1, <2>1, <3>1
    <3>3. QED  BY <1>0, <1>1, <2>1, <2>2, <3>2 DEF WillNotice, WillLook
  <2>4. CASE WillLook(p)
    BY <1>0, <1>1, <2>1, <2>2, <2>4 DEF WillNotice, WillLook
  <2>5. QED  BY <2>3, <2>4 DEF WillNotice
<1>4. CASE Mount(p)
  <2>0. PICK n \in MountAt .. Depth : \E g \in Resized(f, n) :
           Becomes(p, [g EXCEPT !.mounts = f.mounts + 1], MountSignal(p))
    BY <1>4 DEF Mount
  <2>1. PICK g \in Resized(f, n) :
           Becomes(p, [g EXCEPT !.mounts = f.mounts + 1], MountSignal(p))
    BY <2>0
  <2>2. f.depth = MountAt /\ n \in 0 .. Depth /\ f.mounts + 1 > 0
    BY <1>0, <1>4 DEF Mount
  <2>3. g \in Folder /\ g.depth = n
    BY <1>0, <2>1, <2>2, ResizedType
  <2>4. h.depth = n /\ h.mounts = f.mounts + 1
    BY <1>1, <2>1, <2>3 DEF Folder
  <2>5. CASE w = NearestParent(f) /\ MountAt = Depth
    <3>1. w = NoParent /\ h.depth = Depth
      BY <1>0, <2>2, <2>4, <2>5 DEF NearestParent, Exists
    <3>2. QED  BY <1>0, <1>1, <2>1, <2>2, <2>4, <3>1 DEF WillNotice, NearestParent, Exists
  <2>6. CASE w = NearestParent(f) /\ MountAt # Depth
    <3>1. w = MountAt /\ w # NoParent
      BY <1>0, <2>2, <2>6 DEF NearestParent, Exists, NoParent
    <3>2. "mountsChanged" \in signals'[p]
      BY <1>1, <2>1, <3>1 DEF MountSignal, Watching
    <3>3. QED  BY <1>0, <1>1, <2>1, <2>2, <2>4, <3>1, <3>2 DEF WillNotice, WillLook
  <2>7. CASE WillLook(p)
    BY <1>0, <1>1, <2>1, <2>2, <2>4, <2>7 DEF WillNotice, WillLook
  <2>8. QED  BY <2>5, <2>6, <2>7 DEF WillNotice
<1>5. CASE Unmount(p)
  <2>0. PICK n \in MountAt .. CoverDepth : \E g \in Resized(f, n) :
           Becomes(p, [g EXCEPT !.mounts = f.mounts - 1],
                   MountSignal(p) \cup GoneSignal(p, g))
    BY <1>5 DEF Unmount
  <2>1. PICK g \in Resized(f, n) :
           Becomes(p, [g EXCEPT !.mounts = f.mounts - 1],
                   MountSignal(p) \cup GoneSignal(p, g))
    BY <2>0
  <2>2. f.mounts > 0 /\ f.depth >= MountAt /\ n = MountAt
    BY <1>0, <1>5 DEF Unmount, WillNotice
  <2>3. g \in Folder /\ g.depth = MountAt
    BY <1>0, <2>1, <2>2, ResizedType
  <2>4. h.depth = MountAt
    BY <1>1, <2>1, <2>3 DEF Folder
  <2>5. CASE w = NearestParent(f) /\ f.depth = MountAt
    BY <1>0, <1>1, <2>1, <2>4, <2>5 DEF WillNotice, NearestParent, Exists
  <2>6. CASE w = NearestParent(f) /\ f.depth > MountAt
    <3>1. "deleted" \in GoneSignal(p, g)
      BY <1>0, <2>3, <2>6 DEF NearestParent, Exists, GoneSignal, Watching, NoParent
    <3>2. "deleted" \in signals'[p]
      BY <1>1, <2>1, <3>1
    <3>3. QED  BY <1>0, <1>1, <2>1, <2>4, <3>2 DEF WillNotice, WillLook
  <2>7. CASE timers[p] > 0 \/ signals[p] \cap {"dirty", "deleted"} # {}
    BY <1>0, <1>1, <2>1, <2>4, <2>7 DEF WillNotice, WillLook
  <2>8. CASE w = MountAt
    <3>1. MountAt # Depth
      BY <1>0, <2>8 DEF NoParent
    <3>2. QED  BY <1>0, <1>1, <2>1, <2>4, <2>8, <3>1 DEF WillNotice, NearestParent, Exists
  <2>9. QED  BY <1>0, <2>2, <2>5, <2>6, <2>7, <2>8 DEF WillNotice, WillLook
<1>6. CASE ChangeMode(p) \/ \E s \in {"dirty", "mountsChanged"} : Noise(p, s)
  <2>1. /\ h.depth = f.depth /\ h.mounts = f.mounts /\ signals[p] \subseteq signals'[p]
        /\ watched'[p] = w /\ timers'[p] = timers[p]
    BY <1>0, <1>1, <1>6 DEF ChangeMode, Noise, Folder
  <2>2. NearestParent(h) = NearestParent(f)
    BY <2>1 DEF NearestParent, Exists
  <2>3. WillLook(p) => WillLook(p)'
    BY <1>1, <2>1 DEF WillLook
  <2>4. QED  BY <1>0, <1>1, <2>1, <2>2, <2>3 DEF WillNotice
<1>7. QED  BY <1>2, <1>3, <1>4, <1>5, <1>6 DEF FileSystem

LEMMA MonitorNotices ==
  ASSUME FolderType, NEW p \in Plans, WillNotice(p), Monitor(p)
  PROVE  WillNotice(p)'
<1>0. timers[p] \in Nat /\ folder[p].mounts \in 0 .. 2 /\ UNCHANGED folder
  <2>1. timers[p] \in Nat /\ folder[p] \in Folder
    BY DEF FolderType
  <2>2. folder[p].mounts \in 0 .. 2
    BY <2>1, FSAssumption DEF FSAssumption, Folder
  <2>3. UNCHANGED folder
    BY MonitorStep
  <2>4. QED  BY <2>1, <2>2, <2>3
<1>1. ASSUME NEW armed \in Nat, CheckStatus(p, armed)
      PROVE  watched'[p] = NearestParent(folder[p]) \/ timers'[p] > 0
  BY <1>1 DEF CheckStatus, ComeBackLater, Examine, FolderType
<1>2. ASSUME CheckStatusTwice(p)
      PROVE  watched'[p] = NearestParent(folder[p])
  BY <1>2 DEF CheckStatusTwice, Examine, FolderType
<1>3. ASSUME watched'[p] = NearestParent(folder[p]) \/ timers'[p] > 0
      PROVE  WillNotice(p)'
  BY <1>0, <1>3 DEF WillNotice, WillLook
<1>4. CASE \E s \in {"dirty", "deleted"} : DirWatch(p, s)
  BY <1>0, <1>1, <1>3, <1>4 DEF DirWatch
<1>5. CASE CheckMountPoints(p)
  <2> DEFINE lines == IF watched[p] = MountAt THEN folder[p].mounts ELSE 0
  <2>1. CASE lines = 0 /\ UNCHANGED <<exec, watched, later, timers>>
    <3>1. signals'[p] = signals[p] \ {"mountsChanged"}
      BY <1>5, <2>1 DEF CheckMountPoints, Consume, FolderType
    <3>2. watched[p] = NearestParent(folder[p]) \/ timers[p] > 0
          \/ signals[p] \cap {"dirty", "deleted"} # {}
      BY <1>0, <2>1 DEF WillNotice, WillLook
    <3>3. QED  BY <1>0, <2>1, <3>1, <3>2 DEF WillNotice, WillLook
  <2>2. CASE CheckStatus(p, timers[p]) \/ CheckStatusTwice(p)
    BY <1>0, <1>1, <1>2, <1>3, <2>2
  <2>3. QED  BY <1>5, <2>1, <2>2 DEF CheckMountPoints
<1>6. CASE LaterTimeout(p)
  <2>1. timers[p] - 1 \in Nat
    BY <1>0, <1>6 DEF LaterTimeout
  <2>2. QED  BY <1>1, <1>3, <1>6, <2>1 DEF LaterTimeout
<1>7. QED  BY <1>4, <1>5, <1>6 DEF Monitor

\* An action leaves the other plans alone.
LEMMA OthersAlone ==
  ASSUME FolderType, ExecutorsGood, NEW p \in Plans, NEW q \in Plans \ {p},
         FileSystem(p) \/ Monitor(p) \/ User(p) \/ Job(p) \/ Timer(p)
  PROVE  UNCHANGED <<exec[q], folder[q], watched[q], timers[q], signals[q]>>
<1>1. CASE FileSystem(p)
  BY <1>1, FileSystemStep DEF Becomes, FolderType
<1>2. CASE Monitor(p)
  BY <1>2, MonitorStep, MonitorLooks DEF ExecutorsGood
<1>3. CASE User(p) \/ Job(p) \/ Timer(p)
  <2>1. PICK r : exec' = [exec EXCEPT ![p] = r]
    BY <1>3, UserProceeds, JobProceeds, TimerProceeds
  <2>2. QED  BY <1>3, <2>1, QuietStep DEF quiet, ExecutorsGood
<1>4. QED  BY <1>1, <1>2, <1>3

LEMMA StepNotices ==
  ASSUME FolderType, ExecutorsGood, CoverDepth = MountAt, [Next]_vars,
         NEW q \in Plans, WillNotice(q)
  PROVE  WillNotice(q)'
<1>0. ASSUME UNCHANGED <<folder[q], watched[q], timers[q], signals[q]>>
      PROVE  WillNotice(q)'
  BY <1>0 DEF WillNotice, WillLook
<1>1. CASE FileSystem(q)
  BY <1>1, FileSystemNotices
<1>2. CASE Monitor(q)
  BY <1>2, MonitorNotices
<1>3. CASE User(q) \/ Job(q) \/ Timer(q) \/ UNCHANGED quiet
  BY <1>0, <1>3, QuietStep DEF quiet
<1>4. CASE \E p \in Plans \ {q} :
             FileSystem(p) \/ Monitor(p) \/ User(p) \/ Job(p) \/ Timer(p)
  BY <1>0, <1>4, OthersAlone
<1>5. ASSUME NEW plans, SetupExecutors(plans)
      PROVE  WillNotice(q)'
  <2>1. watched'[q] = NearestParent(folder[q]) /\ UNCHANGED folder
    BY <1>5 DEF SetupExecutors
  <2>2. QED  BY <2>1 DEF WillNotice
<1>6. QED  BY <1>1, <1>2, <1>3, <1>4, <1>5 DEF Next, Tick, Crash, Reload, vars, quiet

LEMMA InitNotices ==
  ASSUME Init, NEW p \in Plans
  PROVE  WillNotice(p) /\ DestinationSeen(p)
BY FSAssumption DEF FSAssumption, Init, WillNotice, DestinationSeen, NearestParent, Exists,
   NoParent

-----------------------------------------------------------------------------
(***************************************************************************)
(* A folder that is there is available.                                    *)
(***************************************************************************)
LEMMA FileSystemSeen ==
  ASSUME FolderType, CoverDepth = MountAt, MountAt < Depth, ~ModeChanges,
         NEW p \in Plans, DestinationSeen(p), FileSystem(p)
  PROVE  DestinationSeen(p)'
<1> DEFINE f == folder[p]
<1>0. /\ f.depth \in 0 .. Depth /\ Depth \in Nat /\ MountAt \in 0 .. Depth /\ f \in Folder
  BY FSAssumption DEF FSAssumption, FolderType, Folder
<1>1. PICK h \in Folder, ss \in SUBSET Signals : Becomes(p, h, ss)
  BY FileSystemStep
<1>2. /\ folder'[p] = h /\ signals'[p] = signals[p] \cup ss
      /\ UNCHANGED <<exec[p], watched[p]>>
  BY <1>1 DEF Becomes, FolderType
<1> SUFFICES ASSUME watched[p] = NoParent PROVE DestinationSeen(p)'
  BY <1>2 DEF DestinationSeen
<1>3. CASE "deleted" \in signals[p]
  BY <1>2, <1>3 DEF DestinationSeen
<1>4. CASE "deleted" \notin signals[p]
  <2>1. f.depth = Depth
    BY <1>4 DEF DestinationSeen, Exists
  <2>2. ~Create(p) /\ ~Mount(p) /\ ~ChangeMode(p) /\ \A s : ~Noise(p, s)
    BY <1>0, <2>1 DEF Create, Mount, ChangeMode, Noise, Watching
  <2>3. ASSUME NEW g, g.depth # Depth
        PROVE  "deleted" \in GoneSignal(p, g)
    BY <2>1, <2>3 DEF GoneSignal, Watching, Exists
  <2>4. CASE Delete(p)
    <3>1. PICK g \in Resized(f, f.depth - 1) :
             Becomes(p, g, DirtySignal(p, g.depth) \cup GoneSignal(p, g))
      BY <2>4 DEF Delete
    <3>2. f.depth - 1 \in 0 .. Depth /\ f.depth - 1 # Depth
      BY <1>0, <2>4 DEF Delete
    <3>3. g.depth # Depth
      BY <1>0, <3>1, <3>2, ResizedType
    <3>4. "deleted" \in signals'[p]
      BY <2>3, <3>1, <3>3 DEF Becomes, FolderType
    <3>5. QED  BY <3>4 DEF DestinationSeen
  <2>5. CASE Unmount(p)
    <3>0. PICK n \in MountAt .. CoverDepth : \E g \in Resized(f, n) :
             Becomes(p, [g EXCEPT !.mounts = f.mounts - 1],
                     MountSignal(p) \cup GoneSignal(p, g))
      BY <2>5 DEF Unmount
    <3>1. PICK g \in Resized(f, n) :
             Becomes(p, [g EXCEPT !.mounts = f.mounts - 1],
                     MountSignal(p) \cup GoneSignal(p, g))
      BY <3>0
    <3>2. n \in 0 .. Depth /\ n # Depth
      BY <1>0
    <3>3. g.depth # Depth
      BY <1>0, <3>1, <3>2, ResizedType
    <3>4. "deleted" \in signals'[p]
      BY <2>3, <3>1, <3>3 DEF Becomes, FolderType
    <3>5. QED  BY <3>4 DEF DestinationSeen
  <2>6. QED  BY <2>2, <2>4, <2>5 DEF FileSystem
<1>5. QED  BY <1>3, <1>4

LEMMA MonitorSeen ==
  ASSUME FolderType, ExecutorsGood, NEW p \in Plans, DestinationSeen(p), Monitor(p)
  PROVE  DestinationSeen(p)'
<1>0. UNCHANGED folder /\ watched[p] \in {NoParent} \cup 0 .. Depth - 1 /\ MountAt \in Nat
  BY MonitorStep, FSAssumption DEF FSAssumption, FolderType
<1>1. ASSUME Examine(p)
      PROVE  DestinationSeen(p)'
  <2>1. watched'[p] = NearestParent(folder[p]) /\ exec'[p] = SeeFolder(exec[p], folder[p])
    BY <1>1 DEF Examine, Runs, FolderType, ExecutorsGood
  <2>2. Usable(folder[p]) => exec'[p].state # "NOT_AVAILABLE"
    BY <2>1, SeeGood DEF ExecutorsGood
  <2>3. watched'[p] = NoParent => Exists(folder[p])
    BY <2>1, FSAssumption DEF FolderType, Folder, NearestParent, NoParent
  <2>4. QED  BY <1>0, <2>2, <2>3 DEF DestinationSeen, Usable, Exists
<1>2. ASSUME Watching(p), UNCHANGED watched
      PROVE  DestinationSeen(p)'
  BY <1>2 DEF Watching, DestinationSeen
<1>3. ASSUME NEW armed, CheckStatus(p, armed)
      PROVE  DestinationSeen(p)'
  BY <1>1, <1>2, <1>3 DEF CheckStatus, ComeBackLater
<1>4. CASE CheckMountPoints(p) /\ ~Watching(p)
  <2>1. watched[p] # MountAt
    BY <1>0, <1>4 DEF Watching, NoParent
  <2>2. UNCHANGED <<exec, watched, folder>>
    BY <1>4, <2>1 DEF CheckMountPoints
  <2>3. signals'[p] = signals[p] \ {"mountsChanged"}
    BY <1>4, <2>2 DEF CheckMountPoints, Consume, FolderType
  <2>4. QED  BY <2>2, <2>3 DEF DestinationSeen
<1>5. CASE CheckMountPoints(p) /\ Watching(p)
  BY <1>1, <1>2, <1>3, <1>5 DEF CheckMountPoints, CheckStatusTwice
<1>6. CASE LaterTimeout(p) \/ \E s \in {"dirty", "deleted"} : DirWatch(p, s)
  BY <1>3, <1>6 DEF LaterTimeout, DirWatch
<1>7. QED  BY <1>4, <1>5, <1>6 DEF Monitor

LEMMA StepSeen ==
  ASSUME FolderType, ExecutorsGood, CoverDepth = MountAt, MountAt < Depth, ~ModeChanges,
         [Next]_vars, NEW q \in Plans, DestinationSeen(q)
  PROVE  DestinationSeen(q)'
<1>0. ASSUME UNCHANGED <<exec[q], folder[q], watched[q], signals[q]>>
      PROVE  DestinationSeen(q)'
  BY <1>0 DEF DestinationSeen
<1>1. CASE FileSystem(q)
  BY <1>1, FileSystemSeen
<1>2. CASE Monitor(q)
  BY <1>2, MonitorSeen
<1>3. ASSUME NEW r, Proceeds(exec[q], r), exec'[q] = r, UNCHANGED quiet
      PROVE  DestinationSeen(q)'
  BY <1>3 DEF DestinationSeen, quiet, Proceeds
<1>4. CASE User(q) \/ Job(q) \/ Timer(q)
  <2>1. PICK r : Proceeds(exec[q], r) /\ exec' = [exec EXCEPT ![q] = r]
    BY <1>4, UserProceeds, JobProceeds, TimerProceeds
  <2>2. QED  BY <1>3, <1>4, <2>1, QuietStep DEF ExecutorsGood
<1>5. CASE \E p \in Plans \ {q} :
             FileSystem(p) \/ Monitor(p) \/ User(p) \/ Job(p) \/ Timer(p)
  BY <1>0, <1>5, OthersAlone
<1>6. CASE Tick
  <2>1. exec'[q] = ClockTick(exec[q]) /\ UNCHANGED quiet
    BY <1>6 DEF Tick
  <2>2. Proceeds(exec[q], ClockTick(exec[q]))
    BY TickSound DEF ExecutorsGood, Good, Proceeds, Keeps
  <2>3. QED  BY <1>3, <2>1, <2>2
<1>7. ASSUME NEW plans \in [Plans -> Plan], SetupExecutors(plans)
      PROVE  DestinationSeen(q)'
  <2>1. /\ exec'[q] = Recreate(exec[q], plans[q], folder[q])
        /\ watched'[q] = NearestParent(folder[q]) /\ UNCHANGED folder
    BY <1>7 DEF SetupExecutors
  <2>2. Usable(folder[q]) => exec'[q].state # "NOT_AVAILABLE"
    BY <2>1, RecreateGood DEF ExecutorsGood
  <2>3. watched'[q] = NoParent => Exists(folder[q])
    BY <2>1, FSAssumption DEF FolderType, Folder, NearestParent, NoParent
  <2>4. QED  BY <2>1, <2>2, <2>3 DEF DestinationSeen, Usable, Exists
<1>8. CASE Crash
  <2> DEFINE plans == [p \in Plans |-> exec[p].plan]
  <2>1. plans \in [Plans -> Plan] /\ SetupExecutors(plans)
    BY <1>8 DEF Crash, ExecutorsGood, Executor
  <2>2. QED  BY <1>7, <2>1
<1>9. CASE Reload
  <2>1. PICK plans \in [Plans -> PlanSettings] : SetupExecutors(plans)
    BY <1>9 DEF Reload
  <2>2. plans \in [Plans -> Plan]
    BY FSAssumption DEF FSAssumption
  <2>3. QED  BY <1>7, <2>1, <2>2
<1>10. QED
  BY <1>0, <1>1, <1>2, <1>4, <1>5, <1>6, <1>8, <1>9 DEF Next, vars

-----------------------------------------------------------------------------
(***************************************************************************)
(* The theorems.                                                           *)
(***************************************************************************)

\* The types and the executors: the induction the other theorems start from.
THEOREM ExecutorsStayGood == Spec => [](FolderType /\ ExecutorsGood)
<1>1. Init => FolderType /\ ExecutorsGood
  BY InitTyped, InitGood
<1>2. FolderType /\ ExecutorsGood /\ [Next]_vars => (FolderType /\ ExecutorsGood)'
  BY StepTyped, StepGood
<1>3. QED  BY <1>1, <1>2, PTL DEF Spec

\* The state of the executors and of what they watch is well typed; no counter of
\* jobs or of timers falls below zero.
THEOREM TypeCorrect == Spec => []TypeOK
<1>1. FolderType /\ ExecutorsGood => TypeOK
  BY DEF FolderType, ExecutorsGood, TypeOK
<1>2. QED  BY <1>1, ExecutorsStayGood, PTL

\* An executor in a busy state has a job in flight that ends the state: it cannot
\* put off a reload of the configuration for ever.
THEOREM NoBusyStateWithoutCause == Spec => []BusyHasCause
<1>1. FolderType /\ ExecutorsGood => BusyHasCause
  BY DEF ExecutorsGood, Good, Sound, Sane, BusyHasCause
<1>2. QED  BY <1>1, ExecutorsStayGood, PTL

\* "Take Backup Now" is enabled in every available state that is not busy.
THEOREM UserIsNeverLockedOut == Spec => []NeverLockedOut
<1>1. FolderType /\ ExecutorsGood => NeverLockedOut
  BY DEF ExecutorsGood, Good, Sound, Sane, NeverLockedOut
<1>2. QED  BY <1>1, ExecutorsStayGood, PTL

\* A plan run at intervals waits with a timer that rings in time, and a plan whose
\* folder is away has none.
THEOREM NoWaitWithoutWakeup == Spec => []WaitingHasWakeup
<1>1. FolderType /\ ExecutorsGood => WaitingHasWakeup
  BY DEF ExecutorsGood, Good, Sound, WaitingHasWakeup
<1>2. QED  BY <1>1, ExecutorsStayGood, PTL

\* What is written to kuprc never claims a newer backup than was completed.
THEOREM RecordIsSafeInACrash == Spec => []RecordNeverOverstates
<1>1. FolderType /\ ExecutorsGood => RecordNeverOverstates
  BY DEF ExecutorsGood, Good, Sound, Sane, RecordNeverOverstates
<1>2. QED  BY <1>1, ExecutorsStayGood, PTL

\* Together: no backup is missed, by hand, by the schedule or after a crash.
THEOREM NothingMissed == Spec => []NoBackupMissed
BY UserIsNeverLockedOut, NoWaitWithoutWakeup, RecordIsSafeInACrash, PTL DEF NoBackupMissed

\* No plan stays blind, whatever the depth of its path and the number of mounts, if
\* nothing of the path is covered by what is mounted over it.
THEOREM NoPlanIsBlind ==
  ASSUME CoverDepth = MountAt
  PROVE  Spec => []NeverBlind
<1> DEFINE I == FolderType /\ ExecutorsGood /\ \A p \in Plans : WillNotice(p)
<1>1. Init => I
  BY InitTyped, InitGood, InitNotices
<1>2. I /\ [Next]_vars => I'
  BY StepTyped, StepGood, StepNotices
<1>3. I => NeverBlind
  <2> SUFFICES ASSUME I, NEW p \in Plans, Settled(p)
               PROVE  watched[p] = NearestParent(folder[p])
    BY DEF NeverBlind
  <2>1. WillNotice(p) /\ timers[p] = 0 /\ signals[p] = {}
    BY DEF Settled
  <2>2. QED  BY <2>1 DEF WillNotice, WillLook
<1>4. QED  BY <1>1, <1>2, <1>3, PTL DEF Spec

\* A folder that exists and can be written to is not left unavailable once the
\* events are handled, if it is not the mount point itself.
THEOREM FolderIsNotMissed ==
  ASSUME CoverDepth = MountAt, MountAt < Depth
  PROVE  Spec => []FolderIsAvailable
<1>1. CASE ModeChanges
  <2>1. FolderIsAvailable
    BY <1>1 DEF FolderIsAvailable
  <2>2. QED  BY <2>1, PTL
<1>2. CASE ~ModeChanges
  <2> DEFINE I == /\ FolderType /\ ExecutorsGood
                  /\ \A p \in Plans : WillNotice(p) /\ DestinationSeen(p)
  <2>1. Init => I
    BY InitTyped, InitGood, InitNotices
  <2>2. I /\ [Next]_vars => I'
    BY <1>2, StepTyped, StepGood, StepNotices, StepSeen
  <2>3. I => FolderIsAvailable
    <3> SUFFICES ASSUME I, NEW p \in Plans, Settled(p), Usable(folder[p])
                 PROVE  exec[p].state # "NOT_AVAILABLE"
      BY DEF FolderIsAvailable
    <3>1. WillNotice(p) /\ DestinationSeen(p) /\ timers[p] = 0 /\ signals[p] = {}
      BY DEF Settled
    <3>2. watched[p] = NoParent
      BY <3>1 DEF WillNotice, WillLook, NearestParent, Usable
    <3>3. QED  BY <3>1, <3>2 DEF DestinationSeen
  <2>4. QED  BY <2>1, <2>2, <2>3, PTL DEF Spec
<1>3. QED  BY <1>1, <1>2

-----------------------------------------------------------------------------
(***************************************************************************)
(* What the daemon sees of the steps, plan by plan.                        *)
(***************************************************************************)
LEMMA SeeFolderSeen ==
  ASSUME NEW e \in Executor, NEW f
  PROVE  MayBecome(Seen(e), Seen(SeeFolder(e, f)))
<1>1. MayBecome(Seen(e), Seen(EnterAvailableState(e, Outcome(e))))
  BY AvailableSeen
<1>2. MayBecome(Seen(e), Seen(EnterNotAvailableState(e)))
  BY NotAvailableSeen DEF OneChange, MayBecome
<1>3. MayBecome(Seen(e), Seen(e))
  BY DEF MayBecome
<1>4. QED  BY <1>1, <1>2, <1>3 DEF SeeFolder

LEMMA RecreateSeen ==
  ASSUME NEW e, Good(e), NEW plan \in Plan, NEW f
  PROVE  Seen(Recreate(e, plan, f)) \in NewViews
<1> DEFINE new == NewExecutor(plan, e.savedAge, e.savedUsage)
<1>1. e.savedAge \in Ages /\ e.savedUsage \in UsageTimes
  BY GoodType DEF Executor
<1>2. new \in Executor
  BY <1>1, NewSound DEF Sound, Sane
<1>3. /\ new.state = "NOT_AVAILABLE" /\ new.backups = 0 /\ new.sizes = 0
      /\ Seen(new) = V("away", 0)
  BY NewSeen
<1> HIDE DEF new
<1>4. Recreate(e, plan, f) \in {new, EnterAvailableState(new, Outcome(new))}
  BY <1>3 DEF Recreate, SeeFolder, new
<1>5. Seen(EnterAvailableState(new, Outcome(new))) \in {V("idle", 0), V("backup", 0), V("backup", 1)}
  BY <1>2, <1>3, AvailableSeen
<1>6. QED  BY <1>3, <1>4, <1>5, NewViewsAre

\* What a slot of PlanExecutor does to the executor of one plan.
LEMMA SlotSeen ==
  ASSUME ExecutorsGood, NEW p \in Plans, User(p) \/ Job(p) \/ Timer(p)
  PROVE  \E r : MayBecome(Seen(exec[p]), Seen(r)) /\ exec' = [exec EXCEPT ![p] = r]
<1> DEFINE e == exec[p]
           To(r) == MayBecome(Seen(e), Seen(r)) /\ exec' = [exec EXCEPT ![p] = r]
<1>0. e \in Executor /\ TestReturnsToIdle(e)
  BY DEF ExecutorsGood, Good, Sound, Sane
<1>1. ASSUME NEW r, OneChange(Seen(e), Seen(r))
      PROVE  MayBecome(Seen(e), Seen(r))
  BY <1>1 DEF OneChange, MayBecome
<1> HIDE DEF e
<1>2. CASE UserStarts(p)
  BY <1>0, <1>1, <1>2, EnterSeen DEF UserStarts, Runs, e
<1>3. CASE AnswerNo(p)
  BY <1>0, <1>1, <1>3, OthersUnseen DEF AnswerNo, Runs, OneChange, e
<1>4. CASE CheckIntegrity(p)
  BY <1>0, <1>1, <1>4, TestStartSeen DEF CheckIntegrity, Runs, e
<1>5. CASE \E n \in {"fail", "integrity"} : AcceptRepair(p, n)
  <2>1. PICK n : exec' = [exec EXCEPT ![p] = StartRepairJob(Without(e, n))]
    BY <1>5 DEF AcceptRepair, Runs, e
  <2> DEFINE w == Without(e, n)
  <2>2. w \in Executor /\ Seen(w) = Seen(e)
    BY <1>0, OthersUnseen DEF Without
  <2> HIDE DEF w
  <2>3. MayBecome(Seen(e), Seen(StartRepairJob(w)))
    BY <1>1, <2>2, TestStartSeen
  <2>4. QED  BY <2>1, <2>3 DEF w, e
<1>6. CASE \E n \in {"fail", "integrity"} : DeclineRepair(p, n)
  BY <1>0, <1>1, <1>6, OthersUnseen DEF DeclineRepair, Without, Runs, OneChange, e
<1>7. CASE BackupDone(p)
  BY <1>0, <1>1, <1>7, BackupDoneSeen DEF BackupDone, Runs, e
<1>8. CASE BackupSizeDone(p)
  BY <1>0, <1>8, SizeDoneSeen DEF BackupSizeDone, Runs, e
<1>9. CASE \E own \in BOOLEAN : CheckDone(p, own) \/ RepairDone(p, own)
  BY <1>0, <1>1, <1>9, TestEndSeen DEF CheckDone, RepairDone, Runs, e
<1>10. CASE UsageMonitorTimeout(p)
  BY <1>0, <1>1, <1>10, UsageMonitorSeen DEF UsageMonitorTimeout, Runs, e
<1>11. CASE Wakeup(p)
  BY <1>0, <1>11, TimeoutSeen DEF Wakeup, Runs, e
<1>12. QED
  BY <1>2, <1>3, <1>4, <1>5, <1>6, <1>7, <1>8, <1>9, <1>10, <1>11 DEF User, Job, Timer, e

AllMayBecome == \A p \in Plans : MayBecome(Seen(exec[p]), Seen(exec'[p]))

LEMMA SetupSeen ==
  ASSUME ExecutorsGood, NEW plans \in [Plans -> Plan], SetupExecutors(plans)
  PROVE  \A p \in Plans : Seen(exec'[p]) \in NewViews
BY RecreateSeen DEF SetupExecutors, ExecutorsGood

LEMMA StepViewed ==
  ASSUME ExecutorsGood, [Next]_vars
  PROVE  \/ AllMayBecome
         \/ (Crash \/ Reload) /\ \A p \in Plans : Seen(exec'[p]) \in NewViews
<1>1. ASSUME UNCHANGED exec
      PROVE  AllMayBecome
  BY <1>1 DEF AllMayBecome, MayBecome
<1>2. ASSUME NEW p \in Plans, NEW r, MayBecome(Seen(exec[p]), Seen(r)),
             exec' = [exec EXCEPT ![p] = r]
      PROVE  AllMayBecome
  <2>1. ASSUME NEW q \in Plans
        PROVE  MayBecome(Seen(exec[q]), Seen(exec'[q]))
    <3>1. exec'[q] = IF q = p THEN r ELSE exec[q]
      BY <1>2 DEF ExecutorsGood
    <3>2. MayBecome(Seen(exec[q]), Seen(exec[q]))
      BY DEF MayBecome
    <3>3. QED  BY <1>2, <3>1, <3>2
  <2>2. QED  BY <2>1 DEF AllMayBecome
<1>3. ASSUME NEW p \in Plans, FileSystem(p)
      PROVE  UNCHANGED exec
  BY <1>3 DEF FileSystem, Create, Delete, Mount, Unmount, ChangeMode, Noise, Becomes
<1>4. ASSUME NEW p \in Plans, Monitor(p)
      PROVE  AllMayBecome
  <2>1. MayBecome(Seen(exec[p]), Seen(SeeFolder(exec[p], folder[p])))
    BY SeeFolderSeen DEF ExecutorsGood
  <2>2. QED  BY <1>1, <1>2, <1>4, <2>1, MonitorLooks
<1>5. ASSUME NEW p \in Plans, User(p) \/ Job(p) \/ Timer(p)
      PROVE  AllMayBecome
  BY <1>2, <1>5, SlotSeen
<1>6. CASE Tick
  <2>1. ASSUME NEW p \in Plans
        PROVE  MayBecome(Seen(exec[p]), Seen(exec'[p]))
    <3>1. exec'[p] = ClockTick(exec[p]) /\ exec[p] \in Executor
      BY <1>6 DEF Tick, ExecutorsGood
    <3>2. QED  BY <3>1, OthersUnseen DEF MayBecome
  <2>2. QED  BY <2>1 DEF AllMayBecome
<1>7. CASE Crash
  <2> DEFINE plans == [p \in Plans |-> exec[p].plan]
  <2>1. plans \in [Plans -> Plan] /\ SetupExecutors(plans)
    BY <1>7 DEF Crash, ExecutorsGood, Executor
  <2>2. QED  BY <1>7, <2>1, SetupSeen
<1>8. CASE Reload
  <2>1. PICK plans \in [Plans -> PlanSettings] : SetupExecutors(plans)
    BY <1>8 DEF Reload
  <2>2. plans \in [Plans -> Plan]
    BY FSAssumption DEF FSAssumption
  <2>3. QED  BY <1>8, <2>1, <2>2, SetupSeen
<1>9. CASE UNCHANGED vars
  BY <1>1, <1>9 DEF vars
<1>10. QED
  BY <1>1, <1>3, <1>4, <1>5, <1>6, <1>7, <1>8, <1>9 DEF Next

\* Every step of the plans whose destination is a folder is, for the daemon, a step
\* that KupDaemon lets executors take.
THEOREM DaemonSeesItAll == Spec => ChangesAsSeen
<1> DEFINE A == \/ AllMayBecome
                \/ (Crash \/ Reload) /\ \A p \in Plans : Seen(exec'[p]) \in NewViews
<1>1. FolderType /\ ExecutorsGood /\ [Next]_vars => [A]_vars
  BY StepViewed
<1>2. QED
  BY <1>1, ExecutorsStayGood, PTL DEF Spec, ChangesAsSeen, AllMayBecome
=============================================================================
