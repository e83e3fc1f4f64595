---------------------------- MODULE PlanExecutor ----------------------------
(***************************************************************************)
(* The scheduler of one backup plan: class PlanExecutor of the daemon      *)
(* (daemon/planexecutor.cpp).  An executor is a record whose fields are    *)
(* the members of the class, and a slot of the class is an operator from   *)
(* the executor before the call to the executor after it, every nested     *)
(* call included.  The module has no variables: EDExecutor and FSExecutor, *)
(* the two subclasses, declare the executor and compose these slots into   *)
(* actions.                                                                *)
(***************************************************************************)
EXTENDS ExecutorPhases

CONSTANTS
  Interval,    \* scheduleIntervalInSeconds(), counted in clock ticks
  UsageLimit   \* mUsageLimit, counted in usage monitor periods

ASSUME SchedulingAssumption ==
  /\ Interval \in Nat \ {0}
  /\ UsageLimit \in Nat \ {0}

Never   == -1   \* mLastCompleteBackup is invalid: the plan has never been run
Stopped == -1   \* mSchedulingTimer is not running

(***************************************************************************)
(* Ages and usage are told apart up to one above the limit they are        *)
(* compared with; a counter that has got there stays there.                *)
(***************************************************************************)
Ages       == {Never} \cup 0 .. (Interval + 1)
UsageTimes == 0 .. (UsageLimit + 1)
OneMore(n, limit) == IF n > limit THEN n ELSE n + 1

WaitingStates == {"WAITING_FOR_FIRST_BACKUP", "WAITING_FOR_BACKUP_AGAIN"}
BusyStates    == {"BACKUP_RUNNING", "INTEGRITY_TESTING", "REPAIRING"}
ExecutorState ==
  {"NOT_AVAILABLE", "WAITING_FOR_MANUAL_BACKUP"} \cup WaitingStates \cup BusyStates

Plan == [ schedule : {"MANUAL", "INTERVAL", "USAGE"},   \* mScheduleType
          ask      : BOOLEAN,                           \* mAskBeforeTakingBackup
          type     : {"BupType", "RsyncType", "Invalid"} ]

Executor ==
  [ plan       : Plan,
    state      : ExecutorState,
    lastState  : ExecutorState,
    runAction  : BOOLEAN,    \* "Take Backup Now" is enabled
    showAction : BOOLEAN,    \* "Show Files" is enabled
    question   : BOOLEAN,    \* mQuestion, the question of askUser(), is on screen
    offers     : SUBSET {"fail", "integrity"},  \* notifications offering a repair
    timer      : {Stopped} \cup 0 .. Interval,  \* what is left of mSchedulingTimer
    age        : Ages,       \* time since mLastCompleteBackup
    usage      : UsageTimes, \* mAccumulatedUsageTime
    savedAge   : Ages,       \* the same two as written to kuprc by save()
    savedUsage : UsageTimes,
    backups    : Nat,        \* jobs that will report to this executor, by kind
    sizes      : Nat,
    checks     : Nat,
    repairs    : Nat,
    udi        : BOOLEAN,    \* EDExecutor: mCurrentUdi and mStorageAccess are set
    listening  : {0, 1, 2},  \* connections of accessibilityChanged, 2 for more
    wantsRun   : BOOLEAN,    \* mWantsToRunBackup
    wantsShow  : BOOLEAN ]   \* mWantsToShowFiles

(***************************************************************************)
(* The constructor.  mLastState is not initialised by the code and is read *)
(* only after a check or a repair has set it, so any value does.           *)
(***************************************************************************)
NewExecutor(plan, age, usage) ==
  [ plan |-> plan, state |-> "NOT_AVAILABLE", lastState |-> "NOT_AVAILABLE",
    runAction |-> FALSE, showAction |-> FALSE, question |-> FALSE, offers |-> {},
    timer |-> Stopped, age |-> age, usage |-> usage,
    savedAge |-> age, savedUsage |-> usage,
    backups |-> 0, sizes |-> 0, checks |-> 0, repairs |-> 0,
    udi |-> FALSE, listening |-> 0, wantsRun |-> FALSE, wantsShow |-> FALSE ]

busy(e) == e.state \in BusyStates

\* The same as the daemon sees it.  The size job after a backup belongs to the backup.
PhaseOf(state) ==
  CASE state = "NOT_AVAILABLE"                        -> "away"
    [] state = "BACKUP_RUNNING"                       -> "backup"
    [] state \in {"INTEGRITY_TESTING", "REPAIRING"}   -> "test"
    [] OTHER                                          -> "idle"

Seen(e) == [phase |-> PhaseOf(e.state), backups |-> e.backups + e.sizes]

Save(e) == [e EXCEPT !.savedAge = e.age, !.savedUsage = e.usage]

-----------------------------------------------------------------------------
(***************************************************************************)
(* startBackup() is virtual.  What it comes to is one of four outcomes, of *)
(* which the subclass says which are possible:                             *)
(*   job       a backup job was created and started                        *)
(*   failed    exitBackupRunningState(false) was called                    *)
(*   mounting  the drive was asked to mount, to try again afterwards       *)
(*   nothing   the drive is mounted but does not say where                 *)
(***************************************************************************)
BackupOutcomes == {"job", "failed", "mounting", "nothing"}

ExitBackupRunningStateFailed(e) ==
  [e EXCEPT !.state = "WAITING_FOR_MANUAL_BACKUP", !.runAction = TRUE]

StartBackup(e, outcome) ==
  CASE outcome = "job"      -> [e EXCEPT !.backups = @ + 1, !.wantsRun = FALSE]
    [] outcome = "failed"   -> ExitBackupRunningStateFailed(e)
    [] outcome = "mounting" -> [e EXCEPT !.wantsRun = TRUE, !.listening = OneMore(@, 1)]
    [] OTHER                -> e

EnterBackupRunningState(e, outcome) ==
  StartBackup([e EXCEPT !.question = FALSE,
                        !.state = "BACKUP_RUNNING",
                        !.runAction = FALSE], outcome)

AskUser(e) ==
  [e EXCEPT !.question = TRUE, !.state = "WAITING_FOR_MANUAL_BACKUP"]

DiscardUserQuestion(e) == [e EXCEPT !.question = FALSE]

\* The schedule says that a backup should be taken now.
Due(e) ==
  \/ /\ e.plan.schedule = "INTERVAL"
     /\ e.age = Never \/ e.age > Interval
  \/ /\ e.plan.schedule = "USAGE"
     /\ e.age = Never \/ e.usage > UsageLimit

\* The dispatcher's first part: a destination that was away is available.
MakeAvailable(e) ==
  IF e.state = "NOT_AVAILABLE"
  THEN [e EXCEPT !.state = "WAITING_FOR_FIRST_BACKUP",
                 !.runAction = TRUE, !.showAction = TRUE]
  ELSE e

\* The dispatcher's second part: take a backup, ask for it, or sleep.
FollowSchedule(e, outcome) ==
  CASE Due(e) /\ e.plan.ask /\ e.state = "WAITING_FOR_FIRST_BACKUP" -> AskUser(e)
    [] Due(e) /\ ~(e.plan.ask /\ e.state = "WAITING_FOR_FIRST_BACKUP") ->
         EnterBackupRunningState(e, outcome)
    [] ~Due(e) /\ e.plan.schedule = "INTERVAL" ->
         [e EXCEPT !.timer = Interval - e.age]
    [] OTHER -> e

EnterAvailableState(e, outcome) == FollowSchedule(MakeAvailable(e), outcome)

\* Mutant: the scheduling timer is left running.
EnterNotAvailableStateAwake(e) ==
  [e EXCEPT !.showAction = FALSE, !.runAction = FALSE, !.state = "NOT_AVAILABLE"]

EnterNotAvailableState(e) ==
  [e EXCEPT !.timer = Stopped, !.showAction = FALSE, !.runAction = FALSE,
            !.state = "NOT_AVAILABLE"]

ResetUsage(e) ==
  IF e.plan.schedule = "USAGE" THEN Save([e EXCEPT !.usage = 0]) ELSE e

\* Mutant: the dispatcher is not called to set the timer again.
ExitBackupRunningStateOnly(e, successful, outcome) ==
  IF successful
  THEN [ResetUsage(e) EXCEPT !.state = "WAITING_FOR_BACKUP_AGAIN", !.runAction = TRUE]
  ELSE ExitBackupRunningStateFailed(e)

ExitBackupRunningState(e, successful, outcome) ==
  IF successful
  THEN EnterAvailableState([ResetUsage(e) EXCEPT !.state = "WAITING_FOR_BACKUP_AGAIN",
                                                 !.runAction = TRUE], outcome)
  ELSE ExitBackupRunningStateFailed(e)

-----------------------------------------------------------------------------
(***************************************************************************)
(* The results of the jobs.  A backup or a check may end by suggesting a   *)
(* repair; every other error leaves only a text and perhaps a log.         *)
(***************************************************************************)
JobResults == {"NoError", "Error", "ErrorSuggestRepair"}

\* Only an archive of bup can be repaired.
ResultsOf(e) ==
  {"NoError", "Error"}
  \cup (IF e.plan.type = "BupType" THEN {"ErrorSuggestRepair"} ELSE {})

Offer(e, notification, result) ==
  [e EXCEPT !.offers = IF result = "ErrorSuggestRepair" THEN @ \cup {notification}
                                                        ELSE @ \ {notification}]

\* Mutants of slotBackupDone(): a failure leaves the state alone, the backup is
\* recorded before the result is looked at, the usage is reset too early.
SlotBackupDoneHanging(e, result) ==
  LET done == [e EXCEPT !.backups = @ - 1]
  IN  IF result = "NoError"
      THEN [done EXCEPT !.age = 0, !.sizes = @ + 1]
      ELSE Offer(done, "fail", result)

SlotBackupDoneRash(e, result) ==
  LET done == [e EXCEPT !.backups = @ - 1, !.savedAge = 0]
  IN  IF result = "NoError"
      THEN [done EXCEPT !.age = 0, !.sizes = @ + 1]
      ELSE ExitBackupRunningStateFailed(Offer(done, "fail", result))

SlotBackupDoneResetting(e, result) ==
  LET done == [e EXCEPT !.backups = @ - 1]
  IN  IF result = "NoError"
      THEN [ResetUsage(done) EXCEPT !.age = 0, !.sizes = @ + 1]
      ELSE ExitBackupRunningStateFailed(Offer(done, "fail", result))

\* slotBackupDone(), the same in both subclasses.
SlotBackupDone(e, result) ==
  LET done == [e EXCEPT !.backups = @ - 1]
  IN  IF result = "NoError"
      THEN [done EXCEPT !.age = 0, !.sizes = @ + 1]
      ELSE ExitBackupRunningStateFailed(Offer(done, "fail", result))

\* slotBackupSizeDone(), the same in both subclasses.
SlotBackupSizeDone(e, successful, outcome) ==
  ExitBackupRunningState(Save([e EXCEPT !.sizes = @ - 1]), successful, outcome)

\* Mutant: a backup that is running does not keep a test from being started.
MayTestBesides(e) == e.plan.type = "BupType" /\ e.state # "NOT_AVAILABLE"

\* The early return of startIntegrityCheck() and startRepairJob().
MayTest(e) == e.plan.type = "BupType" /\ ~busy(e) /\ e.state # "NOT_AVAILABLE"

StartIntegrityCheck(e) ==
  IF MayTest(e)
  THEN [e EXCEPT !.checks = @ + 1, !.lastState = e.state,
                 !.state = "INTEGRITY_TESTING", !.runAction = FALSE]
  ELSE e

StartRepairJob(e) ==
  IF MayTest(e)
  THEN [e EXCEPT !.repairs = @ + 1, !.lastState = e.state,
                 !.state = "REPAIRING", !.runAction = FALSE]
  ELSE e

\* Mutant: the run action stays disabled.
RestoreFromLocked(e, state) ==
  [e EXCEPT !.state = IF @ = state THEN e.lastState ELSE @]

RestoreFrom(e, state) ==
  [e EXCEPT !.state = IF @ = state THEN e.lastState ELSE @, !.runAction = TRUE]

IntegrityCheckFinished(e, result) ==
  RestoreFrom(Offer([e EXCEPT !.checks = @ - 1], "integrity", result),
              "INTEGRITY_TESTING")

RepairFinished(e) == RestoreFrom([e EXCEPT !.repairs = @ - 1], "REPAIRING")

UpdateAccumulatedUsageTime(e, outcome) ==
  LET counted == IF e.plan.schedule = "USAGE"
                 THEN Save([e EXCEPT !.usage = OneMore(@, UsageLimit)])
                 ELSE e
  IN  CASE e.state = "BACKUP_RUNNING" -> e
        [] e.state \in WaitingStates /\ e.plan.schedule = "USAGE" ->
             EnterAvailableState(counted, outcome)
        [] OTHER -> counted

\* Mutant: the timeout has nothing connected to it.
SchedulingTimeoutLost(e, outcome) == [e EXCEPT !.timer = Stopped]

\* The timer is single-shot: it is stopped when it calls the dispatcher.
SchedulingTimeout(e, outcome) ==
  EnterAvailableState([e EXCEPT !.timer = Stopped], outcome)

-----------------------------------------------------------------------------
\* One tick of the wall clock, for the executor and for what it has saved.
Older(age) == IF age = Never THEN Never ELSE OneMore(age, Interval)

ClockTick(e) ==
  [e EXCEPT !.age = Older(@), !.savedAge = Older(@),
            !.timer = IF @ > 0 THEN @ - 1 ELSE @]

-----------------------------------------------------------------------------
(***************************************************************************)
(* What both kinds of executors keep true of themselves, in words where    *)
(* EDExecutor and FSExecutor state it of their variables.                  *)
(***************************************************************************)

\* Available and not busy: the user can start a backup by hand.
RunnableByHand(e) ==
  e.state \in WaitingStates \cup {"WAITING_FOR_MANUAL_BACKUP"} => e.runAction

\* In, or about to return to, a state in which the schedule runs the plan.
OnSchedule(e) ==
  \/ e.state \in WaitingStates
  \/ e.state \in {"INTEGRITY_TESTING", "REPAIRING"} /\ e.lastState \in WaitingStates

\* The timer of a plan run at intervals rings no later than its backup falls due.
HasWakeup(e) ==
  e.plan.schedule = "INTERVAL" /\ OnSchedule(e) =>
    /\ e.timer # Stopped /\ e.age # Never
    /\ e.timer = 0 \/ e.timer + e.age <= Interval

\* The timer of a plan whose destination is away is not running: it would call
\* the dispatcher, which takes the destination for available.
SleepsWhileAway(e) == e.state = "NOT_AVAILABLE" => e.timer = Stopped

\* kuprc records no newer backup than the last one completed, and all usage.
RecordIsHonest(e) ==
  /\ e.savedAge # Never => e.age # Never /\ e.age <= e.savedAge
  /\ e.savedUsage = e.usage

\* What a check or a repair will return to is a state the user can act in.
TestReturnsToIdle(e) ==
  e.state \in {"INTEGRITY_TESTING", "REPAIRING"} =>
    e.lastState \in WaitingStates \cup {"WAITING_FOR_MANUAL_BACKUP"}

\* Something is in flight that will end the backup, the check or the repair.
BackupHasCause(e) ==
  e.state = "BACKUP_RUNNING" =>
    \/ e.backups + e.sizes > 0
    \/ e.wantsRun /\ e.listening > 0

TestHasCause(e) ==
  /\ e.state = "INTEGRITY_TESTING" => e.checks > 0
  /\ e.state = "REPAIRING" => e.repairs > 0

=============================================================================
