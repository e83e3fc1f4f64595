----------------------------- MODULE FSExecutor -----------------------------
(***************************************************************************)
(* Backup plans whose destination is a folder: class FSExecutor            *)
(* (daemon/fsexecutor.cpp) on top of PlanExecutor, in the event loop of    *)
(* the daemon.  While the folder exists the executor watches it for its    *)
(* deletion; while it does not, the executor watches the nearest parent    *)
(* that exists, and the mounts of the system.  After an event of a parent  *)
(* it comes back a few seconds later, which it remembers in one flag that  *)
(* all executors share (fsexecutor.cpp:48).                                *)
(*                                                                         *)
(* A destination is a path of Depth components.  What the filesystem has   *)
(* of it is a number: components 1 to depth exist.  Component MountAt may  *)
(* have other filesystems mounted over it.                                 *)
(***************************************************************************)
EXTENDS PlanExecutor

CONSTANTS
  Plans,         \* the plans of kuprc that have a folder as destination
  PlanSettings,  \* what may be configured for them
  Depth,         \* the number of components of a destination path
  MountAt,       \* the component filesystems are mounted at
  CoverDepth,    \* components that may exist under the place they are mounted at
  MaxMounts,     \* bound: filesystems mounted over one another
  ModeChanges,   \* the folder may become writable or read-only as it is
  MaxJobs,       \* bound: jobs in flight of a plan, backups and sizes, tests
  MaxTimers      \* bound: five-second timers of a plan

ASSUME FSAssumption ==
  /\ PlanSettings \subseteq Plan
  /\ Depth \in Nat \ {0}
  /\ MountAt \in 0 .. Depth
  /\ CoverDepth \in MountAt .. Depth
  /\ MaxMounts \in 0 .. 2
  /\ ModeChanges \in BOOLEAN
  /\ MaxJobs \in Nat
  /\ MaxTimers \in Nat \ {0}

VARIABLES
  exec,      \* the executor of each plan
  folder,    \* what there is of each destination
  watched,   \* mWatchedParentDir: a number of components, or NoParent
  later,     \* lComingBackLater, one for all executors
  timers,    \* single-shot timers that will call checkStatus()
  signals    \* of KDirWatch and of the mount watcher, on their way

vars == <<exec, folder, watched, later, timers, signals>>

NoParent == -1   \* mWatchedParentDir is empty: the destination itself is watched

Folder  == [depth : 0 .. Depth, writable : BOOLEAN, mounts : 0 .. MaxMounts]
Signals == {"dirty", "deleted", "mountsChanged"}

TypeOK ==
  /\ exec \in [Plans -> Executor]
  /\ folder \in [Plans -> Folder]
  /\ watched \in [Plans -> {NoParent} \cup 0 .. Depth - 1]
  /\ later \in BOOLEAN
  /\ timers \in [Plans -> Nat]
  /\ signals \in [Plans -> SUBSET Signals]

Exists(f) == f.depth = Depth
Usable(f) == Exists(f) /\ f.writable

\* What checkStatus() will find to watch.
NearestParent(f) == IF Exists(f) THEN NoParent ELSE f.depth

-----------------------------------------------------------------------------
(***************************************************************************)
(* The file system.  KDirWatch reports when something appears in or        *)
(* disappears from a watched directory (dirty) and when a watched          *)
(* directory is gone (deleted); that a filesystem has been mounted it does *)
(* not report, but the mount watcher does (fsexecutor.h:32).  The mount    *)
(* watcher is connected only while a parent is watched.                    *)
(***************************************************************************)
Watching(p) == watched[p] # NoParent

DirtySignal(p, n) == IF watched[p] = n THEN {"dirty"} ELSE {}
MountSignal(p)    == IF Watching(p) THEN {"mountsChanged"} ELSE {}
GoneSignal(p, f)  ==
  IF IF Watching(p) THEN watched[p] > f.depth ELSE Exists(folder[p]) /\ ~Exists(f)
  THEN {"deleted"} ELSE {}

Becomes(p, f, reported) ==
  /\ folder' = [folder EXCEPT ![p] = f]
  /\ signals' = [signals EXCEPT ![p] = @ \cup reported]
  /\ UNCHANGED <<exec, watched, later, timers>>

\* The folder with n components, writable or not if it exists.
Resized(f, n) ==
  {[f EXCEPT !.depth = n, !.writable = w] : w \in IF n = Depth THEN BOOLEAN ELSE {FALSE}}

Create(p) ==
  LET f == folder[p]
  IN  /\ f.depth < Depth
      /\ \E g \in Resized(f, f.depth + 1) : Becomes(p, g, DirtySignal(p, f.depth))

Delete(p) ==
  LET f == folder[p]
  IN  /\ f.depth > 0
      /\ f.mounts > 0 => f.depth # MountAt
      /\ \E g \in Resized(f, f.depth - 1) :
            Becomes(p, g, DirtySignal(p, g.depth) \cup GoneSignal(p, g))

\* What is covered by the new filesystem disappears without being reported.
Mount(p) ==
  LET f == folder[p]
  IN  /\ f.mounts < MaxMounts
      /\ f.depth \in MountAt .. CoverDepth
      /\ \E n \in MountAt .. Depth : \E g \in Resized(f, n) :
            Becomes(p, [g EXCEPT !.mounts = f.mounts + 1], MountSignal(p))

Unmount(p) ==
  LET f == folder[p]
  IN  /\ f.mounts > 0
      /\ \E n \in MountAt .. CoverDepth : \E g \in Resized(f, n) :
            Becomes(p, [g EXCEPT !.mounts = f.mounts - 1],
                    MountSignal(p) \cup GoneSignal(p, g))

ChangeMode(p) ==
  /\ ModeChanges /\ Exists(folder[p])
  /\ Becomes(p, [folder[p] EXCEPT !.writable = ~@], {})

\* Something else happens in the watched parent, or is mounted elsewhere.
Noise(p, s) ==
  /\ Watching(p)
  /\ s \notin signals[p]
  /\ Becomes(p, folder[p], {s})

-----------------------------------------------------------------------------
(***************************************************************************)
(* checkStatus().                                                          *)
(***************************************************************************)

\* startBackup() fails only without a job to start.
Outcome(e) == IF e.plan.type = "Invalid" THEN "failed" ELSE "job"

\* The executor after it has looked at the folder.
SeeFolder(e, f) ==
  CASE Usable(f) /\ e.state = "NOT_AVAILABLE" -> EnterAvailableState(e, Outcome(e))
    [] ~Usable(f) /\ e.state # "NOT_AVAILABLE" -> EnterNotAvailableState(e)
    [] OTHER -> e

\* exec[p] becomes e, within the bound.
Runs(p, e) ==
  /\ e.backups + e.sizes <= MaxJobs
  /\ e.checks + e.repairs <= MaxJobs
  /\ exec' = [exec EXCEPT ![p] = e]

\* What happens to a signal of p that is delivered, and to those still on their
\* way from a directory that is not watched any more.
Consume(p, s) ==
  signals' = [signals EXCEPT ![p] =
                IF watched'[p] = watched[p] THEN @ \ {s}
                                            ELSE (@ \ {s}) \cap {"mountsChanged"}]

\* Mutant: the timer is not started.
ComeBackLaterLost(p, armed) ==
  /\ timers' = [timers EXCEPT ![p] = armed]
  /\ later' = TRUE
  /\ UNCHANGED <<exec, watched>>

ComeBackLater(p, armed) ==
  /\ armed < MaxTimers
  /\ timers' = [timers EXCEPT ![p] = armed + 1]
  /\ later' = TRUE
  /\ UNCHANGED <<exec, watched>>

\* Mutants: the watch stays on the first parent; the state waits for the next event
\* when the folder has appeared.
ExamineStaying(p) ==
  /\ Runs(p, SeeFolder(exec[p], folder[p]))
  /\ watched' = [watched EXCEPT ![p] = IF Watching(p) /\ ~Exists(folder[p])
                                       THEN @ ELSE NearestParent(folder[p])]

ExamineWatchOnly(p) ==
  /\ Runs(p, IF Watching(p) /\ Exists(folder[p]) THEN exec[p]
                                                 ELSE SeeFolder(exec[p], folder[p]))
  /\ watched' = [watched EXCEPT ![p] = NearestParent(folder[p])]

Examine(p) ==
  /\ Runs(p, SeeFolder(exec[p], folder[p]))
  /\ watched' = [watched EXCEPT ![p] = NearestParent(folder[p])]

\* With `armed' timers of the plan running.
CheckStatus(p, armed) ==
  \/ /\ Watching(p) /\ ~later
     /\ ComeBackLater(p, armed)
  \/ /\ ~Watching(p) \/ later
     /\ Examine(p)
     /\ later' = FALSE
     /\ timers' = [timers EXCEPT ![p] = armed]

\* checkMountPoints() with two lines of /proc/mounts for the watched parent: one
\* of the two calls sets the timer and the other one looks, in either order.
CheckStatusTwice(p) ==
  LET again == ~later \/ NearestParent(folder[p]) = MountAt
  IN  /\ again => timers[p] < MaxTimers
      /\ Examine(p)
      /\ later' = (later /\ again)
      /\ timers' = [timers EXCEPT ![p] = IF again THEN @ + 1 ELSE @]

DirWatch(p, s) ==
  /\ s \in signals[p] \cap {"dirty", "deleted"}
  /\ CheckStatus(p, timers[p])
  /\ Consume(p, s)
  /\ UNCHANGED folder

CheckMountPoints(p) ==
  LET lines == IF watched[p] = MountAt THEN folder[p].mounts ELSE 0
  IN  /\ "mountsChanged" \in signals[p]
      /\ \/ lines = 0 /\ UNCHANGED <<exec, watched, later, timers>>
         \/ lines = 1 /\ CheckStatus(p, timers[p])
         \/ lines = 2 /\ CheckStatusTwice(p)
      /\ Consume(p, "mountsChanged")
      /\ UNCHANGED folder

LaterTimeout(p) ==
  /\ timers[p] > 0
  /\ CheckStatus(p, timers[p] - 1)
  /\ Consume(p, "timeout")
  /\ UNCHANGED folder

-----------------------------------------------------------------------------
(***************************************************************************)
(* The user, the jobs and the clock: the slots of PlanExecutor.            *)
(***************************************************************************)
quiet == <<folder, watched, later, timers, signals>>

UserStarts(p) ==
  /\ exec[p].runAction \/ exec[p].question
  /\ Runs(p, EnterBackupRunningState(exec[p], Outcome(exec[p])))
  /\ UNCHANGED quiet

AnswerNo(p) ==
  /\ exec[p].question
  /\ Runs(p, DiscardUserQuestion(exec[p]))
  /\ UNCHANGED quiet

CheckIntegrity(p) ==
  /\ Runs(p, StartIntegrityCheck(exec[p]))
  /\ UNCHANGED quiet

Without(e, notification) == [e EXCEPT !.offers = @ \ {notification}]

AcceptRepair(p, notification) ==
  /\ notification \in exec[p].offers
  /\ Runs(p, StartRepairJob(Without(exec[p], notification)))
  /\ UNCHANGED quiet

DeclineRepair(p, notification) ==
  /\ notification \in exec[p].offers
  /\ Runs(p, Without(exec[p], notification))
  /\ UNCHANGED quiet

BackupDone(p) ==
  /\ exec[p].backups > 0
  /\ \E r \in ResultsOf(exec[p]) : Runs(p, SlotBackupDone(exec[p], r))
  /\ UNCHANGED quiet

BackupSizeDone(p) ==
  /\ exec[p].sizes > 0
  /\ \E successful \in BOOLEAN :
        Runs(p, SlotBackupSizeDone(exec[p], successful, Outcome(exec[p])))
  /\ UNCHANGED quiet

\* A check or a repair reports: the one the executor is busy with (own) or one
\* that was started before it.
CheckDone(p, own) ==
  /\ \/ own /\ exec[p].state = "INTEGRITY_TESTING"
     \/ ~own /\ exec[p].checks > IF exec[p].state = "INTEGRITY_TESTING" THEN 1 ELSE 0
  /\ \E r \in {"Error", "ErrorSuggestRepair"} :
        Runs(p, IntegrityCheckFinished(exec[p], r))
  /\ UNCHANGED quiet

RepairDone(p, own) ==
  /\ \/ own /\ exec[p].state = "REPAIRING"
     \/ ~own /\ exec[p].repairs > IF exec[p].state = "REPAIRING" THEN 1 ELSE 0
  /\ Runs(p, RepairFinished(exec[p]))
  /\ UNCHANGED quiet

UsageMonitorTimeout(p) ==
  /\ Runs(p, UpdateAccumulatedUsageTime(exec[p], Outcome(exec[p])))
  /\ UNCHANGED quiet

Wakeup(p) ==
  /\ exec[p].timer = 0
  /\ Runs(p, SchedulingTimeout(exec[p], Outcome(exec[p])))
  /\ UNCHANGED quiet

Tick ==
  /\ exec' = [p \in Plans |-> ClockTick(exec[p])]
  /\ UNCHANGED quiet

-----------------------------------------------------------------------------
(***************************************************************************)
(* New executors look at their folders at once: they watch no parent yet.  *)
(* All plans are made anew together, after a crash of the daemon and when  *)
(* reloadConfig() finds no executor busy; the timers and the signals of    *)
(* the old executors go with them, the shared flag is reset by the first   *)
(* call of checkStatus().                                                  *)
(***************************************************************************)
Recreate(e, plan, f) == SeeFolder(NewExecutor(plan, e.savedAge, e.savedUsage), f)

SetupExecutors(plans) ==
  /\ exec' = [p \in Plans |-> Recreate(exec[p], plans[p], folder[p])]
  /\ watched' = [p \in Plans |-> NearestParent(folder[p])]
  /\ later' = FALSE
  /\ timers' = [p \in Plans |-> 0]
  /\ signals' = [p \in Plans |-> {}]
  /\ UNCHANGED folder

Crash == SetupExecutors([p \in Plans |-> exec[p].plan])

Reload ==
  /\ \A p \in Plans : ~busy(exec[p])
  /\ \E plans \in [Plans -> PlanSettings] : SetupExecutors(plans)

\* Plans that have just been configured, and nothing there of their folders yet.
Init ==
  /\ folder = [p \in Plans |-> [depth |-> 0, writable |-> FALSE, mounts |-> 0]]
  /\ \E plans \in [Plans -> PlanSettings] :
        exec = [p \in Plans |-> NewExecutor(plans[p], Never, 0)]
  /\ watched = [p \in Plans |-> 0]
  /\ later = FALSE
  /\ timers = [p \in Plans |-> 0]
  /\ signals = [p \in Plans |-> {}]

FileSystem(p) ==
  \/ Create(p) \/ Delete(p) \/ Mount(p) \/ Unmount(p) \/ ChangeMode(p)
  \/ \E s \in {"dirty", "mountsChanged"} : Noise(p, s)

Monitor(p) ==
  \/ \E s \in {"dirty", "deleted"} : DirWatch(p, s)
  \/ CheckMountPoints(p)
  \/ LaterTimeout(p)

User(p) ==
  \/ UserStarts(p) \/ AnswerNo(p) \/ CheckIntegrity(p)
  \/ \E n \in {"fail", "integrity"} : AcceptRepair(p, n) \/ DeclineRepair(p, n)

Job(p) ==
  \/ BackupDone(p) \/ BackupSizeDone(p)
  \/ \E own \in BOOLEAN : CheckDone(p, own) \/ RepairDone(p, own)

Timer(p) == UsageMonitorTimeout(p) \/ Wakeup(p)

Next ==
  \/ \E p \in Plans : FileSystem(p) \/ Monitor(p) \/ User(p) \/ Job(p) \/ Timer(p)
  \/ Tick \/ Crash \/ Reload

Spec == Init /\ [][Next]_vars

-----------------------------------------------------------------------------
(***************************************************************************)
(* Properties the executors have.                                          *)
(***************************************************************************)

\* Nothing is on its way that would make plan p look at its folder again.
Settled(p) == timers[p] = 0 /\ signals[p] = {}

\* An executor is never blind: once its events have been handled it watches the
\* nearest existing parent of a folder that is not there, and the folder itself
\* when it is there (fsexecutor.cpp:61-93), however creation, deletion, mounts and
\* the five-second delay have overlapped.  A place that is mounted over must not
\* hold a part of the path of its own (CoverDepth = MountAt < Depth).
NeverBlind == \A p \in Plans : Settled(p) => watched[p] = NearestParent(folder[p])

\* A folder that can be written to is not left unavailable (fsexecutor.cpp:96-98),
\* if only its permissions do not change under the executor's eyes.
FolderIsAvailable ==
  \A p \in Plans :
    Settled(p) /\ Usable(folder[p]) /\ ~ModeChanges => exec[p].state # "NOT_AVAILABLE"

\* A busy executor has something in flight that ends its state, also when the
\* folder came back while an old job was running (fsexecutor.cpp:96-100).
BusyHasCause == \A p \in Plans : BackupHasCause(exec[p]) /\ TestHasCause(exec[p])

\* An available, idle plan can be run by hand (planexecutor.cpp:100, 275, 302, 321).
NeverLockedOut == \A p \in Plans : RunnableByHand(exec[p])

\* A plan run at intervals has its alarm while it waits, and none while its folder
\* is away (planexecutor.cpp:126-127, 151-153, 158).
WaitingHasWakeup ==
  \A p \in Plans : HasWakeup(exec[p]) /\ SleepsWhileAway(exec[p])

\* A crash leaves no record of a backup that was not completed, and no test returns
\* to a state that is busy or out of date (fsexecutor.cpp:118-146).
RecordNeverOverstates ==
  \A p \in Plans : RecordIsHonest(exec[p]) /\ TestReturnsToIdle(exec[p])

\* No backup is missed that could be made: neither by hand, nor by the schedule while
\* folders come and go under jobs of all kinds, nor after a crash.
NoBackupMissed == NeverLockedOut /\ WaitingHasWakeup /\ RecordNeverOverstates

\* What the daemon sees of an executor in one call of a slot is what KupDaemon lets it
\* do: up to two changes of ExecutorPhases; or all executors are made anew
\* (planexecutor.cpp:97-363, kupdaemon.cpp:82-87).
ChangesAsSeen ==
  [][\/ \A p \in Plans : MayBecome(Seen(exec[p]), Seen(exec'[p]))
     \/ (Crash \/ Reload) /\ \A p \in Plans : Seen(exec'[p]) \in NewViews]_vars

(***************************************************************************)
(* The event loop delivers what it has been sent and its timers ring.  The *)
(* delivery is strongly fair because only the bound on timers stops it.    *)
(***************************************************************************)
FairSpec == Spec /\ \A p \in Plans :
  /\ \A s \in {"dirty", "deleted"} : SF_vars(DirWatch(p, s))
  /\ SF_vars(CheckMountPoints(p))
  /\ WF_vars(LaterTimeout(p))

\* README.md:21: the destination "only exist when perhaps a network shared drive is
\* mounted and Kup will detect when it becomes available".  One plan by itself does
\* (fsexecutor.cpp:47-58, 148-167); with two the shared flag makes a difference.
FolderIsNoticed ==
  \A p \in Plans :
    Usable(folder[p]) ~> (exec[p].state # "NOT_AVAILABLE" \/ ~Usable(folder[p]))

=============================================================================
