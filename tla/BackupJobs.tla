----------------------------- MODULE BackupJobs -----------------------------
(***************************************************************************)
(* The jobs of the daemon: BupJob, RsyncJob, BupVerificationJob and        *)
(* BupRepairJob (daemon/bupjob.cpp and the like).  A job runs external     *)
(* programs, one after the other, each started by the slot that is told    *)
(* how the one before it ended, and at last reports a result.  An executor *)
(* may have several jobs at once and plans may share a destination, so any *)
(* number of jobs work on one archive in any order.                        *)
(*                                                                         *)
(* Between the end of a program and the slot that is told of it anything   *)
(* may happen.  The programs themselves are not part of Kup: what their    *)
(* exit status says about the archive is taken from how the jobs use it.   *)
(***************************************************************************)
CONSTANTS
  Jobs,
  JobSettings   \* the kinds of jobs that are created, with their plan's settings

Kinds == {"bup", "rsync", "verify", "repair"}

Settings ==
  [ kind     : Kinds,
    check    : BOOLEAN,    \* mCheckBackups
    recovery : BOOLEAN ]   \* mGenerateRecoveryInfo

ASSUME JobSettingsAssumption == JobSettings \subseteq Settings

VARIABLES
  job,         \* the job objects
  damaged,     \* the archive is damaged
  snapshots,   \* jobs whose files are all saved at the destination
  covered,     \* snapshots for which there is recovery information
  sound        \* jobs that, by themselves, have found the archive sound

archive == <<damaged, snapshots, covered, sound>>
vars    == <<job, damaged, snapshots, covered, sound>>

Results == {"NoError", "ErrorWithLog", "ErrorWithoutLog", "ErrorSuggestRepair"}

Programs == {"checking", "indexing", "saving", "recovery",   \* of a BupJob
             "copying", "verifying", "repairing"}            \* of the other three

\* How a program ended; 100 is what `bup fsck -r' returns for a repair that worked.
Exits == {"0", "100", "failed", "crashed"}

Job ==
  [ settings : Settings,
    stage    : {"none", "posted", "done"} \cup Programs,
    exit     : {"none"} \cup Exits,   \* finished() is on its way to the slot
    result   : {"none"} \cup Results ]

TypeOK ==
  /\ job \in [Jobs -> Job]
  /\ damaged \in BOOLEAN
  /\ snapshots \subseteq Jobs
  /\ covered \subseteq snapshots
  /\ sound \subseteq Jobs

NoJob == [ settings |-> [kind |-> "bup", check |-> FALSE, recovery |-> FALSE],
           stage |-> "none", exit |-> "none", result |-> "none" ]

-----------------------------------------------------------------------------
(***************************************************************************)
(* The slots, as operators from the job before the call to the job after   *)
(* it.  A job that has reported does nothing more.                         *)
(***************************************************************************)
Run(jb, program) == [jb EXCEPT !.stage = program, !.exit = "none"]

EmitResult(jb, result) ==
  [jb EXCEPT !.stage = "done", !.exit = "none", !.result = result]

\* A failed check or verification.
ReportDamage(jb) ==
  EmitResult(jb, IF jb.settings.recovery THEN "ErrorSuggestRepair" ELSE "ErrorWithLog")

\* Mutant: a check that crashed is taken for one that found nothing.
SlotCheckingDoneByCode(jb, exit) ==
  IF exit \in {"0", "crashed"} THEN Run(jb, "indexing") ELSE ReportDamage(jb)

SlotCheckingDone(jb, exit) ==
  IF exit = "0" THEN Run(jb, "indexing") ELSE ReportDamage(jb)

SlotIndexingDone(jb, exit) ==
  IF exit = "0" THEN Run(jb, "saving") ELSE EmitResult(jb, "ErrorWithLog")

\* Mutant: the plan's wish for recovery information is overlooked.
SlotSavingDoneAtLast(jb, exit) ==
  EmitResult(jb, IF exit = "0" THEN "NoError" ELSE "ErrorWithLog")

SlotSavingDone(jb, exit) ==
  CASE exit # "0"                         -> EmitResult(jb, "ErrorWithLog")
    [] exit = "0" /\ jb.settings.recovery -> Run(jb, "recovery")
    [] OTHER                              -> EmitResult(jb, "NoError")

\* slotRecoveryInfoDone() and slotRsyncFinished(): the last program of a backup.
\* Mutant: the result is set and not emitted.
SlotLastDoneSilent(jb, exit) ==
  [jb EXCEPT !.exit = "none", !.result = IF exit = "0" THEN "NoError" ELSE "ErrorWithLog"]

SlotLastDone(jb, exit) ==
  EmitResult(jb, IF exit = "0" THEN "NoError" ELSE "ErrorWithLog")

\* BupVerificationJob: good news are an error too, because they have a log.
SlotVerificationDone(jb, exit) ==
  IF exit = "0" THEN EmitResult(jb, "ErrorWithLog") ELSE ReportDamage(jb)

SlotRepairDone(jb) == EmitResult(jb, "ErrorWithLog")

(***************************************************************************)
(* startJob(): the event loop waits for `bup fsck --par2-ok' or for the    *)
(* version of the program, and for `bup init'.                             *)
(***************************************************************************)
Tools == {"all", "no par2", "none"}   \* what is found to be installed

Lacks(jb, tools) ==
  \/ tools = "none"
  \/ tools = "no par2" /\ jb.settings.kind \in {"bup", "repair"} /\ jb.settings.recovery

StartBup(jb, init) ==
  CASE ~init                      -> EmitResult(jb, "ErrorWithLog")
    [] init /\ jb.settings.check  -> Run(jb, "checking")
    [] init /\ ~jb.settings.check -> SlotCheckingDone(jb, "0")

StartJob(jb, tools, init) ==
  CASE Lacks(jb, tools) -> EmitResult(jb, "ErrorWithoutLog")
    [] ~Lacks(jb, tools) /\ jb.settings.kind = "bup"    -> StartBup(jb, init)
    [] ~Lacks(jb, tools) /\ jb.settings.kind = "rsync"  -> Run(jb, "copying")
    [] ~Lacks(jb, tools) /\ jb.settings.kind = "verify" -> Run(jb, "verifying")
    [] ~Lacks(jb, tools) /\ jb.settings.kind = "repair" -> Run(jb, "repairing")

-----------------------------------------------------------------------------
Init ==
  /\ job = [j \in Jobs |-> NoJob]
  /\ damaged \in BOOLEAN
  /\ snapshots = {} /\ covered = {} /\ sound = {}

\* An executor creates a job and calls start(), which posts startJob().
Create(j) ==
  /\ job[j].stage = "none"
  /\ \E s \in JobSettings :
       job' = [job EXCEPT ![j].settings = s, ![j].stage = "posted"]
  /\ UNCHANGED archive

Start(j) ==
  /\ job[j].stage = "posted"
  /\ \E tools \in Tools, init \in BOOLEAN :
       job' = [job EXCEPT ![j] = StartJob(@, tools, init)]
  /\ UNCHANGED archive

\* finished() is delivered to the slot connected to it.
Finished(j, program) ==
  /\ job[j].stage = program /\ job[j].exit # "none"
  /\ UNCHANGED archive

CheckingDone(j) ==
  /\ Finished(j, "checking")
  /\ job' = [job EXCEPT ![j] = SlotCheckingDone(@, @.exit)]

IndexingDone(j) ==
  /\ Finished(j, "indexing")
  /\ job' = [job EXCEPT ![j] = SlotIndexingDone(@, @.exit)]

SavingDone(j) ==
  /\ Finished(j, "saving")
  /\ job' = [job EXCEPT ![j] = SlotSavingDone(@, @.exit)]

RecoveryInfoDone(j) ==
  /\ Finished(j, "recovery")
  /\ job' = [job EXCEPT ![j] = SlotLastDone(@, @.exit)]

RsyncFinished(j) ==
  /\ Finished(j, "copying")
  /\ job' = [job EXCEPT ![j] = SlotLastDone(@, @.exit)]

VerificationDone(j) ==
  /\ Finished(j, "verifying")
  /\ job' = [job EXCEPT ![j] = SlotVerificationDone(@, @.exit)]

RepairDone(j) ==
  /\ Finished(j, "repairing")
  /\ job' = [job EXCEPT ![j] = SlotRepairDone(@)]

Slot(j) ==
  \/ Start(j)
  \/ CheckingDone(j) \/ IndexingDone(j) \/ SavingDone(j) \/ RecoveryInfoDone(j)
  \/ RsyncFinished(j) \/ VerificationDone(j) \/ RepairDone(j)

-----------------------------------------------------------------------------
(***************************************************************************)
(* The programs.  Each takes effect at the moment it ends, and each may    *)
(* fail or crash for reasons of its own.                                   *)
(***************************************************************************)
Ends(j, program, exit) ==
  /\ job[j].stage = program /\ job[j].exit = "none"
  /\ job' = [job EXCEPT ![j].exit = exit]

\* bup fsck --quick, of a backup and of a verification
FsckEnds(j) ==
  /\ ~damaged
  /\ Ends(j, "checking", "0") \/ Ends(j, "verifying", "0")
  /\ sound' = sound \cup {j}
  /\ UNCHANGED <<damaged, snapshots, covered>>

IndexEnds(j) == Ends(j, "indexing", "0") /\ UNCHANGED archive

\* bup save and rsync: everything is saved
SaveEnds(j) ==
  /\ Ends(j, "saving", "0") \/ Ends(j, "copying", "0")
  /\ snapshots' = snapshots \cup {j}
  /\ UNCHANGED <<damaged, covered, sound>>

\* bup fsck -g covers what there was when it began, and perhaps what came later
ParityEnds(j) ==
  /\ Ends(j, "recovery", "0")
  /\ \E S \in SUBSET snapshots : covered' = covered \cup {j} \cup S
  /\ UNCHANGED <<damaged, snapshots, sound>>

\* bup fsck -r
RepairEnds(j) ==
  /\ Ends(j, "repairing", IF damaged THEN "100" ELSE "0")
  /\ damaged' = FALSE
  /\ UNCHANGED <<snapshots, covered, sound>>

GoesWrong(j) ==
  /\ \E program \in Programs, exit \in {"failed", "crashed"} : Ends(j, program, exit)
  /\ UNCHANGED archive

Program(j) ==
  \/ FsckEnds(j) \/ IndexEnds(j) \/ SaveEnds(j) \/ ParityEnds(j)
  \/ RepairEnds(j) \/ GoesWrong(j)

Damage == damaged' = TRUE /\ UNCHANGED <<job, snapshots, covered, sound>>

Next == Damage \/ \E j \in Jobs : Create(j) \/ Slot(j) \/ Program(j)

(***************************************************************************)
(* Posted calls and signals are delivered, and programs start and end:     *)
(* QProcess tells of a program that cannot be started by error(), which no *)
(* job listens to.                                                         *)
(***************************************************************************)
Fairness == \A j \in Jobs : WF_vars(Slot(j)) /\ WF_vars(Program(j))

Spec == Init /\ [][Next]_vars /\ Fairness

-----------------------------------------------------------------------------
\* A plan that has its archive checked before each backup gets nothing added to
\* it by a job that has not found it sound itself, whatever the other jobs found
\* or repaired meanwhile.
NothingAddedUnchecked ==
  \A j \in snapshots :
    job[j].settings.kind = "bup" /\ job[j].settings.check => j \in sound

\* Every job that was started reports to its executor: what BusyHasCause counts
\* on when it takes a job in flight for something that will end a busy state.
EveryJobReports ==
  \A j \in Jobs : job[j].stage = "posted" ~> job[j].stage = "done"

(***************************************************************************)
(* The promise the executors rely on.  A backup is kept when all is saved  *)
(* and, if the plan wants it, covered by recovery information.             *)
(***************************************************************************)
Purpose(kind) ==
  CASE kind \in {"bup", "rsync"} -> "backup"
    [] kind = "verify"           -> "check"
    [] kind = "repair"           -> "repair"

Promised(jb) ==
  [ purpose    |-> Purpose(jb.settings.kind),
    repairable |-> jb.settings.recovery /\ jb.settings.kind \in {"bup", "verify"},
    outcome    |-> CASE jb.stage = "none" -> "none"
                     [] jb.stage = "done" -> jb.result
                     [] OTHER             -> "running" ]

WantsRecovery(s) == s.kind = "bup" /\ s.recovery

Task == [j \in Jobs |-> Promised(job[j])]
Kept == {j \in snapshots : WantsRecovery(job[j].settings) => j \in covered}

Promise == INSTANCE JobPromise WITH task <- Task, kept <- Kept

\* The jobs keep the promise: one result each, success only of a backup that is
\* complete, a repair suggested only where one is possible.
KeepsPromise == Promise!Safety

=============================================================================
