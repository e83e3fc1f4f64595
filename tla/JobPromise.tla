----------------------------- MODULE JobPromise -----------------------------
(***************************************************************************)
(* What a job of the daemon promises to the executor that created it       *)
(* (daemon/backupjob.h): once it is running it reports one result, and no  *)
(* other.  It reports success only when a backup of its own is complete at *)
(* the destination, and suggests a repair only to a plan whose archive may *)
(* be repaired.  PlanExecutor is written against this promise; BackupJobs  *)
(* shows that the jobs keep it.                                            *)
(***************************************************************************)
CONSTANT Jobs

VARIABLES
  task,   \* of each job what it is for and how far it is
  kept    \* the jobs whose backup is complete at the destination

promise == <<task, kept>>

Results == {"NoError", "ErrorWithLog", "ErrorWithoutLog", "ErrorSuggestRepair"}

Tasks ==
  [ purpose    : {"backup", "check", "repair"},
    repairable : BOOLEAN,
    outcome    : {"none", "running"} \cup Results ]

NoTask == [purpose |-> "backup", repairable |-> FALSE, outcome |-> "none"]

Init ==
  /\ task = [j \in Jobs |-> NoTask]
  /\ kept = {}

Begin(j) ==
  /\ task[j].outcome = "none"
  /\ \E t \in Tasks :
       /\ t.outcome = "running"
       /\ task' = [task EXCEPT ![j] = t]
  /\ UNCHANGED kept

\* Backups become complete: that of a job, or others with it.
Keep ==
  /\ \E S \in SUBSET {j \in Jobs : task[j].purpose = "backup"} : kept' = kept \cup S
  /\ UNCHANGED task

MayReport(j, result) ==
  /\ result = "NoError" => task[j].purpose = "backup" /\ j \in kept
  /\ result = "ErrorSuggestRepair" => task[j].repairable /\ j \notin kept

Report(j) ==
  /\ task[j].outcome = "running"
  /\ \E result \in Results :
       /\ MayReport(j, result)
       /\ task' = [task EXCEPT ![j].outcome = result]
  /\ UNCHANGED kept

Next == Keep \/ \E j \in Jobs : Begin(j) \/ Report(j)

Safety == Init /\ [][Next]_promise

Spec == Safety /\ \A j \in Jobs : WF_promise(Report(j))

=============================================================================
