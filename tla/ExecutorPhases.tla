--------------------------- MODULE ExecutorPhases ---------------------------
(***************************************************************************)
(* What the daemon sees of an executor: the phase it is in and how many    *)
(* backups will report to it, as fields of a record x that may have more.  *)
(* Each operator says what may become of x in one change of its state      *)
(* (daemon/planexecutor.cpp).  KupDaemon is written with them; EDExecutor  *)
(* and FSExecutor, which know how the changes come about, are shown to     *)
(* make no other.                                                          *)
(***************************************************************************)
EXTENDS Integers

Phases == {"away", "idle", "backup", "test"}

View == [phase : Phases, backups : Nat]

InPhase(x, phase) == [x EXCEPT !.phase = phase]

AfterAppearing(x) == IF x.phase = "away" THEN {InPhase(x, "idle")} ELSE {}
AfterLeaving(x)   == IF x.phase # "away" THEN {InPhase(x, "away")} ELSE {}

\* A backup is started in any phase.  If the drive has to be mounted first there is no
\* job yet; when it is mounted there may be one, or the backup is given up.
AfterStart(x)  == {[x EXCEPT !.phase = "backup", !.backups = @ + n] : n \in {0, 1}}
AfterMount(x)  == IF x.phase # "away" THEN {[x EXCEPT !.backups = @ + 1]} ELSE {}
AfterGivingUp(x) == IF x.phase = "backup" THEN {InPhase(x, "idle")} ELSE {}

\* A backup reports, in whatever phase the executor has come to.
AfterBackup(x) ==
  IF x.backups > 0 THEN {[x EXCEPT !.phase = "idle", !.backups = @ - 1]} ELSE {}

\* A check or a repair.
AfterTestStart(x) == IF x.phase = "idle" THEN {InPhase(x, "test")} ELSE {}
AfterTest(x)      == IF x.phase = "test" THEN {InPhase(x, "idle")} ELSE {}

Changes(x) ==
  AfterAppearing(x) \cup AfterLeaving(x) \cup AfterStart(x) \cup AfterMount(x)
    \cup AfterGivingUp(x) \cup AfterBackup(x) \cup AfterTestStart(x) \cup AfterTest(x)

\* One call of a slot makes at most one of the changes, or two in a row: a destination
\* appears, or a backup reports, and the next backup is started at once.
MayBecome(x, y) ==
  \/ y = x
  \/ y \in Changes(x)
  \/ \E between \in AfterAppearing(x) \cup AfterBackup(x) : y \in AfterStart(between)

\* A new executor whose checkStatus() has been called.
NewViews ==
  [phase : {"away", "idle", "backup"}, backups : {0}] \cup [phase : {"backup"}, backups : {1}]
=============================================================================
