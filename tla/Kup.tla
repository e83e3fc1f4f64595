-------------------------------- MODULE Kup --------------------------------
(***************************************************************************)
(* The daemon and the settings module together: they share kuprc, and the  *)
(* settings module calls reloadConfig() over D-Bus when it has saved.  The *)
(* call returns when the daemon has handled it; while it lasts the window  *)
(* does nothing, but the daemon's other events may come first.             *)
(***************************************************************************)
EXTENDS KupDaemon, KupKcm

vars == <<kuprc, daemon, kcm>>

TypeOK == KuprcType /\ DaemonType /\ KcmType

Init ==
  /\ kuprc = [groups |-> [n \in Numbers |-> EmptyGroup], enabled |-> FALSE, count |-> 0]
  /\ running = FALSE /\ executors = <<>> /\ waiting = FALSE /\ calls = 0
  /\ window = "closed" /\ plans = <<>> /\ count = 0 /\ enables = FALSE
  /\ saved = 0 /\ renumbers = FALSE /\ removed = {}

Returns == window = "calling" /\ window' = "open"

\* The end of save(): the call reaches the daemon if there is one.
Called ==
  /\ Returns /\ running
  /\ ReloadConfig
  /\ calls' = IF running' THEN calls ELSE 0
  /\ UNCHANGED <<kuprc, plans, count, enables, saved, renumbers, removed>>

\* Without a daemon one is launched; if it comes up it reads the file by itself.
Launched ==
  /\ Returns /\ ~running
  /\ UNCHANGED <<kuprc, daemon, plans, count, enables, saved, renumbers, removed>>

Next ==
  \/ DaemonStep /\ UNCHANGED kcm
  \/ KcmStep /\ UNCHANGED daemon
  \/ Called
  \/ Launched

Spec == Init /\ [][Next]_vars

-----------------------------------------------------------------------------
\* When nothing is under way any more the daemon has exactly the plans of kuprc, in
\* their groups, also when it was started or reloaded in the middle of save() or
\* had to wait for a backup (kupdaemon.cpp:81-99, kupkcm.cpp:180-185).
DaemonInStep ==
  running /\ ~waiting /\ window \in {"closed", "open"} =>
    /\ Len(executors) = kuprc.count
    /\ \A n \in DOMAIN executors :
         executors[n].number = n /\ executors[n].plan = PlanAt(kuprc, n)

(***************************************************************************)
(* The event loop runs queued calls, and backups, checks and repairs end.  *)
(* The latter is what BusyHasCause shows of the executors, as long as the  *)
(* programs they wait for end and a drive they wait for is mounted.        *)
(***************************************************************************)
Ends(i) ==
  /\ i \in DOMAIN executors
  /\ TestEnds(i) \/ BackupFails(i) \/ \E made \in BOOLEAN : BackupEnds(i, made)

FairSpec ==
  /\ Spec
  /\ WF_vars(QueuedCall /\ UNCHANGED kcm)
  /\ \A i \in Numbers : WF_vars(Ends(i) /\ UNCHANGED kcm)

StartsNothing(i) ==
  i \in DOMAIN executors' =>
    /\ executors'[i].backups <= executors[i].backups
    /\ busy(executors'[i]) => executors'[i].phase = executors[i].phase

\* A reload that had to wait is carried out, if only the executors stop starting
\* one backup or check after the other (kupdaemon.cpp:82-87, 155-158).
ReloadIsServed ==
  <>[][\A i \in DOMAIN executors : StartsNothing(i)]_vars => (waiting ~> ~waiting)

-----------------------------------------------------------------------------
\* backupplan.h:70: mAccumulatedUsageTime is "how long has Kup been running since
\* last backup", of the plan whose group it is in, as the other status items: so it is
\* at least while nothing is being saved or waited for.
StatusIsOwn ==
  window \in {"closed", "open"} /\ ~waiting =>
    \A n \in 1 .. kuprc.count : StatusAt(kuprc, n) \in {NoPlan, PlanAt(kuprc, n)}
=============================================================================
