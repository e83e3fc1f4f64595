------------------------------- MODULE Kuprc -------------------------------
(***************************************************************************)
(* The configuration file kuprc: classes BackupPlan and KupSettings        *)
(* (settings/).  It is shared by the daemon, which writes the status of    *)
(* its plans, and the settings module, which writes everything else.  A    *)
(* plan is stored in the group of its number, so numbers mean something    *)
(* only as long as both programs agree on them.                            *)
(***************************************************************************)
EXTENDS Naturals, FiniteSets

CONSTANTS
  Plans,      \* plans a user may configure
  NoPlan,     \* the default settings, those of a group that is not there
  MaxNumber,  \* bound: the largest number of a plan
  KeepStatus  \* bound: status items are told apart, or all left empty

ASSUME KuprcAssumption ==
  /\ NoPlan \notin Plans
  /\ MaxNumber \in Nat \ {0}
  /\ KeepStatus \in BOOLEAN

Numbers  == 1 .. MaxNumber
Settings == Plans \cup {NoPlan}

\* A group is known by the plan whose settings it has and the plan whose backups
\* and usage time its status items tell of.
Group == [settings : Settings, status : Settings]

EmptyGroup == [settings |-> NoPlan, status |-> NoPlan]

VARIABLE kuprc   \* [groups, mBackupsEnabled, mNumberOfPlans]

KuprcType ==
  kuprc \in [groups : [Numbers -> Group], enabled : BOOLEAN, count : 0 .. MaxNumber]

\* What the file stores, seen as the list of the plans in use.
PlanAt(file, n)   == file.groups[n].settings
StatusAt(file, n) == file.groups[n].status

\* BackupPlan::save() writes the items that have changed since load(): for the
\* daemon these are the status items, the only ones it assigns to.
SaveStatus(file, n, plan) ==
  [file EXCEPT !.groups[n].status = IF KeepStatus THEN plan ELSE @]

\* The settings module writes the settings and, when setDefaults() has been called
\* for the new group, the default status.
SaveSettings(file, n, plan)    == [file EXCEPT !.groups[n].settings = plan]
SaveAsDefault(file, n, plan)   == [file EXCEPT !.groups[n] = [EmptyGroup EXCEPT !.settings = plan]]

\* removePlanFromConfig() of several plans.
RemoveGroups(file, numbers) ==
  [file EXCEPT !.groups = [n \in Numbers |-> IF n \in numbers THEN EmptyGroup ELSE @[n]]]
=============================================================================
