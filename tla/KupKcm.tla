------------------------------- MODULE KupKcm -------------------------------
(***************************************************************************)
(* The system settings module: class KupKcm (kcm/kupkcm.cpp), a window in  *)
(* which the user adds and removes plans and saves them.  save() goes      *)
(* through the plans in order, gives those behind a removed plan a new     *)
(* number and writes kuprc once for each, while the daemon may write it    *)
(* too; a step of it ends where the file is written.                       *)
(***************************************************************************)
EXTENDS Kuprc, Sequences

CONSTANT
  DiscardsOnlyLast   \* of the plans not saved yet the user removes the last one only

ASSUME KcmAssumption == DiscardsOnlyLast \in BOOLEAN

VARIABLES
  window,    \* "closed", "open", or in save(): "saving" plans, "enabling", "calling"
  plans,     \* mPlans with mConfigManagers
  count,     \* mSettings->mNumberOfPlans of the window
  enables,   \* the check box "Backups Enabled"
  saved,     \* save(): how many plans it has dealt with
  renumbers, \* save(): lPlansRemoved # 0
  removed    \* save(): groups removed that the file still has

kcm == <<window, plans, count, enables, saved, renumbers, removed>>

\* An entry without widgets is one the user has removed but the file still has.
Entry == [number : Numbers, plan : Settings, widgets : BOOLEAN]

KcmType ==
  /\ window \in {"closed", "open", "saving", "enabling", "calling"}
  /\ plans \in Seq(Entry) /\ Len(plans) <= MaxNumber
  /\ count \in 0 .. MaxNumber
  /\ enables \in BOOLEAN
  /\ saved \in 0 .. MaxNumber
  /\ renumbers \in BOOLEAN
  /\ removed \in SUBSET Numbers

\* takeAt() of the lists.
WithoutEntry(i) ==
  [j \in 1 .. Len(plans) - 1 |-> IF j < i THEN plans[j] ELSE plans[j + 1]]

InUse(plan) == \E i \in DOMAIN plans : plans[i].plan = plan

-----------------------------------------------------------------------------
(***************************************************************************)
(* The window.                                                             *)
(***************************************************************************)
idle == <<saved, renumbers, removed>>

Open ==
  /\ window = "closed"
  /\ window' = "open"
  /\ plans' = [n \in 1 .. kuprc.count |->
                 [number |-> n, plan |-> PlanAt(kuprc, n), widgets |-> TRUE]]
  /\ count' = kuprc.count
  /\ enables' = kuprc.enabled
  /\ UNCHANGED <<idle, kuprc>>

Close ==
  /\ window = "open"
  /\ window' = "closed"
  /\ plans' = <<>>
  /\ count' = 0
  /\ enables' = FALSE
  /\ UNCHANGED <<idle, kuprc>>

\* The new plan is given its number and configured by the user.
AddPlan(plan) ==
  /\ window = "open" /\ enables
  /\ Len(plans) < MaxNumber
  /\ ~InUse(plan)
  /\ plans' = Append(plans, [number |-> Len(plans) + 1, plan |-> plan, widgets |-> TRUE])
  /\ UNCHANGED <<window, count, enables, idle, kuprc>>

PartiallyRemovePlan(i) ==
  /\ i <= count /\ plans[i].widgets
  /\ plans' = [plans EXCEPT ![i].widgets = FALSE]

CompletelyRemovePlan(i) ==
  /\ i > count
  /\ DiscardsOnlyLast => i = Len(plans)
  /\ plans' = WithoutEntry(i)

RemovePlan(i) ==
  /\ window = "open" /\ enables
  /\ PartiallyRemovePlan(i) \/ CompletelyRemovePlan(i)
  /\ UNCHANGED <<window, count, enables, idle, kuprc>>

Enable ==
  /\ window = "open"
  /\ enables' = ~enables
  /\ UNCHANGED <<window, plans, count, idle, kuprc>>

\* load(), when the user presses "Reset": removed plans are shown again, and new
\* ones are dropped.
Load ==
  /\ window = "open"
  /\ plans' = [i \in 1 .. count |-> [plans[i] EXCEPT !.widgets = TRUE]]
  /\ enables' = kuprc.enabled
  /\ UNCHANGED <<window, count, idle, kuprc>>

-----------------------------------------------------------------------------
(***************************************************************************)
(* save().                                                                 *)
(***************************************************************************)
Save ==
  /\ window = "open"
  /\ window' = "saving"
  /\ saved' = 0
  /\ renumbers' = FALSE
  /\ removed' = {}
  /\ UNCHANGED <<plans, count, enables, kuprc>>

\* A removed plan is dropped from the lists and, with the next write, from the file.
SaveRemoved ==
  /\ window = "saving" /\ saved < Len(plans)
  /\ ~plans[saved + 1].widgets
  /\ removed' = removed \cup {plans[saved + 1].number}
  /\ plans' = WithoutEntry(saved + 1)
  /\ renumbers' = TRUE
  /\ UNCHANGED <<window, count, enables, saved, kuprc>>

\* A plan before the first removed one keeps its group, and its status there.  One
\* that has been saved before is written only if its widgets have been touched.
SaveInPlace ==
  /\ window = "saving" /\ saved < Len(plans)
  /\ plans[saved + 1].widgets /\ ~renumbers
  /\ \/ kuprc' = SaveSettings(kuprc, plans[saved + 1].number, plans[saved + 1].plan)
     \/ saved < count /\ UNCHANGED kuprc
  /\ saved' = saved + 1
  /\ UNCHANGED <<window, plans, count, enables, renumbers, removed>>

\* Mutants: the plan keeps its old number in the window; its old group stays.
SaveRenumberedInFile ==
  /\ window = "saving" /\ saved < Len(plans)
  /\ plans[saved + 1].widgets /\ renumbers
  /\ kuprc' = SaveAsDefault(RemoveGroups(kuprc, removed \cup {plans[saved + 1].number}),
                            saved + 1, plans[saved + 1].plan)
  /\ removed' = {}
  /\ saved' = saved + 1
  /\ UNCHANGED <<window, plans, count, enables, renumbers>>

SaveRenumberedTwice ==
  /\ window = "saving" /\ saved < Len(plans)
  /\ plans[saved + 1].widgets /\ renumbers
  /\ plans' = [plans EXCEPT ![saved + 1].number = saved + 1]
  /\ kuprc' = SaveAsDefault(RemoveGroups(kuprc, removed), saved + 1, plans[saved + 1].plan)
  /\ removed' = {}
  /\ saved' = saved + 1
  /\ UNCHANGED <<window, count, enables, renumbers>>

\* removePlanFromConfig(), setPlanNumber(), setDefaults(): the old group goes, the
\* settings are written to the new one, and the status stays behind.
SaveRenumbered ==
  /\ window = "saving" /\ saved < Len(plans)
  /\ plans[saved + 1].widgets /\ renumbers
  /\ plans' = [plans EXCEPT ![saved + 1].number = saved + 1]
  /\ kuprc' = SaveAsDefault(RemoveGroups(kuprc, removed \cup {plans[saved + 1].number}),
                            saved + 1, plans[saved + 1].plan)
  /\ removed' = {}
  /\ saved' = saved + 1
  /\ UNCHANGED <<window, count, enables, renumbers>>

\* The number of plans, and with the same write the last of the groups removed.
SaveSummary ==
  /\ window = "saving" /\ saved = Len(plans)
  /\ count' = Len(plans)
  /\ kuprc' = [RemoveGroups(kuprc, removed) EXCEPT !.count = Len(plans)]
  /\ removed' = {}
  /\ window' = "enabling"
  /\ saved' = 0
  /\ renumbers' = FALSE
  /\ UNCHANGED <<plans, enables>>

\* KCModule::save() writes the check box; then the daemon is called or started.
SaveEnabled ==
  /\ window = "enabling"
  /\ kuprc' = [kuprc EXCEPT !.enabled = enables]
  /\ window' = "calling"
  /\ UNCHANGED <<plans, count, enables, idle>>

KcmStep ==
  \/ Open \/ Close \/ Enable \/ Load \/ Save
  \/ \E plan \in Plans : AddPlan(plan)
  \/ \E i \in DOMAIN plans : RemovePlan(i)
  \/ SaveRemoved \/ SaveInPlace \/ SaveRenumbered \/ SaveSummary \/ SaveEnabled

-----------------------------------------------------------------------------
\* backupplan.cpp:35: the number of a plan is "the number of the plan in order":
\* outside of save() the plan in the i-th place has the i-th group.
NumberIsOrder ==
  window # "saving" => \A i \in DOMAIN plans : plans[i].number = i

\* When save() has come to its end, kuprc holds the plans the user sees, in their
\* order, each once, and nothing of those removed (kupkcm.cpp:137-178).
SavedAsShown ==
  window = "calling" =>
    \A n \in Numbers :
       PlanAt(kuprc, n) = IF n \in DOMAIN plans THEN plans[n].plan ELSE NoPlan
=============================================================================
