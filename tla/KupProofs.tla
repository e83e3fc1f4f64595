----------------------------- MODULE KupProofs -----------------------------
(***************************************************************************)
(* The daemon and the settings module, for every number of plans.  The     *)
(* daemon side: no deferred request is forgotten, and the daemon is in     *)
(* step with kuprc when nothing is under way.  The settings side: what is  *)
(* saved is what is shown.  Each rests on one fact about the other: the    *)
(* daemon writes no settings, and the settings module changes kuprc only   *)
(* within save().  That the executors do what the daemon lets them do is   *)
(* proved of each kind in its own module; ChangesAreSteps is the daemon's  *)
(* half of it.                                                             *)
(***************************************************************************)
EXTENDS Kup, SequenceTheorems, TLAPS

\* A sequence made by a comprehension.
LEMMA SequenceOf ==
  ASSUME NEW S, NEW n \in Nat, NEW f \in [1 .. n -> S]
  PROVE  f \in Seq(S) /\ Len(f) = n /\ DOMAIN f = 1 .. n
<1>1. f \in Seq(S)
  BY SeqDef
<1>2. DOMAIN f = 1 .. Len(f) /\ Len(f) \in Nat
  BY <1>1, LenProperties
<1>3. DOMAIN f = 1 .. n
  OBVIOUS
<1> QED
  BY <1>1, <1>2, <1>3

-----------------------------------------------------------------------------
(***************************************************************************)
(* Types.                                                                  *)
(***************************************************************************)

\* What the daemon writes changes no settings.
LEMMA StatusSaved ==
  ASSUME KuprcType, NEW n \in Numbers, NEW p \in Settings,
         kuprc' = SaveStatus(kuprc, n, p)
  PROVE  /\ KuprcType'
         /\ kuprc'.count = kuprc.count /\ kuprc'.enabled = kuprc.enabled
         /\ \A m \in Numbers : PlanAt(kuprc', m) = PlanAt(kuprc, m)
<1> DEFINE g == [kuprc.groups[n] EXCEPT !.status = IF KeepStatus THEN p ELSE @]
<1>1. kuprc.groups[n] \in Group
  BY DEF KuprcType
<1>2. g \in Group /\ g.settings = kuprc.groups[n].settings
  BY <1>1 DEF Group, Settings
<1>3. kuprc' = [kuprc EXCEPT !.groups = [kuprc.groups EXCEPT ![n] = g]]
  BY DEF SaveStatus, KuprcType
<1> HIDE DEF g
<1> QED
  BY <1>2, <1>3 DEF KuprcType, PlanAt

LEMMA NewViewTyped ==
  ASSUME NEW view \in NewViews
  PROVE  view.phase \in Phases /\ view.backups \in {0, 1}
BY DEF NewViews, Phases

LEMMA LoadedExecutor ==
  ASSUME KuprcType, KuprcAssumption, DaemonAssumption,
         NEW n \in 1 .. kuprc.count, NEW view \in NewViews
  PROVE  /\ Loaded(kuprc, n, view) \in Executor
         /\ Loaded(kuprc, n, view).number = n
         /\ Loaded(kuprc, n, view).plan = PlanAt(kuprc, n)
<1>1. n \in Numbers
  BY DEF KuprcType, Numbers, KuprcAssumption
<1>2. PlanAt(kuprc, n) \in Settings
  BY <1>1 DEF KuprcType, PlanAt, Group
<1>3. view.phase \in Phases /\ view.backups \in 0 .. MaxBackups
  BY NewViewTyped DEF DaemonAssumption
<1> QED
  BY <1>1, <1>2, <1>3 DEF Loaded, Executor

InStepWith(execs, file) ==
  /\ Len(execs) = file.count
  /\ \A n \in DOMAIN execs : execs[n].number = n /\ execs[n].plan = PlanAt(file, n)

LEMMA ExecutorsSetUp ==
  ASSUME KuprcType, KuprcAssumption, DaemonAssumption, SetupExecutors
  PROVE  /\ executors' \in Seq(Executor) /\ Len(executors') <= MaxNumber
         /\ InStepWith(executors', kuprc)
<1> DEFINE N == kuprc.count
<1>1. N \in Nat /\ N <= MaxNumber
  BY DEF KuprcType, KuprcAssumption
<1>2. PICK views \in [1 .. N -> NewViews] :
        executors' = [n \in 1 .. N |-> Loaded(kuprc, n, views[n])]
  BY DEF SetupExecutors
<1>3. ASSUME NEW n \in 1 .. N
      PROVE  /\ Loaded(kuprc, n, views[n]) \in Executor
             /\ Loaded(kuprc, n, views[n]).number = n
             /\ Loaded(kuprc, n, views[n]).plan = PlanAt(kuprc, n)
  BY LoadedExecutor
<1> HIDE DEF N
<1>4. executors' \in [1 .. N -> Executor]
  BY <1>2, <1>3
<1>5. executors' \in Seq(Executor) /\ Len(executors') = N /\ DOMAIN executors' = 1 .. N
  BY <1>1, <1>4, SequenceOf
<1>6. \A n \in 1 .. N : executors'[n] = Loaded(kuprc, n, views[n])
  BY <1>2
<1> QED
  BY <1>1, <1>3, <1>5, <1>6 DEF InStepWith, N

LEMMA ExecutorTyped ==
  ASSUME DaemonType, NEW i \in DOMAIN executors
  PROVE  /\ executors[i] \in Executor /\ i \in 1 .. Len(executors)
         /\ executors[i].number \in Numbers /\ executors[i].plan \in Settings
<1>1. i \in 1 .. Len(executors)
  BY LenProperties DEF DaemonType
<1>2. executors[i] \in Executor
  BY <1>1, ElementOfSeq DEF DaemonType
<1> QED
  BY <1>1, <1>2 DEF Executor

\* An executor changes to e and says so, or keeps its phase and says nothing.
Turns(i, e) ==
  \/ Becomes(i, e)
  \/ /\ executors' = [executors EXCEPT ![i] = e] /\ e.phase = executors[i].phase
     /\ UNCHANGED <<running, waiting, calls>>

\* One executor changes and stays what it was loaded as.
LEMMA OneExecutorTurns ==
  ASSUME DaemonType, DaemonAssumption, NEW i \in DOMAIN executors, NEW e \in Executor,
         e.plan = executors[i].plan, e.number = executors[i].number,
         Turns(i, e)
  PROVE  /\ DaemonType'
         /\ running' = running /\ waiting' = waiting
         /\ Len(executors') = Len(executors) /\ DOMAIN executors' = DOMAIN executors
         /\ \A n \in DOMAIN executors : /\ executors'[n].plan = executors[n].plan
                                        /\ executors'[n].number = executors[n].number
         /\ RequestIsRemembered => RequestIsRemembered'
<1>1. i \in 1 .. Len(executors) /\ executors \in Seq(Executor)
  BY ExecutorTyped DEF DaemonType
<1>2. executors' = [executors EXCEPT ![i] = e]
  BY DEF Turns, Becomes
<1>3. /\ executors' \in Seq(Executor) /\ Len(executors') = Len(executors)
      /\ \A j \in 1 .. Len(executors) : executors'[j] = IF j = i THEN e ELSE executors[j]
  BY <1>1, <1>2, ExceptSeq
<1>4. DOMAIN executors = 1 .. Len(executors) /\ DOMAIN executors' = 1 .. Len(executors')
  BY <1>1, <1>3, LenProperties
<1>5. running' = running /\ waiting' = waiting
  BY DEF Turns, Becomes
<1>6. CASE Becomes(i, e)
  <2>1. PICK times \in 1 .. 3 : UpdateTrayIcon(times)
    BY <1>6 DEF Becomes
  <2>2. calls' \in 0 .. MaxCalls /\ (waiting => calls' > 0)
    BY <2>1 DEF UpdateTrayIcon, DaemonType, DaemonAssumption
  <2> QED
    BY <1>3, <1>4, <1>5, <2>2 DEF DaemonType, RequestIsRemembered
<1>7. CASE e.phase = executors[i].phase /\ calls' = calls
  <2>1. \A j \in DOMAIN executors : executors'[j].phase = executors[j].phase
    BY <1>3, <1>4, <1>7
  <2>2. NoneBusy' => NoneBusy
    BY <1>3, <1>4, <2>1 DEF NoneBusy, busy
  <2> QED
    BY <1>3, <1>4, <1>5, <1>7, <2>2 DEF DaemonType, RequestIsRemembered
<1> QED
  BY <1>6, <1>7 DEF Turns

\* What a change of ExecutorPhases makes of an executor, within the bound.
LEMMA ChangedExecutor ==
  ASSUME DaemonAssumption, NEW x \in Executor, NEW e \in Changes(x), e.backups <= MaxBackups
  PROVE  e \in Executor /\ e.plan = x.plan /\ e.number = x.number
<1> DEFINE Goal == e \in Executor /\ e.plan = x.plan /\ e.number = x.number
<1>1. ASSUME NEW phase \in Phases, e = InPhase(x, phase)
      PROVE  Goal
  BY <1>1 DEF InPhase, Executor
<1>2. ASSUME NEW phase \in Phases, NEW n \in Nat, n <= MaxBackups,
             e = [x EXCEPT !.phase = phase, !.backups = n]
      PROVE  Goal
  <2>1. n \in 0 .. MaxBackups
    BY <1>2 DEF DaemonAssumption
  <2>2. e \in Executor
    BY <1>2, <2>1 DEF Executor
  <2>3. e.plan = x.plan /\ e.number = x.number
    BY <1>2 DEF Executor
  <2> QED
    BY <2>2, <2>3
<1>3. x.backups \in Nat /\ x.phase \in Phases
  BY DEF Executor
<1>4. CASE e \in AfterAppearing(x) \cup AfterLeaving(x) \cup AfterGivingUp(x)
                   \cup AfterTestStart(x) \cup AfterTest(x)
  BY <1>1, <1>4 DEF AfterAppearing, AfterLeaving, AfterGivingUp, AfterTestStart, AfterTest,
     Phases
<1>5. CASE e \in AfterStart(x)
  <2>1. PICK k \in {0, 1} : e = [x EXCEPT !.phase = "backup", !.backups = x.backups + k]
    BY <1>5 DEF AfterStart
  <2> DEFINE n == x.backups + k
  <2>2. n \in Nat /\ e = [x EXCEPT !.phase = "backup", !.backups = n]
    BY <1>3, <2>1
  <2> HIDE DEF n
  <2>3. e.backups = n
    BY <2>2 DEF Executor
  <2> QED
    BY <1>2, <2>2, <2>3 DEF Phases
<1>6. CASE e \in AfterMount(x)
  <2> DEFINE n == x.backups + 1
  <2>1. n \in Nat /\ e = [x EXCEPT !.backups = n]
    BY <1>3, <1>6 DEF AfterMount
  <2> HIDE DEF n
  <2>2. e.backups = n
    BY <2>1 DEF Executor
  <2> QED
    BY <2>1, <2>2 DEF Executor, DaemonAssumption
<1>7. CASE e \in AfterBackup(x)
  <2> DEFINE n == x.backups - 1
  <2>1. n \in Nat /\ e = [x EXCEPT !.phase = "idle", !.backups = n]
    BY <1>3, <1>7 DEF AfterBackup
  <2> HIDE DEF n
  <2>2. e.backups = n
    BY <2>1 DEF Executor
  <2> QED
    BY <1>2, <2>1, <2>2 DEF Phases
<1> QED
  BY <1>4, <1>5, <1>6, <1>7 DEF Changes

\* Every step of an executor is such a change, and writes at most its status.
LEMMA ExecutorSteps ==
  ASSUME KuprcType, DaemonType, DaemonAssumption,
         NEW i \in DOMAIN executors, ExecutorStep(i)
  PROVE  /\ \E e \in Executor : /\ e.plan = executors[i].plan
                                /\ e.number = executors[i].number
                                /\ Turns(i, e)
         /\ \/ kuprc' = kuprc
            \/ kuprc' = SaveStatus(kuprc, executors[i].number, executors[i].plan)
<1> DEFINE x == executors[i]
           Goal == \E e \in Executor : /\ e.plan = x.plan /\ e.number = x.number
                                       /\ Turns(i, e)
           Saves == kuprc' = kuprc \/ kuprc' = SaveStatus(kuprc, x.number, x.plan)
<1>1. x \in Executor /\ x.backups \in 0 .. MaxBackups /\ MaxBackups \in Nat
  BY ExecutorTyped DEF Executor, DaemonAssumption
<1>2. ASSUME NEW e \in Changes(x), e.backups <= MaxBackups, Turns(i, e)
      PROVE  Goal
  BY <1>1, <1>2, ChangedExecutor
<1>3. ASSUME NEW e \in AfterAppearing(x) \cup AfterLeaving(x) \cup AfterGivingUp(x)
                          \cup AfterTestStart(x) \cup AfterTest(x)
      PROVE  e \in Changes(x) /\ e.backups <= MaxBackups
  <2>1. e \in Changes(x)
    BY DEF Changes
  <2>2. e.backups = x.backups
    BY <1>1 DEF AfterAppearing, AfterLeaving, AfterGivingUp, AfterTestStart, AfterTest,
       InPhase, Executor
  <2> QED
    BY <1>1, <2>1, <2>2
<1>4. ASSUME NEW e \in AfterBackup(x)
      PROVE  e \in Changes(x) /\ e.backups <= MaxBackups
  <2>1. e \in Changes(x)
    BY DEF Changes
  <2>2. e.backups = x.backups - 1
    BY <1>1 DEF AfterBackup, Executor
  <2> QED
    BY <1>1, <2>1, <2>2
<1>5. ASSUME NEW e, Becomes(i, e)
      PROVE  Turns(i, e)
  BY <1>5 DEF Turns
<1>6. CASE DestinationAppears(i) \/ DestinationLeaves(i)
  BY <1>2, <1>3, <1>5, <1>6 DEF DestinationAppears, DestinationLeaves
<1>7. CASE BackupStarts(i)
  BY <1>2, <1>5, <1>7 DEF BackupStarts, Changes
<1>8. CASE DriveMounted(i)
  <2>1. PICK e \in AfterMount(x) : /\ e.backups <= MaxBackups
                                   /\ executors' = [executors EXCEPT ![i] = e]
    BY <1>8 DEF DriveMounted
  <2>2. e.phase = x.phase
    BY <1>1, <2>1 DEF AfterMount, Executor
  <2>3. Turns(i, e) /\ Saves
    BY <1>8, <2>1, <2>2 DEF DriveMounted, Turns
  <2>4. e \in Changes(x)
    BY <2>1 DEF Changes
  <2> QED
    BY <1>2, <2>1, <2>3, <2>4
<1>9. CASE BackupFails(i)
  BY <1>2, <1>3, <1>5, <1>9 DEF BackupFails
<1>10. CASE \E made \in BOOLEAN : BackupEnds(i, made)
  BY <1>2, <1>4, <1>5, <1>10 DEF BackupEnds
<1>11. CASE TestStarts(i) \/ TestEnds(i)
  BY <1>2, <1>3, <1>5, <1>11 DEF TestStarts, TestEnds
<1>12. CASE TestEndsLate(i) \/ AccumulateUsageTime(i)
  BY <1>1, <1>5, <1>12 DEF TestEndsLate, AccumulateUsageTime
<1> QED
  BY <1>6, <1>7, <1>8, <1>9, <1>10, <1>11, <1>12 DEF ExecutorStep

\* Conversely each change of ExecutorPhases, within the bound, is a step of the daemon's:
\* what EDExecutor and FSExecutor are shown to do is allowed here.
LEMMA ChangesAreSteps ==
  ASSUME NEW i \in DOMAIN executors, NEW e \in Changes(executors[i]), e.backups <= MaxBackups,
         kuprc' = kuprc,
         \/ Becomes(i, e) /\ e \notin AfterMount(executors[i])
         \/ /\ e \in AfterMount(executors[i])
            /\ executors' = [executors EXCEPT ![i] = e]
            /\ UNCHANGED <<running, waiting, calls>>
  PROVE  ExecutorStep(i)
<1>1. CASE e \in AfterMount(executors[i])
  BY <1>1 DEF ExecutorStep, DriveMounted
<1>2. CASE e \notin AfterMount(executors[i])
  <2>1. CASE e \in AfterAppearing(executors[i]) \cup AfterLeaving(executors[i])
    BY <1>2, <2>1 DEF ExecutorStep, DestinationAppears, DestinationLeaves
  <2>2. CASE e \in AfterStart(executors[i]) \cup AfterGivingUp(executors[i])
    BY <1>2, <2>2 DEF ExecutorStep, BackupStarts, BackupFails
  <2>3. CASE e \in AfterBackup(executors[i])
    BY <1>2, <2>3 DEF ExecutorStep, BackupEnds
  <2>4. CASE e \in AfterTestStart(executors[i]) \cup AfterTest(executors[i])
    BY <1>2, <2>4 DEF ExecutorStep, TestStarts, TestEnds
  <2> QED
    BY <1>2, <2>1, <2>2, <2>3, <2>4 DEF Changes
<1> QED
  BY <1>1, <1>2

\* reloadConfig() either remembers the request or has made the executors anew.
LEMMA Reloaded ==
  ASSUME KuprcType, DaemonType, KuprcAssumption, DaemonAssumption, ReloadConfig
  PROVE  /\ running' \in BOOLEAN /\ waiting' \in BOOLEAN
         /\ executors' \in Seq(Executor) /\ Len(executors') <= MaxNumber
         /\ \/ waiting' /\ ~NoneBusy /\ executors' = executors
            \/ ~waiting' /\ ~running'
            \/ ~waiting' /\ InStepWith(executors', kuprc)
<1>1. CASE ~NoneBusy
  BY <1>1 DEF ReloadConfig, DaemonType
<1>2. CASE NoneBusy /\ kuprc.enabled
  BY <1>2, ExecutorsSetUp DEF ReloadConfig, KuprcType
<1>3. CASE NoneBusy /\ ~kuprc.enabled
  <2>1. executors' = <<>> /\ ~waiting' /\ running' = kuprc.enabled /\ waiting' \in BOOLEAN
    BY <1>3 DEF ReloadConfig
  <2>2. <<>> \in Seq(Executor) /\ Len(<<>>) = 0
    BY EmptySeq
  <2> QED
    BY <1>3, <2>1, <2>2 DEF KuprcType, KuprcAssumption
<1> QED
  BY <1>1, <1>2, <1>3

\* The daemon has the plans of the file unless it has been told to wait.
DaemonFollows == running /\ ~waiting => InStepWith(executors, kuprc)

LEMMA DaemonStepKeeps ==
  ASSUME KuprcType, DaemonType, KuprcAssumption, DaemonAssumption,
         RequestIsRemembered, DaemonStep
  PROVE  /\ KuprcType' /\ DaemonType' /\ RequestIsRemembered'
         /\ DaemonFollows => DaemonFollows'
         /\ kuprc'.count = kuprc.count
         /\ \A n \in Numbers : PlanAt(kuprc', n) = PlanAt(kuprc, n)
<1>1. CASE QueuedCall
  <2>1. ReloadConfig /\ kuprc' = kuprc /\ calls' \in 0 .. MaxCalls
    BY <1>1 DEF QueuedCall, DaemonType, DaemonAssumption
  <2> QED
    BY <2>1, Reloaded DEF KuprcType, DaemonType, RequestIsRemembered, NoneBusy, DaemonFollows
<1>2. CASE Start
  <2>1. SetupExecutors /\ kuprc' = kuprc /\ calls' = 0 /\ running' = TRUE /\ waiting' = FALSE
    BY <1>2 DEF Start
  <2>2. executors' \in Seq(Executor) /\ Len(executors') <= MaxNumber /\ InStepWith(executors', kuprc)
    BY <2>1, ExecutorsSetUp
  <2>3. KuprcType'
    BY <2>1 DEF KuprcType
  <2>4. DaemonType'
    <3>1. running' \in BOOLEAN /\ waiting' \in BOOLEAN
      BY <2>1
    <3>2. calls' \in 0 .. MaxCalls /\ Len(executors') <= MaxNumber
      BY <2>1, <2>2 DEF DaemonAssumption
    <3> QED
      BY <2>2, <3>1, <3>2 DEF DaemonType
  <2>5. RequestIsRemembered' /\ DaemonFollows'
    BY <2>1, <2>2 DEF RequestIsRemembered, DaemonFollows
  <2>6. kuprc'.count = kuprc.count /\ \A n \in Numbers : PlanAt(kuprc', n) = PlanAt(kuprc, n)
    BY <2>1
  <2> QED
    BY <2>3, <2>4, <2>5, <2>6
<1>3. CASE Crash
  <2>1. kuprc' = kuprc /\ calls' = 0 /\ running' = FALSE /\ waiting' = FALSE /\ executors' = <<>>
    BY <1>3 DEF Crash
  <2>2. executors' \in Seq(Executor) /\ Len(executors') = 0
    BY <2>1, EmptySeq
  <2>3. KuprcType'
    BY <2>1 DEF KuprcType
  <2>4. DaemonType'
    <3>1. running' \in BOOLEAN /\ waiting' \in BOOLEAN
      BY <2>1
    <3>2. calls' \in 0 .. MaxCalls /\ Len(executors') <= MaxNumber
      BY <2>1, <2>2 DEF DaemonAssumption, KuprcAssumption
    <3> QED
      BY <2>2, <3>1, <3>2 DEF DaemonType
  <2>5. RequestIsRemembered' /\ DaemonFollows'
    BY <2>1 DEF RequestIsRemembered, DaemonFollows
  <2>6. kuprc'.count = kuprc.count /\ \A n \in Numbers : PlanAt(kuprc', n) = PlanAt(kuprc, n)
    BY <2>1
  <2> QED
    BY <2>3, <2>4, <2>5, <2>6
<1>4. ASSUME NEW i \in DOMAIN executors, ExecutorStep(i)
      PROVE  /\ KuprcType' /\ DaemonType' /\ RequestIsRemembered'
             /\ DaemonFollows => DaemonFollows'
             /\ kuprc'.count = kuprc.count
             /\ \A n \in Numbers : PlanAt(kuprc', n) = PlanAt(kuprc, n)
  <2>1. /\ executors[i].number \in Numbers /\ executors[i].plan \in Settings
        /\ \A n \in DOMAIN executors : n \in 1 .. Len(executors)
    BY ExecutorTyped
  <2>2. /\ KuprcType' /\ kuprc'.count = kuprc.count
        /\ \A n \in Numbers : PlanAt(kuprc', n) = PlanAt(kuprc, n)
    <3>1. CASE kuprc' = kuprc
      BY <3>1 DEF KuprcType
    <3>2. CASE kuprc' = SaveStatus(kuprc, executors[i].number, executors[i].plan)
      BY <2>1, <3>2, StatusSaved
    <3> QED
      BY <1>4, <3>1, <3>2, ExecutorSteps
  <2>3. PICK e \in Executor : /\ e.plan = executors[i].plan
                             /\ e.number = executors[i].number
                             /\ Turns(i, e)
    BY <1>4, ExecutorSteps
  <2>4. /\ DaemonType'
        /\ running' = running /\ waiting' = waiting
        /\ Len(executors') = Len(executors) /\ DOMAIN executors' = DOMAIN executors
        /\ \A n \in DOMAIN executors : /\ executors'[n].plan = executors[n].plan
                                       /\ executors'[n].number = executors[n].number
        /\ RequestIsRemembered => RequestIsRemembered'
    BY <2>3, OneExecutorTurns
  <2>5. RequestIsRemembered'
    BY <2>4
  <2>6. ASSUME DaemonFollows PROVE DaemonFollows'
    <3>1. \A n \in DOMAIN executors : n \in Numbers
      BY <2>1, LenProperties DEF DaemonType, Numbers, KuprcAssumption
    <3> QED
      BY <2>2, <2>4, <2>6, <3>1 DEF DaemonFollows, InStepWith
  <2> QED
    BY <2>2, <2>4, <2>5, <2>6
<1> QED
  BY <1>1, <1>2, <1>3, <1>4 DEF DaemonStep

-----------------------------------------------------------------------------
(***************************************************************************)
(* The settings module.                                                    *)
(***************************************************************************)
LEMMA PlansTyped ==
  ASSUME KcmType
  PROVE  /\ Len(plans) \in Nat /\ DOMAIN plans = 1 .. Len(plans)
         /\ \A i \in 1 .. Len(plans) : /\ plans[i] \in Entry
                                      /\ plans[i].number \in Numbers
                                      /\ plans[i].plan \in Settings
<1>1. plans \in Seq(Entry)
  BY DEF KcmType
<1>2. Len(plans) \in Nat /\ DOMAIN plans = 1 .. Len(plans)
  BY <1>1, LenProperties
<1>3. \A i \in 1 .. Len(plans) : plans[i] \in Entry
  BY <1>1, ElementOfSeq
<1> QED
  BY <1>2, <1>3 DEF Entry

LEMMA EntryTakenOut ==
  ASSUME KcmType, NEW i \in 1 .. Len(plans), plans' = WithoutEntry(i)
  PROVE  /\ plans' \in Seq(Entry) /\ Len(plans') = Len(plans) - 1
         /\ DOMAIN plans' = 1 .. Len(plans) - 1
         /\ \A j \in 1 .. Len(plans) - 1 :
              plans'[j] = IF j < i THEN plans[j] ELSE plans[j + 1]
<1>1. Len(plans) \in Nat /\ \A j \in 1 .. Len(plans) : plans[j] \in Entry
  BY PlansTyped
<1>2. Len(plans) - 1 \in Nat
  BY <1>1
<1>3. plans' = [j \in 1 .. Len(plans) - 1 |-> IF j < i THEN plans[j] ELSE plans[j + 1]]
  BY DEF WithoutEntry
<1>4. \A j \in 1 .. Len(plans) - 1 : (IF j < i THEN plans[j] ELSE plans[j + 1]) \in Entry
  BY <1>1
<1>5. plans' \in [1 .. Len(plans) - 1 -> Entry]
  BY <1>3, <1>4
<1>6. plans' \in Seq(Entry) /\ Len(plans') = Len(plans) - 1
      /\ DOMAIN plans' = 1 .. Len(plans) - 1
  BY <1>2, <1>5, SequenceOf
<1> QED
  BY <1>3, <1>6

LEMMA SettingsSaved ==
  ASSUME KuprcType, NEW n \in Numbers, NEW p \in Settings,
         kuprc' = SaveSettings(kuprc, n, p)
  PROVE  /\ KuprcType' /\ kuprc'.count = kuprc.count
         /\ \A m \in Numbers : PlanAt(kuprc', m) = IF m = n THEN p ELSE PlanAt(kuprc, m)
<1> DEFINE g == [kuprc.groups[n] EXCEPT !.settings = p]
<1>1. kuprc.groups[n] \in Group
  BY DEF KuprcType
<1>2. g \in Group /\ g.settings = p
  BY <1>1 DEF Group
<1>3. kuprc' = [kuprc EXCEPT !.groups = [kuprc.groups EXCEPT ![n] = g]]
  BY DEF SaveSettings, KuprcType
<1> HIDE DEF g
<1> QED
  BY <1>2, <1>3 DEF KuprcType, PlanAt

LEMMA EmptyGroupTyped == EmptyGroup \in Group /\ EmptyGroup.settings = NoPlan
BY DEF EmptyGroup, Group, Settings

LEMMA GroupsRemoved ==
  ASSUME KuprcType, NEW S \in SUBSET Numbers
  PROVE  LET file == RemoveGroups(kuprc, S)
         IN  /\ file = [kuprc EXCEPT !.groups = file.groups]
             /\ file.groups \in [Numbers -> Group]
             /\ \A m \in Numbers : file.groups[m].settings =
                  IF m \in S THEN NoPlan ELSE PlanAt(kuprc, m)
BY EmptyGroupTyped DEF RemoveGroups, KuprcType, PlanAt

LEMMA SavedAsDefault ==
  ASSUME KuprcType, NEW S \in SUBSET Numbers, NEW n \in Numbers, NEW p \in Settings,
         kuprc' = SaveAsDefault(RemoveGroups(kuprc, S), n, p)
  PROVE  /\ KuprcType' /\ kuprc'.count = kuprc.count
         /\ \A m \in Numbers : PlanAt(kuprc', m) =
              IF m = n THEN p ELSE IF m \in S THEN NoPlan ELSE PlanAt(kuprc, m)
<1> DEFINE file == RemoveGroups(kuprc, S)
           g == [EmptyGroup EXCEPT !.settings = p]
<1>1. g \in Group /\ g.settings = p
  BY DEF EmptyGroup, Group, Settings
<1>2. /\ file = [kuprc EXCEPT !.groups = file.groups]
      /\ file.groups \in [Numbers -> Group]
      /\ \A m \in Numbers : file.groups[m].settings =
           IF m \in S THEN NoPlan ELSE PlanAt(kuprc, m)
  BY GroupsRemoved
<1> HIDE DEF file
<1>3. kuprc' = [file EXCEPT !.groups[n] = g]
  BY DEF SaveAsDefault, file
<1> HIDE DEF g
<1>4. kuprc' = [file EXCEPT !.groups = [file.groups EXCEPT ![n] = g]]
  BY <1>2, <1>3 DEF KuprcType
<1>5. kuprc'.groups = [file.groups EXCEPT ![n] = g]
  BY <1>2, <1>4 DEF KuprcType
<1>6. KuprcType' /\ kuprc'.count = kuprc.count
  BY <1>1, <1>2, <1>4 DEF KuprcType
<1> QED
  BY <1>1, <1>2, <1>5, <1>6 DEF PlanAt

LEMMA SummarySaved ==
  ASSUME KuprcType, KcmType, NEW n \in 0 .. MaxNumber,
         kuprc' = [RemoveGroups(kuprc, removed) EXCEPT !.count = n]
  PROVE  /\ KuprcType' /\ kuprc'.count = n
         /\ \A m \in Numbers : PlanAt(kuprc', m) =
              IF m \in removed THEN NoPlan ELSE PlanAt(kuprc, m)
<1> DEFINE file == RemoveGroups(kuprc, removed)
<1>1. removed \in SUBSET Numbers /\ kuprc.enabled \in BOOLEAN
  BY DEF KcmType, KuprcType
<1>2. /\ file = [kuprc EXCEPT !.groups = file.groups]
      /\ file.groups \in [Numbers -> Group]
      /\ \A m \in Numbers : file.groups[m].settings =
           IF m \in removed THEN NoPlan ELSE PlanAt(kuprc, m)
  BY <1>1, GroupsRemoved
<1> HIDE DEF file
<1>3. kuprc' = [file EXCEPT !.count = n]
  BY DEF file
<1>4. kuprc' = [kuprc EXCEPT !.groups = file.groups, !.count = n]
  BY <1>2, <1>3 DEF KuprcType
<1>5. KuprcType'
  BY <1>1, <1>2, <1>4 DEF KuprcType
<1>6. kuprc'.count = n
  BY <1>1, <1>4 DEF KuprcType
<1>7. kuprc'.groups = file.groups
  BY <1>1, <1>2, <1>3 DEF KuprcType
<1> QED
  BY <1>2, <1>5, <1>6, <1>7 DEF PlanAt

LEMMA EnabledSaved ==
  ASSUME KuprcType, KcmType, kuprc' = [kuprc EXCEPT !.enabled = enables]
  PROVE  /\ KuprcType' /\ kuprc'.count = kuprc.count
         /\ \A m \in Numbers : PlanAt(kuprc', m) = PlanAt(kuprc, m)
BY DEF KuprcType, KcmType, PlanAt

\* "Reset" in the window finds the plans that were there when it was opened.
Counted == window \in {"open", "enabling", "calling"} => count <= Len(plans)

LEMMA KcmStepTyped ==
  ASSUME KuprcType, KcmType, Counted, KuprcAssumption, KcmStep
  PROVE  /\ KuprcType' /\ KcmType' /\ Counted'
         /\ window' \in {"closed", "open"} => /\ window \in {"closed", "open"}
                                             /\ kuprc' = kuprc
<1> DEFINE L == Len(plans)
<1>1. /\ L \in Nat /\ L <= MaxNumber /\ DOMAIN plans = 1 .. L
      /\ \A i \in 1 .. L : /\ plans[i] \in Entry
                          /\ plans[i].number \in Numbers /\ plans[i].plan \in Settings
  BY PlansTyped DEF KcmType
<1>2. MaxNumber \in Nat
  BY DEF KuprcAssumption
<1>3. CASE Open
  <2> DEFINE N == kuprc.count
  <2>1. /\ window = "closed" /\ window' = "open" /\ count' = N /\ kuprc' = kuprc
        /\ enables' = kuprc.enabled /\ UNCHANGED <<saved, renumbers, removed>>
        /\ plans' = [n \in 1 .. N |-> [number |-> n, plan |-> PlanAt(kuprc, n), widgets |-> TRUE]]
    BY <1>3 DEF Open, idle
  <2>2. N \in Nat /\ N <= MaxNumber /\ kuprc.enabled \in BOOLEAN
    BY <1>2 DEF KuprcType
  <2>3. \A n \in 1 .. N : n \in Numbers /\ PlanAt(kuprc, n) \in Settings
    BY <1>2, <2>2 DEF KuprcType, Numbers, PlanAt, Group
  <2>4. \A n \in 1 .. N : [number |-> n, plan |-> PlanAt(kuprc, n), widgets |-> TRUE] \in Entry
    BY <2>3 DEF Entry
  <2> HIDE DEF N
  <2>5. plans' \in [1 .. N -> Entry]
    BY <2>1, <2>4
  <2>6. plans' \in Seq(Entry) /\ Len(plans') = N
    BY <2>2, <2>5, SequenceOf
  <2> QED
    BY <1>2, <2>1, <2>2, <2>6 DEF KuprcType, KcmType, Counted
<1>4. CASE Close
  <2>1. plans' \in Seq(Entry) /\ Len(plans') = 0
    BY <1>4, EmptySeq DEF Close
  <2>2. enables' \in BOOLEAN
    BY <1>4 DEF Close
  <2> QED
    BY <1>2, <1>4, <2>1, <2>2 DEF Close, idle, KuprcType, KcmType, Counted
<1>5. ASSUME NEW plan \in Plans, AddPlan(plan)
      PROVE  KuprcType' /\ KcmType' /\ Counted' /\ window' = window /\ kuprc' = kuprc
  <2> DEFINE e == [number |-> L + 1, plan |-> plan, widgets |-> TRUE]
  <2>1. /\ plans' = Append(plans, e) /\ L < MaxNumber
        /\ UNCHANGED <<window, count, enables, saved, renumbers, removed, kuprc>>
    BY <1>5 DEF AddPlan, idle
  <2>2. e \in Entry
    BY <1>1, <1>2, <2>1 DEF Entry, Numbers, Settings
  <2> HIDE DEF e
  <2>3. plans' \in Seq(Entry) /\ Len(plans') = L + 1
    BY <2>1, <2>2, AppendProperties DEF KcmType
  <2> QED
    BY <1>1, <1>2, <2>1, <2>3 DEF KuprcType, KcmType, Counted
<1>6. ASSUME NEW i \in 1 .. L, RemovePlan(i)
      PROVE  KuprcType' /\ KcmType' /\ Counted' /\ window' = window /\ kuprc' = kuprc
  <2>1. /\ UNCHANGED <<window, count, enables, saved, renumbers, removed, kuprc>>
        /\ PartiallyRemovePlan(i) \/ CompletelyRemovePlan(i)
    BY <1>6 DEF RemovePlan, idle
  <2>2. /\ plans' \in Seq(Entry) /\ Len(plans') <= MaxNumber
        /\ Len(plans') = L \/ (Len(plans') = L - 1 /\ count < L)
    <3>1. CASE PartiallyRemovePlan(i)
      <4> DEFINE e == [plans[i] EXCEPT !.widgets = FALSE]
      <4>1. e \in Entry
        BY <1>1 DEF Entry
      <4>2. plans' = [plans EXCEPT ![i] = e]
        BY <3>1 DEF PartiallyRemovePlan
      <4> HIDE DEF e
      <4> QED
        BY <1>1, <4>1, <4>2, ExceptSeq DEF KcmType
    <3>2. CASE CompletelyRemovePlan(i)
      <4>1. plans' = WithoutEntry(i) /\ i > count
        BY <3>2 DEF CompletelyRemovePlan
      <4>2. plans' \in Seq(Entry) /\ Len(plans') = L - 1
        BY <4>1, EntryTakenOut
      <4> QED
        <5>1. count \in Nat
          BY <1>2 DEF KcmType
        <5>2. i \in Nat /\ i <= L /\ L \in Nat /\ L <= MaxNumber
          BY <1>1
        <5>3. count < L
          BY <4>1, <5>1, <5>2
        <5>4. L - 1 <= MaxNumber
          BY <1>2, <5>2
        <5> QED
          BY <4>2, <5>3, <5>4
    <3> QED
      BY <2>1, <3>1, <3>2
  <2>3. KuprcType' /\ KcmType'
    BY <2>1, <2>2 DEF KuprcType, KcmType
  <2>4. count \in Nat /\ L \in Nat
    BY <1>1, <1>2 DEF KcmType
  <2>5. Counted'
    <3>1. window' = window /\ count' = count
      BY <2>1
    <3>2. count <= L => count <= Len(plans')
      BY <2>2, <2>4
    <3> QED
      BY <3>1, <3>2 DEF Counted
  <2> QED
    BY <2>1, <2>3, <2>5
<1>7. CASE Enable
  <2>1. enables' \in BOOLEAN
    BY <1>7 DEF Enable, KcmType
  <2> QED
    BY <1>7, <2>1 DEF Enable, idle, KuprcType, KcmType, Counted
<1>8. CASE Load
  <2>1. /\ window = "open" /\ UNCHANGED <<window, count, saved, renumbers, removed, kuprc>>
        /\ enables' = kuprc.enabled
        /\ plans' = [i \in 1 .. count |-> [plans[i] EXCEPT !.widgets = TRUE]]
    BY <1>8 DEF Load, idle
  <2>2. count \in Nat /\ count <= L
    BY <1>2, <2>1 DEF KcmType, Counted
  <2>3. ASSUME NEW i \in 1 .. count PROVE [plans[i] EXCEPT !.widgets = TRUE] \in Entry
    <3>1. plans[i] \in Entry
      BY <1>1, <2>2
    <3> QED
      BY <3>1 DEF Entry
  <2>4. plans' \in [1 .. count -> Entry]
    BY <2>1, <2>3
  <2>5. plans' \in Seq(Entry) /\ Len(plans') = count
    BY <2>2, <2>4, SequenceOf
  <2>6. enables' \in BOOLEAN
    BY <2>1 DEF KuprcType
  <2> QED
    BY <1>1, <1>2, <2>1, <2>2, <2>5, <2>6 DEF KuprcType, KcmType, Counted
<1>9. CASE Save
  <2>1. saved' \in 0 .. MaxNumber /\ renumbers' \in BOOLEAN /\ removed' \in SUBSET Numbers
    <3>1. saved' = 0 /\ removed' = {}
      BY <1>9 DEF Save
    <3>2. renumbers' \in BOOLEAN
      BY <1>9 DEF Save
    <3> QED
      BY <1>2, <3>1, <3>2
  <2> QED
    BY <1>9, <2>1 DEF Save, KuprcType, KcmType, Counted
<1>10. CASE SaveRemoved
  <2>1. /\ saved < L /\ window = "saving" /\ plans' = WithoutEntry(saved + 1)
        /\ removed' = removed \cup {plans[saved + 1].number} /\ renumbers' = TRUE
        /\ UNCHANGED <<window, count, enables, saved, kuprc>>
    BY <1>10 DEF SaveRemoved
  <2>2. saved + 1 \in 1 .. L
    BY <1>1, <1>2, <2>1 DEF KcmType
  <2>3. plans' \in Seq(Entry) /\ Len(plans') = L - 1
    BY <2>1, <2>2, EntryTakenOut
  <2>4. removed' \in SUBSET Numbers /\ renumbers' \in BOOLEAN
    BY <1>1, <2>1, <2>2 DEF KcmType
  <2> QED
    BY <1>1, <1>2, <2>1, <2>3, <2>4 DEF KuprcType, KcmType, Counted
<1>11. CASE SaveInPlace
  <2>1. /\ saved < L /\ window = "saving" /\ saved' = saved + 1
        /\ UNCHANGED <<window, plans, count, enables, renumbers, removed>>
        /\ \/ kuprc' = SaveSettings(kuprc, plans[saved + 1].number, plans[saved + 1].plan)
           \/ kuprc' = kuprc
    BY <1>11 DEF SaveInPlace
  <2>2. saved + 1 \in 1 .. L /\ saved' \in 0 .. MaxNumber
    BY <1>1, <1>2, <2>1 DEF KcmType
  <2>3. plans[saved + 1].number \in Numbers /\ plans[saved + 1].plan \in Settings
    BY <1>1, <2>2
  <2>4. KuprcType'
    <3>1. CASE kuprc' = kuprc
      BY <3>1 DEF KuprcType
    <3> QED
      BY <2>1, <2>3, <3>1, SettingsSaved
  <2> QED
    BY <2>1, <2>2, <2>4 DEF KcmType, Counted
<1>12. CASE SaveRenumbered
  <2> DEFINE e == [plans[saved + 1] EXCEPT !.number = saved + 1]
             S == removed \cup {plans[saved + 1].number}
  <2>1. /\ saved < L /\ window = "saving" /\ saved' = saved + 1 /\ removed' = {}
        /\ UNCHANGED <<window, count, enables, renumbers>>
        /\ plans' = [plans EXCEPT ![saved + 1] = e]
        /\ kuprc' = SaveAsDefault(RemoveGroups(kuprc, S), saved + 1, plans[saved + 1].plan)
    BY <1>12 DEF SaveRenumbered
  <2>2. saved + 1 \in 1 .. L /\ saved' \in 0 .. MaxNumber /\ saved + 1 \in Numbers
    BY <1>1, <1>2, <2>1 DEF KcmType, Numbers
  <2>3. e \in Entry /\ S \in SUBSET Numbers /\ plans[saved + 1].plan \in Settings
    BY <1>1, <2>2 DEF Entry, KcmType
  <2> HIDE DEF e, S
  <2>4. plans' \in Seq(Entry) /\ Len(plans') = L
    BY <2>1, <2>2, <2>3, ExceptSeq DEF KcmType
  <2>5. KuprcType'
    BY <2>1, <2>2, <2>3, SavedAsDefault
  <2>6. removed' \in SUBSET Numbers
    BY <2>1
  <2> QED
    BY <1>1, <2>1, <2>2, <2>4, <2>5, <2>6 DEF KcmType, Counted
<1>13. CASE SaveSummary
  <2>1. /\ window = "saving" /\ window' = "enabling" /\ count' = L /\ removed' = {}
        /\ saved' = 0 /\ renumbers' = FALSE /\ UNCHANGED <<plans, enables>>
        /\ kuprc' = [RemoveGroups(kuprc, removed) EXCEPT !.count = L]
    BY <1>13 DEF SaveSummary
  <2>2. L \in 0 .. MaxNumber
    BY <1>1, <1>2
  <2>3. KuprcType'
    BY <2>1, <2>2, SummarySaved
  <2>4. renumbers' \in BOOLEAN
    BY <2>1
  <2>5. saved' \in 0 .. MaxNumber /\ removed' \in SUBSET Numbers /\ count' \in 0 .. MaxNumber
    BY <1>2, <2>1, <2>2
  <2> QED
    BY <1>1, <2>1, <2>3, <2>4, <2>5 DEF KcmType, Counted
<1>14. CASE SaveEnabled
  <2>1. /\ window = "enabling" /\ window' = "calling" /\ kuprc' = [kuprc EXCEPT !.enabled = enables]
        /\ UNCHANGED <<plans, count, enables, saved, renumbers, removed>>
    BY <1>14 DEF SaveEnabled, idle
  <2>2. KuprcType'
    BY <2>1, EnabledSaved
  <2> QED
    BY <2>1, <2>2 DEF KcmType, Counted
<1> QED
  BY <1>1, <1>3, <1>4, <1>5, <1>6, <1>7, <1>8, <1>9, <1>10, <1>11, <1>12, <1>13, <1>14
  DEF KcmStep, Save, SaveRemoved, SaveInPlace, SaveRenumbered, SaveSummary, SaveEnabled, Enable,
      Load, Open, Close

(***************************************************************************)
(* The inductive invariant of the settings module.  Numbered tells the     *)
(* numbers in the window during save(), Stored relates the file to the     *)
(* window: plans that have been dealt with are in their groups, and what   *)
(* else is in a group will be removed, or belongs to a plan still to come. *)
(***************************************************************************)
Numbered ==
  /\ saved <= Len(plans)
  /\ \A i \in 1 .. Len(plans) : /\ i <= saved \/ ~renumbers => plans[i].number = i
                                /\ i <= plans[i].number
  /\ ~renumbers => removed = {}
  /\ \A n \in removed : saved < n
  /\ window # "saving" => saved = 0 /\ ~renumbers

ToCome(n) == \E i \in 1 .. Len(plans) : saved < i /\ plans[i].number = n

StoredOutside ==
  /\ window = "closed" =>
       \A n \in Numbers : kuprc.count < n => PlanAt(kuprc, n) = NoPlan
  /\ window # "closed" => count = kuprc.count
  /\ window \in {"open", "enabling", "calling"} =>
       \A n \in Numbers : count < n => PlanAt(kuprc, n) = NoPlan
  /\ window \in {"enabling", "calling"} => Len(plans) = count

StoredWithin ==
  /\ window # "closed" /\ ~renumbers =>
       /\ count <= Len(plans)
       /\ \A n \in 1 .. count : PlanAt(kuprc, n) = plans[n].plan
  /\ window = "saving" =>
       /\ \A n \in 1 .. saved : PlanAt(kuprc, n) = plans[n].plan
       /\ \A n \in Numbers :
            saved < n /\ PlanAt(kuprc, n) # NoPlan => n \in removed \/ ToCome(n)

KcmInv == Numbered /\ StoredOutside /\ StoredWithin

\* While nothing is saved, the number is the place; the window keeps it so if it
\* leaves the plans that are in the file alone.
LEMMA WindowKeeps ==
  ASSUME KcmType, KcmInv, window # "saving", window' = "open", kuprc' = kuprc,
         UNCHANGED <<saved, renumbers, removed>>,
         count' = kuprc.count, count' \in Nat, Len(plans') \in Nat, count' <= Len(plans'),
         \A i \in 1 .. Len(plans') : plans'[i].number = i,
         \A n \in 1 .. count' : plans'[n].plan = PlanAt(kuprc, n)
  PROVE  KcmInv'
<1>1. saved' = 0 /\ ~renumbers' /\ removed' = {}
  BY DEF KcmInv, Numbered
<1>2. Numbered'
  BY <1>1 DEF Numbered
<1>3. window # "closed" => count = kuprc.count
  BY DEF KcmInv, StoredOutside
<1>4. \A n \in Numbers : count' < n => PlanAt(kuprc, n) = NoPlan
  BY <1>3 DEF KcmInv, StoredOutside, KcmType
<1>5. StoredOutside'
  BY <1>4 DEF StoredOutside
<1>6. StoredWithin'
  BY DEF StoredWithin
<1> QED
  BY <1>2, <1>5, <1>6 DEF KcmInv

LEMMA OpenKeeps ==
  ASSUME KuprcType, KcmType, KcmInv, KuprcAssumption, Open
  PROVE  KcmInv'
<1> DEFINE N == kuprc.count
<1>1. /\ window # "saving" /\ window' = "open" /\ kuprc' = kuprc /\ count' = N
      /\ UNCHANGED <<saved, renumbers, removed>>
      /\ plans' = [n \in 1 .. N |-> [number |-> n, plan |-> PlanAt(kuprc, n), widgets |-> TRUE]]
  BY DEF Open, idle
<1>2. N \in Nat
  BY DEF KuprcType, KuprcAssumption
<1>3. \A n \in 1 .. N : [number |-> n, plan |-> PlanAt(kuprc, n), widgets |-> TRUE] \in
        [number : Nat, plan : {PlanAt(kuprc, m) : m \in 1 .. N}, widgets : BOOLEAN]
  BY <1>2
<1> HIDE DEF N
<1>4. Len(plans') = N
  BY <1>1, <1>2, <1>3, SequenceOf
<1>5. \A n \in 1 .. N : plans'[n].number = n /\ plans'[n].plan = PlanAt(kuprc, n)
  BY <1>1
<1> QED
  BY <1>1, <1>2, <1>4, <1>5, WindowKeeps DEF N

\* What is known of the list of plans while the window is open.
LEMMA OpenWindow ==
  ASSUME KcmType, KcmInv, KuprcAssumption, window = "open"
  PROVE  /\ count = kuprc.count /\ count \in Nat /\ count <= Len(plans) /\ Len(plans) \in Nat
         /\ \A i \in 1 .. Len(plans) : plans[i].number = i
         /\ \A n \in 1 .. count : PlanAt(kuprc, n) = plans[n].plan
<1>1. Len(plans) \in Nat /\ count \in Nat
  BY PlansTyped DEF KcmType, KuprcAssumption
<1> QED
  BY <1>1 DEF KcmInv, Numbered, StoredOutside, StoredWithin

LEMMA AddPlanKeeps ==
  ASSUME KcmType, KcmInv, KuprcAssumption, NEW plan \in Plans, AddPlan(plan)
  PROVE  KcmInv'
<1> DEFINE L == Len(plans)
           e == [number |-> L + 1, plan |-> plan, widgets |-> TRUE]
<1>1. /\ window = "open" /\ window' = "open" /\ plans' = Append(plans, e) /\ L < MaxNumber
      /\ UNCHANGED <<count, saved, renumbers, removed, kuprc>>
  BY DEF AddPlan, idle
<1>2. L \in Nat /\ MaxNumber \in Nat
  BY PlansTyped DEF KuprcAssumption
<1>3. e \in Entry /\ e.number = L + 1
  BY <1>1, <1>2 DEF Entry, Numbers, Settings
<1> HIDE DEF e
<1>4. Len(plans') = L + 1 /\ \A i \in 1 .. L + 1 : plans'[i] = IF i <= L THEN plans[i] ELSE e
  BY <1>1, <1>2, <1>3, AppendProperties DEF KcmType
<1> QED
  BY <1>1, <1>2, <1>3, <1>4, OpenWindow, WindowKeeps

LEMMA RemovePlanKeeps ==
  ASSUME KcmType, KcmInv, KuprcAssumption, DiscardsOnlyLast,
         NEW i \in 1 .. Len(plans), RemovePlan(i)
  PROVE  KcmInv'
<1> DEFINE L == Len(plans)
<1>1. /\ window = "open" /\ window' = "open"
      /\ UNCHANGED <<count, saved, renumbers, removed, kuprc>>
      /\ PartiallyRemovePlan(i) \/ CompletelyRemovePlan(i)
  BY DEF RemovePlan, idle
<1>2. /\ L \in Nat
      /\ \A j \in 1 .. L : plans[j] \in Entry
  BY PlansTyped
<1>3. CASE PartiallyRemovePlan(i)
  <2> DEFINE e == [plans[i] EXCEPT !.widgets = FALSE]
  <2>1. e \in Entry /\ e.number = plans[i].number /\ e.plan = plans[i].plan
    BY <1>2 DEF Entry
  <2>2. plans' = [plans EXCEPT ![i] = e]
    BY <1>3 DEF PartiallyRemovePlan
  <2> HIDE DEF e
  <2>3. Len(plans') = L /\ \A j \in 1 .. L : plans'[j] = IF j = i THEN e ELSE plans[j]
    BY <2>1, <2>2, ExceptSeq DEF KcmType
  <2>4. \A j \in 1 .. L : plans'[j].number = plans[j].number /\ plans'[j].plan = plans[j].plan
    BY <2>1, <2>3
  <2> QED
    BY <1>1, <1>2, <2>3, <2>4, OpenWindow, WindowKeeps
<1>4. CASE CompletelyRemovePlan(i)
  <2>1. plans' = WithoutEntry(i) /\ i = L /\ count < L
    BY <1>4 DEF CompletelyRemovePlan
  <2>2. Len(plans') = L - 1 /\ \A j \in 1 .. L - 1 : plans'[j] = plans[j]
    BY <1>2, <2>1, EntryTakenOut
  <2>3. L - 1 \in Nat /\ count \in Nat /\ count <= L - 1
    BY <1>1, <1>2, <2>1, OpenWindow
  <2> QED
    BY <1>1, <1>2, <2>2, <2>3, OpenWindow, WindowKeeps
<1> QED
  BY <1>1, <1>3, <1>4

LEMMA LoadKeeps ==
  ASSUME KcmType, KcmInv, KuprcAssumption, Load
  PROVE  KcmInv'
<1>1. /\ window = "open" /\ window' = "open"
      /\ UNCHANGED <<count, saved, renumbers, removed, kuprc>>
      /\ plans' = [i \in 1 .. count |-> [plans[i] EXCEPT !.widgets = TRUE]]
  BY DEF Load, idle
<1>2. ASSUME NEW i \in 1 .. count
      PROVE  LET e == [plans[i] EXCEPT !.widgets = TRUE]
             IN  e \in Entry /\ e.number = i /\ e.plan = PlanAt(kuprc, i)
  <2>1. plans[i] \in Entry /\ plans[i].number = i /\ plans[i].plan = PlanAt(kuprc, i)
    BY <1>1, PlansTyped, OpenWindow
  <2> QED
    BY <2>1 DEF Entry
<1>3. plans' \in [1 .. count -> Entry]
  BY <1>1, <1>2
<1>4. Len(plans') = count
  BY <1>1, <1>3, OpenWindow, SequenceOf
<1>5. \A i \in 1 .. count : plans'[i].number = i /\ plans'[i].plan = PlanAt(kuprc, i)
  BY <1>1, <1>2
<1> QED
  BY <1>1, <1>4, <1>5, OpenWindow, WindowKeeps

LEMMA CloseKeeps ==
  ASSUME KcmType, KcmInv, KuprcAssumption, Close
  PROVE  KcmInv'
<1>1. /\ window = "open" /\ window' = "closed" /\ plans' = <<>> /\ kuprc' = kuprc
      /\ UNCHANGED <<saved, renumbers, removed>>
  BY DEF Close, idle
<1>2. Len(plans') = 0
  BY <1>1, EmptySeq
<1>3. saved' = 0 /\ ~renumbers' /\ removed' = {}
  BY <1>1 DEF KcmInv, Numbered
<1>4. Numbered'
  BY <1>2, <1>3 DEF Numbered
<1>5. \A n \in Numbers : kuprc.count < n => PlanAt(kuprc, n) = NoPlan
  BY <1>1, OpenWindow DEF KcmInv, StoredOutside
<1> QED
  BY <1>1, <1>4, <1>5 DEF KcmInv, StoredOutside, StoredWithin

LEMMA SaveKeeps ==
  ASSUME KcmType, KcmInv, KuprcAssumption, Save
  PROVE  KcmInv'
<1>1. /\ window = "open" /\ window' = "saving" /\ saved' = 0 /\ renumbers' = FALSE
      /\ removed' = {} /\ UNCHANGED <<plans, count, enables, kuprc>>
  BY DEF Save
<1>2. /\ count = kuprc.count /\ count \in Nat /\ count <= Len(plans) /\ Len(plans) \in Nat
      /\ \A i \in 1 .. Len(plans) : plans[i].number = i
      /\ \A n \in 1 .. count : PlanAt(kuprc, n) = plans[n].plan
  BY <1>1, OpenWindow
<1>3. Numbered'
  BY <1>1, <1>2 DEF Numbered
<1>4. StoredOutside'
  BY <1>1, <1>2 DEF StoredOutside
<1>5. \A n \in Numbers : PlanAt(kuprc, n) # NoPlan => n <= count
  BY <1>1, <1>2 DEF KcmInv, StoredOutside, Numbers
<1>6. \A n \in Numbers : PlanAt(kuprc', n) # NoPlan => ToCome(n)'
  BY <1>1, <1>2, <1>5 DEF ToCome, Numbers
<1>7. StoredWithin'
  BY <1>1, <1>2, <1>6 DEF StoredWithin
<1> QED
  BY <1>3, <1>4, <1>7 DEF KcmInv

\* What is known in the middle of save(), of plan saved + 1.
LEMMA NextPlan ==
  ASSUME KcmType, KuprcAssumption, saved < Len(plans)
  PROVE  /\ saved \in Nat /\ Len(plans) \in Nat /\ count \in Nat
         /\ saved + 1 \in 1 .. Len(plans) /\ saved + 1 \in Numbers
         /\ plans[saved + 1].number \in Numbers /\ plans[saved + 1].plan \in Settings
         /\ \A i \in 1 .. Len(plans) : plans[i].number \in Nat
<1>1. saved \in Nat /\ count \in Nat /\ Len(plans) <= MaxNumber /\ MaxNumber \in Nat
  BY DEF KcmType, KuprcAssumption
<1>2. saved + 1 \in 1 .. Len(plans) /\ Len(plans) \in Nat
  BY <1>1, PlansTyped
<1>3. saved + 1 \in Numbers
  BY <1>1, <1>2 DEF Numbers
<1> QED
  BY <1>1, <1>2, <1>3, PlansTyped DEF Numbers

LEMMA SaveRemovedKeeps ==
  ASSUME KcmType, KcmInv, KuprcAssumption, SaveRemoved
  PROVE  KcmInv'
<1> DEFINE L == Len(plans)
           k == saved + 1
<1>1. /\ window = "saving" /\ saved < L /\ plans' = WithoutEntry(k)
      /\ removed' = removed \cup {plans[k].number} /\ renumbers'
      /\ UNCHANGED <<window, count, saved, kuprc>>
  BY DEF SaveRemoved
<1>2. /\ saved \in Nat /\ L \in Nat /\ k \in 1 .. L
      /\ \A i \in 1 .. L : plans[i].number \in Nat
  BY <1>1, NextPlan
<1>3. Len(plans') = L - 1
      /\ \A j \in 1 .. L - 1 : plans'[j] = IF j < k THEN plans[j] ELSE plans[j + 1]
  BY <1>1, <1>2, EntryTakenOut
<1>4. \A i \in 1 .. L : (i <= saved => plans[i].number = i) /\ i <= plans[i].number
  BY DEF KcmInv, Numbered
<1>5. Numbered'
  <2>1. ASSUME NEW j \in 1 .. L - 1
        PROVE  (j <= saved => plans'[j].number = j) /\ j <= plans'[j].number
    <3>1. CASE j < k
      BY <1>2, <1>3, <1>4, <3>1
    <3>2. CASE ~(j < k)
      <4>1. plans'[j] = plans[j + 1] /\ j + 1 \in 1 .. L /\ ~(j <= saved)
        BY <1>2, <1>3, <3>2
      <4>2. j + 1 <= plans[j + 1].number /\ plans[j + 1].number \in Nat
        BY <1>2, <1>4, <4>1
      <4> QED
        BY <4>1, <4>2
    <3> QED
      BY <3>1, <3>2
  <2>2. \A n \in removed' : saved < n
    <3>1. \A n \in removed : saved < n
      BY DEF KcmInv, Numbered
    <3>2. saved < plans[k].number
      BY <1>2, <1>4
    <3> QED
      BY <1>1, <3>1, <3>2
  <2>3. saved <= L - 1
    BY <1>1, <1>2
  <2> QED
    BY <1>1, <1>3, <2>1, <2>2, <2>3 DEF Numbered
<1>6. StoredOutside'
  BY <1>1 DEF KcmInv, StoredOutside
<1>7. \A n \in 1 .. saved : PlanAt(kuprc', n) = plans'[n].plan
  <2>1. \A n \in 1 .. saved : PlanAt(kuprc, n) = plans[n].plan
    BY <1>1 DEF KcmInv, StoredWithin
  <2>2. \A n \in 1 .. saved : plans'[n] = plans[n]
    BY <1>1, <1>2, <1>3
  <2> QED
    BY <1>1, <2>1, <2>2
<1>8. ASSUME NEW n \in Numbers, saved < n, PlanAt(kuprc, n) # NoPlan
      PROVE  n \in removed' \/ ToCome(n)'
  <2>1. n \in removed \/ ToCome(n)
    BY <1>1, <1>8 DEF KcmInv, StoredWithin
  <2>2. ASSUME NEW i \in 1 .. L, saved < i, plans[i].number = n, i # k
        PROVE  ToCome(n)'
    <3>1. i - 1 \in 1 .. L - 1 /\ saved < i - 1
      BY <1>2, <2>2
    <3>2. plans'[i - 1] = plans[i]
      BY <1>2, <1>3, <3>1
    <3> QED
      BY <1>1, <1>3, <2>2, <3>1, <3>2 DEF ToCome
  <2> QED
    BY <1>1, <2>1, <2>2 DEF ToCome
<1>9. StoredWithin'
  BY <1>1, <1>7, <1>8 DEF StoredWithin
<1> QED
  BY <1>5, <1>6, <1>9 DEF KcmInv

LEMMA SaveInPlaceKeeps ==
  ASSUME KuprcType, KcmType, KcmInv, KuprcAssumption, SaveInPlace
  PROVE  KcmInv'
<1> DEFINE L == Len(plans)
           k == saved + 1
<1>1. /\ window = "saving" /\ saved < L /\ ~renumbers /\ saved' = k
      /\ UNCHANGED <<window, plans, count, renumbers, removed>>
      /\ \/ kuprc' = SaveSettings(kuprc, plans[k].number, plans[k].plan)
         \/ saved < count /\ kuprc' = kuprc
  BY DEF SaveInPlace
<1>2. /\ saved \in Nat /\ L \in Nat /\ count \in Nat
      /\ k \in 1 .. L /\ k \in Numbers /\ plans[k].plan \in Settings
  BY <1>1, NextPlan
<1>3. /\ \A i \in 1 .. L : plans[i].number = i
      /\ removed = {}
  BY <1>1 DEF KcmInv, Numbered
<1>4. kuprc'.count = kuprc.count
      /\ \A m \in Numbers : PlanAt(kuprc', m) = IF m = k THEN plans[k].plan ELSE PlanAt(kuprc, m)
  <2>1. CASE kuprc' = SaveSettings(kuprc, plans[k].number, plans[k].plan)
    BY <1>2, <1>3, <2>1, SettingsSaved
  <2>2. CASE saved < count /\ kuprc' = kuprc
    <3>1. k \in 1 .. count
      BY <1>2, <2>2
    <3>2. PlanAt(kuprc, k) = plans[k].plan
      BY <1>1, <3>1 DEF KcmInv, StoredWithin
    <3> QED
      BY <2>2, <3>2
  <2> QED
    BY <1>1, <2>1, <2>2
<1>5. Numbered'
  BY <1>1, <1>2, <1>3 DEF Numbered
<1>6. StoredOutside'
  BY <1>1, <1>4 DEF KcmInv, StoredOutside
<1>7. /\ count <= L /\ \A n \in 1 .. count : PlanAt(kuprc, n) = plans[n].plan
      /\ \A n \in 1 .. saved : PlanAt(kuprc, n) = plans[n].plan
      /\ \A n \in Numbers : saved < n /\ PlanAt(kuprc, n) # NoPlan => ToCome(n)
  BY <1>1, <1>3 DEF KcmInv, StoredWithin
<1>8. L <= MaxNumber /\ MaxNumber \in Nat
  BY DEF KcmType, KuprcAssumption
<1>9. /\ \A n \in 1 .. count : PlanAt(kuprc', n) = plans[n].plan
      /\ \A n \in 1 .. k : PlanAt(kuprc', n) = plans[n].plan
  BY <1>2, <1>4, <1>7, <1>8 DEF Numbers
<1>10. ASSUME NEW n \in Numbers, k < n, PlanAt(kuprc', n) # NoPlan
       PROVE  ToCome(n)'
  <2>1. ToCome(n) /\ n # k
    BY <1>2, <1>4, <1>7, <1>10 DEF Numbers
  <2> QED
    BY <1>1, <1>2, <1>3, <1>10, <2>1 DEF ToCome
<1>11. StoredWithin'
  BY <1>1, <1>7, <1>9, <1>10 DEF StoredWithin
<1> QED
  BY <1>5, <1>6, <1>11 DEF KcmInv

LEMMA SaveRenumberedKeeps ==
  ASSUME KuprcType, KcmType, KcmInv, KuprcAssumption, SaveRenumbered
  PROVE  KcmInv'
<1> DEFINE L == Len(plans)
           k == saved + 1
           S == removed \cup {plans[k].number}
           e == [plans[k] EXCEPT !.number = k]
<1>1. /\ window = "saving" /\ saved < L /\ renumbers /\ saved' = k /\ removed' = {}
      /\ UNCHANGED <<window, count, renumbers>>
      /\ plans' = [plans EXCEPT ![k] = e]
      /\ kuprc' = SaveAsDefault(RemoveGroups(kuprc, S), k, plans[k].plan)
  BY DEF SaveRenumbered
<1>2. /\ saved \in Nat /\ L \in Nat /\ k \in 1 .. L /\ k \in Numbers
      /\ plans[k].plan \in Settings /\ S \in SUBSET Numbers
  BY <1>1, NextPlan DEF KcmType
<1>3. e \in Entry /\ e.number = k /\ e.plan = plans[k].plan
  BY <1>2, PlansTyped DEF Entry
<1>4. kuprc'.count = kuprc.count
      /\ \A m \in Numbers : PlanAt(kuprc', m) =
           IF m = k THEN plans[k].plan ELSE IF m \in S THEN NoPlan ELSE PlanAt(kuprc, m)
  <2> HIDE DEF S, k
  <2> QED
    BY <1>1, <1>2, SavedAsDefault
<1> HIDE DEF e
<1>5. Len(plans') = L /\ \A j \in 1 .. L : plans'[j] = IF j = k THEN e ELSE plans[j]
  BY <1>1, <1>2, <1>3, ExceptSeq DEF KcmType
<1>6. \A i \in 1 .. L : (i <= saved => plans[i].number = i) /\ i <= plans[i].number
  BY DEF KcmInv, Numbered
<1>7. Numbered'
  BY <1>1, <1>2, <1>3, <1>5, <1>6 DEF Numbered
<1>8. StoredOutside'
  BY <1>1, <1>4 DEF KcmInv, StoredOutside
<1>9. \A n \in S : saved < n
  <2>1. \A n \in removed : saved < n
    BY DEF KcmInv, Numbered
  <2>2. saved < plans[k].number
    BY <1>2, <1>6, NextPlan, <1>1
  <2> QED
    BY <2>1, <2>2
<1>10. \A n \in 1 .. k : PlanAt(kuprc', n) = plans'[n].plan
  <2>1. \A n \in 1 .. saved : PlanAt(kuprc, n) = plans[n].plan
    BY <1>1 DEF KcmInv, StoredWithin
  <2>2. \A n \in 1 .. saved : n \in Numbers /\ n \notin S /\ n # k /\ n \in 1 .. L
    BY <1>2, <1>9 DEF Numbers
  <2>3. \A n \in 1 .. saved : PlanAt(kuprc', n) = plans'[n].plan
    BY <1>4, <1>5, <2>1, <2>2
  <2>4. PlanAt(kuprc', k) = plans'[k].plan
    BY <1>2, <1>3, <1>4, <1>5
  <2>5. \A n \in 1 .. k : n \in 1 .. saved \/ n = k
    BY <1>2
  <2> QED
    BY <2>3, <2>4, <2>5
<1>11. ASSUME NEW n \in Numbers, k < n, PlanAt(kuprc', n) # NoPlan
       PROVE  ToCome(n)'
  <2>1. n # k /\ n \in Nat /\ saved < n
    BY <1>2, <1>11 DEF Numbers
  <2>2. n \notin S /\ PlanAt(kuprc, n) # NoPlan
    BY <1>4, <1>11, <2>1
  <2>3. ToCome(n)
    BY <1>1, <2>1, <2>2 DEF KcmInv, StoredWithin
  <2>4. PICK i \in 1 .. L : saved < i /\ plans[i].number = n
    BY <2>3 DEF ToCome
  <2>5. i # k /\ k < i
    BY <1>2, <2>2, <2>4
  <2>6. plans'[i].number = n
    BY <1>5, <2>4, <2>5
  <2> QED
    BY <1>1, <1>5, <2>5, <2>6 DEF ToCome
<1>12. StoredWithin'
  BY <1>1, <1>10, <1>11 DEF StoredWithin
<1> QED
  BY <1>7, <1>8, <1>12 DEF KcmInv

LEMMA SaveSummaryKeeps ==
  ASSUME KuprcType, KcmType, KcmInv, KuprcAssumption, SaveSummary
  PROVE  KcmInv'
<1> DEFINE L == Len(plans)
<1>1. /\ window = "saving" /\ window' = "enabling" /\ saved = L /\ count' = L /\ removed' = {}
      /\ saved' = 0 /\ renumbers' = FALSE /\ plans' = plans
      /\ kuprc' = [RemoveGroups(kuprc, removed) EXCEPT !.count = L]
  BY DEF SaveSummary
<1>2. L \in Nat /\ L <= MaxNumber /\ MaxNumber \in Nat /\ L \in 0 .. MaxNumber
  BY PlansTyped DEF KcmType, KuprcAssumption
<1>3. kuprc'.count = L
      /\ \A m \in Numbers : PlanAt(kuprc', m) =
           IF m \in removed THEN NoPlan ELSE PlanAt(kuprc, m)
  BY <1>1, <1>2, SummarySaved
<1>4. /\ \A i \in 1 .. L : plans[i].number = i
      /\ \A n \in removed : L < n
  BY <1>1 DEF KcmInv, Numbered
<1>5. Numbered'
  BY <1>1, <1>2, <1>4 DEF Numbered
<1>6. \A n \in 1 .. L : PlanAt(kuprc', n) = plans[n].plan
  <2>1. \A n \in 1 .. L : PlanAt(kuprc, n) = plans[n].plan
    BY <1>1 DEF KcmInv, StoredWithin
  <2>2. \A n \in 1 .. L : n \in Numbers /\ n \notin removed
    BY <1>2, <1>4 DEF Numbers
  <2> QED
    BY <1>3, <2>1, <2>2
<1>7. ASSUME NEW n \in Numbers, L < n PROVE PlanAt(kuprc', n) = NoPlan
  <2>1. PlanAt(kuprc, n) # NoPlan => n \in removed \/ ToCome(n)
    BY <1>1, <1>7 DEF KcmInv, StoredWithin
  <2>2. ~ToCome(n)
    BY <1>1, <1>2 DEF ToCome
  <2> QED
    BY <1>3, <2>1, <2>2
<1>8. StoredOutside'
  BY <1>1, <1>3, <1>7 DEF StoredOutside
<1>9. StoredWithin'
  BY <1>1, <1>2, <1>6 DEF StoredWithin
<1> QED
  BY <1>5, <1>8, <1>9 DEF KcmInv

LEMMA SaveEnabledKeeps ==
  ASSUME KuprcType, KcmType, KcmInv, KuprcAssumption, SaveEnabled
  PROVE  KcmInv'
<1>1. /\ window = "enabling" /\ window' = "calling" /\ kuprc' = [kuprc EXCEPT !.enabled = enables]
      /\ UNCHANGED <<plans, count, saved, renumbers, removed>>
  BY DEF SaveEnabled, idle
<1>2. kuprc'.count = kuprc.count /\ \A m \in Numbers : PlanAt(kuprc', m) = PlanAt(kuprc, m)
  BY <1>1, EnabledSaved
<1>3. count \in Nat /\ count <= MaxNumber /\ MaxNumber \in Nat
  BY DEF KcmType, KuprcAssumption
<1>4. Numbered'
  BY <1>1 DEF KcmInv, Numbered
<1>5. StoredOutside'
  BY <1>1, <1>2 DEF KcmInv, StoredOutside
<1>6. \A n \in 1 .. count : PlanAt(kuprc', n) = PlanAt(kuprc, n)
  BY <1>2, <1>3 DEF Numbers
<1>7. StoredWithin'
  BY <1>1, <1>6 DEF KcmInv, StoredWithin
<1> QED
  BY <1>4, <1>5, <1>7 DEF KcmInv

LEMMA KcmStepKeeps ==
  ASSUME KuprcType, KcmType, KcmInv, KuprcAssumption, DiscardsOnlyLast, KcmStep
  PROVE  KcmInv'
<1>1. CASE Enable
  BY <1>1 DEF Enable, idle, KcmInv, Numbered, StoredOutside, StoredWithin, ToCome
<1>2. DOMAIN plans = 1 .. Len(plans)
  BY PlansTyped
<1> QED
  BY <1>1, <1>2, OpenKeeps, CloseKeeps, LoadKeeps, SaveKeeps, AddPlanKeeps, RemovePlanKeeps,
     SaveRemovedKeeps, SaveInPlaceKeeps, SaveRenumberedKeeps, SaveSummaryKeeps, SaveEnabledKeeps DEF KcmStep

\* The daemon writes no settings and not the number of plans.
LEMMA DaemonLeavesSettings ==
  ASSUME KuprcAssumption, KcmType, KcmInv, UNCHANGED kcm, kuprc'.count = kuprc.count,
         \A n \in Numbers : PlanAt(kuprc', n) = PlanAt(kuprc, n)
  PROVE  KcmInv'
<1>1. UNCHANGED <<window, plans, count, enables, saved, renumbers, removed>>
  BY DEF kcm
<1>2. count <= MaxNumber /\ saved <= MaxNumber /\ count \in Nat /\ saved \in Nat
      /\ MaxNumber \in Nat
  BY DEF KcmType, KuprcAssumption
<1>3. Numbered'
  BY <1>1 DEF KcmInv, Numbered
<1>4. StoredOutside'
  BY <1>1 DEF KcmInv, StoredOutside
<1>5. \A n \in Numbers : ToCome(n)' = ToCome(n)
  BY <1>1 DEF ToCome
<1>6. StoredWithin'
  BY <1>1, <1>2, <1>5 DEF KcmInv, StoredWithin, Numbers
<1> QED
  BY <1>3, <1>4, <1>6 DEF KcmInv

-----------------------------------------------------------------------------
(***************************************************************************)
(* The theorems.                                                           *)
(***************************************************************************)
InStep == window \in {"closed", "open"} => DaemonFollows

IInv == TypeOK /\ Counted /\ RequestIsRemembered /\ InStep

LEMMA InitEstablishes ==
  ASSUME KuprcAssumption, DaemonAssumption, Init
  PROVE  IInv /\ KcmInv
<1>1. EmptyGroup \in Group /\ EmptyGroup.settings = NoPlan
  BY EmptyGroupTyped
<1>2. kuprc \in [groups : [Numbers -> Group], enabled : BOOLEAN, count : 0 .. MaxNumber]
  BY <1>1 DEF Init, KuprcAssumption
<1>3. \A n \in Numbers : PlanAt(kuprc, n) = NoPlan
  BY <1>1 DEF Init, PlanAt
<1>4. /\ executors \in Seq(Executor) /\ Len(executors) = 0
      /\ plans \in Seq(Entry) /\ Len(plans) = 0
  BY EmptySeq DEF Init
<1>5. calls \in 0 .. MaxCalls /\ count \in 0 .. MaxNumber /\ saved \in 0 .. MaxNumber
      /\ removed \in SUBSET Numbers /\ 0 <= MaxNumber
  BY DEF Init, KuprcAssumption, DaemonAssumption
<1>6. running \in BOOLEAN /\ waiting \in BOOLEAN /\ enables \in BOOLEAN /\ renumbers \in BOOLEAN
  BY DEF Init
<1>7. window = "closed" /\ running = FALSE /\ waiting = FALSE
  BY DEF Init
<1>8. TypeOK
  BY <1>2, <1>4, <1>5, <1>6, <1>7 DEF TypeOK, KuprcType, DaemonType, KcmType
<1>9. Counted /\ RequestIsRemembered /\ InStep
  BY <1>7 DEF Counted, RequestIsRemembered, InStep, DaemonFollows
<1>10. saved = 0 /\ renumbers = FALSE /\ removed = {}
  BY DEF Init
<1>11. Numbered
  BY <1>4, <1>10 DEF Numbered
<1>12. StoredOutside /\ StoredWithin
  BY <1>3, <1>7 DEF StoredOutside, StoredWithin
<1> QED
  BY <1>8, <1>9, <1>11, <1>12 DEF IInv, KcmInv

\* A step of the system is one of the daemon, one of the window, or their meeting.
LEMMA NextKeeps ==
  ASSUME KuprcAssumption, DaemonAssumption, IInv, [Next]_vars
  PROVE  IInv' /\ (DiscardsOnlyLast /\ KcmInv => KcmInv')
<1>0. /\ KuprcType /\ DaemonType /\ KcmType /\ Counted /\ RequestIsRemembered
      /\ window \in {"closed", "open"} => DaemonFollows
  BY DEF IInv, TypeOK, InStep
<1>1. CASE DaemonStep /\ UNCHANGED kcm
  <2>1. /\ KuprcType' /\ DaemonType' /\ RequestIsRemembered'
        /\ DaemonFollows => DaemonFollows'
        /\ kuprc'.count = kuprc.count
        /\ \A n \in Numbers : PlanAt(kuprc', n) = PlanAt(kuprc, n)
    BY <1>0, <1>1, DaemonStepKeeps
  <2>2. KcmType' /\ Counted' /\ window' = window
    BY <1>0, <1>1 DEF kcm, KcmType, Counted
  <2>3. KcmInv => KcmInv'
    BY <1>0, <1>1, <2>1, DaemonLeavesSettings
  <2> QED
    BY <1>0, <2>1, <2>2, <2>3 DEF IInv, TypeOK, InStep
<1>2. CASE KcmStep /\ UNCHANGED daemon
  <2>1. /\ KuprcType' /\ KcmType' /\ Counted'
        /\ window' \in {"closed", "open"} => /\ window \in {"closed", "open"}
                                            /\ kuprc' = kuprc
    BY <1>0, <1>2, KcmStepTyped
  <2>2. UNCHANGED <<running, executors, waiting, calls>>
    BY <1>2 DEF daemon
  <2>3. DaemonType' /\ RequestIsRemembered'
    BY <1>0, <2>2 DEF DaemonType, RequestIsRemembered, NoneBusy
  <2>4. InStep'
    BY <1>0, <2>1, <2>2 DEF InStep, DaemonFollows
  <2>5. DiscardsOnlyLast /\ KcmInv => KcmInv'
    BY <1>0, <1>2, KcmStepKeeps
  <2> QED
    BY <2>1, <2>3, <2>4, <2>5 DEF IInv, TypeOK
<1>3. ASSUME Returns, UNCHANGED <<kuprc, plans, count, enables, saved, renumbers, removed>>
      PROVE  KuprcType' /\ KcmType' /\ Counted' /\ (KcmInv => KcmInv')
  <2>1. window = "calling" /\ window' = "open"
    BY <1>3 DEF Returns
  <2>2. KuprcType' /\ KcmType' /\ Counted'
    BY <1>0, <1>3, <2>1 DEF KuprcType, KcmType, Counted
  <2>3. KcmInv => KcmInv'
    BY <1>3, <2>1 DEF KcmInv, Numbered, StoredOutside, StoredWithin
  <2> QED
    BY <2>2, <2>3
<1>4. CASE Called
  <2>1. /\ Returns /\ ReloadConfig /\ calls' = IF running' THEN calls ELSE 0
        /\ UNCHANGED <<kuprc, plans, count, enables, saved, renumbers, removed>>
    BY <1>4 DEF Called
  <2>2. /\ running' \in BOOLEAN /\ waiting' \in BOOLEAN
        /\ executors' \in Seq(Executor) /\ Len(executors') <= MaxNumber
        /\ \/ waiting' /\ ~NoneBusy /\ executors' = executors
           \/ ~waiting' /\ ~running'
           \/ ~waiting' /\ InStepWith(executors', kuprc)
    BY <1>0, <2>1, Reloaded
  <2>3. calls' \in 0 .. MaxCalls
    BY <1>0, <2>1 DEF DaemonType, DaemonAssumption
  <2>4. DaemonType'
    BY <2>2, <2>3 DEF DaemonType
  <2>5. RequestIsRemembered'
    BY <2>2 DEF RequestIsRemembered, NoneBusy
  <2>6. InStep'
    BY <2>1, <2>2 DEF InStep, DaemonFollows
  <2> QED
    BY <1>3, <2>1, <2>4, <2>5, <2>6 DEF IInv, TypeOK
<1>5. CASE Launched
  <2>1. /\ Returns /\ ~running /\ UNCHANGED <<running, executors, waiting, calls>>
        /\ UNCHANGED <<kuprc, plans, count, enables, saved, renumbers, removed>>
    BY <1>5 DEF Launched, daemon
  <2>2. DaemonType' /\ RequestIsRemembered'
    BY <1>0, <2>1 DEF DaemonType, RequestIsRemembered, NoneBusy
  <2>3. InStep'
    BY <2>1 DEF InStep, DaemonFollows
  <2> QED
    BY <1>3, <2>1, <2>2, <2>3 DEF IInv, TypeOK
<1>6. CASE UNCHANGED vars
  <2>1. UNCHANGED <<kuprc, running, executors, waiting, calls>> /\ UNCHANGED kcm
    BY <1>6 DEF vars, daemon
  <2>2. UNCHANGED <<window, plans, count, enables, saved, renumbers, removed>>
    BY <2>1 DEF kcm
  <2>3. KuprcType' /\ DaemonType' /\ KcmType' /\ Counted'
    BY <1>0, <2>1, <2>2 DEF KuprcType, DaemonType, KcmType, Counted
  <2>4. RequestIsRemembered' /\ InStep'
    BY <1>0, <2>1, <2>2 DEF RequestIsRemembered, NoneBusy, InStep, DaemonFollows
  <2>5. KcmInv => KcmInv'
    BY <1>0, <2>1, DaemonLeavesSettings
  <2> QED
    BY <2>3, <2>4, <2>5 DEF IInv, TypeOK
<1> QED
  BY <1>1, <1>2, <1>4, <1>5, <1>6 DEF Next

LEMMA Inductive == Spec => []IInv
<1>1. Init => IInv
  BY InitEstablishes, KuprcAssumption, DaemonAssumption
<1>2. IInv /\ [Next]_vars => IInv'
  BY NextKeeps, KuprcAssumption, DaemonAssumption
<1> QED
  BY <1>1, <1>2, PTL DEF Spec

\* Every variable of the daemon, of the window and of the file has its type, whatever
\* the user does with the plans and wherever the daemon is stopped.
THEOREM TypeCorrect == Spec => []TypeOK
<1>1. IInv => TypeOK
  BY DEF IInv
<1> QED
  BY <1>1, Inductive, PTL

\* A request that reloadConfig() put off has another call queued once no executor is
\* busy: updateTrayIcon() runs after every change of a state.
THEOREM RequestRemembered == Spec => []RequestIsRemembered
<1>1. IInv => RequestIsRemembered
  BY DEF IInv
<1> QED
  BY <1>1, Inductive, PTL

\* The daemon has the plans of kuprc, in their groups, whenever no save() and no
\* reload is under way.
THEOREM StaysInStep == Spec => []DaemonInStep
<1>1. IInv => DaemonInStep
  BY DEF IInv, InStep, DaemonFollows, InStepWith, DaemonInStep
<1> QED
  BY <1>1, Inductive, PTL

\* A daemon that does not run has no executors.
Stopped == ~running => executors = <<>>

\* reloadConfig() makes the executors anew only if none of them is busy.
LEMMA ReloadKeepsBusy ==
  ASSUME ReloadConfig, Stopped
  PROVE  Stopped' /\ \A i \in DOMAIN executors : busy(executors[i]) => BusyIsKept(i)
BY DEF ReloadConfig, NoneBusy, BusyIsKept, Stopped

LEMMA StepKeepsBusy ==
  ASSUME KuprcAssumption, DaemonAssumption, IInv, Stopped, [Next]_vars
  PROVE  /\ Stopped'
         /\ running' => \A i \in DOMAIN executors : busy(executors[i]) => BusyIsKept(i)
<1>0. KuprcType /\ DaemonType
  BY DEF IInv, TypeOK
<1>1. CASE executors' = executors /\ running' = running
  BY <1>1 DEF Stopped, BusyIsKept
<1>2. CASE QueuedCall \/ Called
  BY <1>2, ReloadKeepsBusy DEF QueuedCall, Called
<1>3. CASE Start
  <2>1. DOMAIN executors = {}
    BY <1>3 DEF Start, Stopped
  <2> QED
    BY <1>3, <2>1 DEF Start, Stopped
<1>4. CASE Crash
  BY <1>4 DEF Crash, Stopped
<1>5. ASSUME NEW i \in DOMAIN executors, ExecutorStep(i)
      PROVE  Stopped' /\ \A j \in DOMAIN executors : busy(executors[j]) => BusyIsKept(j)
  <2>1. PICK e \in Executor : /\ e.plan = executors[i].plan
                             /\ e.number = executors[i].number
                             /\ Turns(i, e)
    BY <1>0, <1>5, ExecutorSteps
  <2>2. /\ running' = running /\ DOMAIN executors' = DOMAIN executors
        /\ \A n \in DOMAIN executors : /\ executors'[n].plan = executors[n].plan
                                       /\ executors'[n].number = executors[n].number
    BY <1>0, <2>1, OneExecutorTurns
  <2>3. running
    BY DEF Stopped
  <2> QED
    BY <2>2, <2>3 DEF Stopped, BusyIsKept
<1>6. CASE KcmStep /\ UNCHANGED daemon
  BY <1>1, <1>6 DEF daemon
<1>7. CASE Launched \/ UNCHANGED vars
  BY <1>1, <1>7 DEF Launched, vars, daemon
<1> QED
  BY <1>2, <1>3, <1>4, <1>5, <1>6, <1>7 DEF Next, DaemonStep

\* No executor is deleted, with the job it runs, by a reload of the configuration.
THEOREM BusyAreKept == Spec => BusyExecutorsAreKept
<1>1. Init => Stopped
  BY DEF Init, Stopped
<1>2. IInv /\ Stopped /\ [Next]_vars => Stopped'
  BY StepKeepsBusy, KuprcAssumption, DaemonAssumption
<1>3. IInv /\ Stopped /\ [Next]_vars =>
        [running' => \A i \in DOMAIN executors : busy(executors[i]) => BusyIsKept(i)]_daemon
  BY StepKeepsBusy, KuprcAssumption, DaemonAssumption
<1> QED
  BY <1>1, <1>2, <1>3, Inductive, PTL DEF Spec, BusyExecutorsAreKept

LEMMA KcmInductive == DiscardsOnlyLast => (Spec => [](IInv /\ KcmInv))
<1>1. Init => IInv /\ KcmInv
  BY InitEstablishes, KuprcAssumption, DaemonAssumption
<1>2. DiscardsOnlyLast => (IInv /\ KcmInv /\ [Next]_vars => IInv' /\ KcmInv')
  BY NextKeeps, KuprcAssumption, DaemonAssumption
<1>3. ASSUME DiscardsOnlyLast PROVE Spec => [](IInv /\ KcmInv)
  <2>1. IInv /\ KcmInv /\ [Next]_vars => (IInv /\ KcmInv)'
    BY <1>2, <1>3
  <2> QED
    BY <1>1, <2>1, PTL DEF Spec
<1> QED
  BY <1>3

\* As long as the user discards new plans only from the end of the list, a plan's
\* number is its place there, so that no two have the same (kupkcm.cpp:220-240).
THEOREM NumberStaysOrder == DiscardsOnlyLast => (Spec => []NumberIsOrder)
<1>1. IInv /\ KcmInv => NumberIsOrder
  BY PlansTyped DEF IInv, TypeOK, KcmInv, Numbered, NumberIsOrder
<1>2. ASSUME DiscardsOnlyLast PROVE Spec => []NumberIsOrder
  BY <1>1, <1>2, KcmInductive, PTL
<1> QED
  BY <1>2

\* With such a user, what save() has written is what the window shows.
THEOREM SavesWhatIsShown == DiscardsOnlyLast => (Spec => []SavedAsShown)
<1>1. IInv /\ KcmInv => SavedAsShown
  <2>1. SUFFICES ASSUME IInv, KcmInv, window = "calling", NEW n \in Numbers
                 PROVE  PlanAt(kuprc, n) = IF n \in DOMAIN plans THEN plans[n].plan ELSE NoPlan
    BY DEF SavedAsShown
  <2>2. /\ Len(plans) = count /\ count \in Nat /\ n \in Nat /\ 1 <= n
        /\ DOMAIN plans = 1 .. Len(plans)
        /\ \A m \in Numbers : count < m => PlanAt(kuprc, m) = NoPlan
    BY <2>1, PlansTyped, KuprcAssumption
    DEF IInv, TypeOK, KcmType, KcmInv, StoredOutside, Numbers, KuprcAssumption
  <2>3. \A m \in 1 .. count : PlanAt(kuprc, m) = plans[m].plan
    BY <2>1 DEF KcmInv, Numbered, StoredWithin
  <2> QED
    BY <2>1, <2>2, <2>3
<1>2. ASSUME DiscardsOnlyLast PROVE Spec => []SavedAsShown
  BY <1>1, <1>2, KcmInductive, PTL
<1> QED
  BY <1>2
=============================================================================
