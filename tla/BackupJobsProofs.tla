-------------------------- MODULE BackupJobsProofs --------------------------
(***************************************************************************)
(* The safety of the jobs, for any number of them and any settings.  The   *)
(* promise is about results; the invariant says where in its ladder of     *)
(* programs a job must be for the archive to be as the result will claim.  *)
(***************************************************************************)
EXTENDS BackupJobs, TLAPS

Ladder(kind) ==
  CASE kind = "bup"    -> {"checking", "indexing", "saving", "recovery"}
    [] kind = "rsync"  -> {"copying"}
    [] kind = "verify" -> {"verifying"}
    [] kind = "repair" -> {"repairing"}

\* The last program that saves files has done so.
HasSaved(jb) ==
  \/ jb.stage = "recovery"
  \/ jb.stage \in {"saving", "copying"} /\ jb.exit = "0"

StillToSave(jb) ==
  \/ jb.stage \in {"none", "posted", "checking", "indexing", "verifying", "repairing"}
  \/ jb.stage \in {"saving", "copying"} /\ jb.exit # "0"

\* The archive was checked by the job, if its plan wants that.
HasChecked(jb) ==
  \/ jb.stage = "checking" /\ jb.exit = "0"
  \/ jb.settings.check /\ jb.stage \in {"indexing", "saving", "recovery"}

Climbing(j) ==
  /\ job[j].stage \in Programs => job[j].stage \in Ladder(job[j].settings.kind)
  /\ job[j].stage = "done" <=> job[j].result # "none"
  /\ HasSaved(job[j]) => j \in snapshots
  /\ StillToSave(job[j]) => j \notin snapshots
  /\ job[j].stage = "recovery" /\ job[j].exit = "0" => j \in covered
  /\ HasChecked(job[j]) => j \in sound
  /\ j \in snapshots => job[j].settings.kind \in {"bup", "rsync"}
  /\ j \in snapshots /\ job[j].settings.kind = "bup" /\ job[j].settings.check => j \in sound

IInv == TypeOK /\ \A j \in Jobs : Climbing(j)

-----------------------------------------------------------------------------
\* The steps of a job, by what they do to the archive.
Step(j) == Create(j) \/ Slot(j) \/ Program(j)

(***************************************************************************)
(* A step of one job leaves the others where they are: it takes nothing    *)
(* out of the sets, and adds no snapshot but its own.                      *)
(***************************************************************************)
LEMMA OthersStay ==
  ASSUME TypeOK, NEW j \in Jobs, Step(j)
  PROVE  /\ \A k \in Jobs \ {j} :
              job'[k] = job[k] /\ (k \in snapshots' <=> k \in snapshots)
         /\ covered \subseteq covered' /\ sound \subseteq sound'
         /\ snapshots \subseteq snapshots'
<1>1. \A k \in Jobs \ {j} : job'[k] = job[k]
  <2>1. CASE Create(j)
    BY <2>1 DEF Create, TypeOK
  <2>2. CASE Slot(j)
    BY <2>2 DEF Slot, Start, CheckingDone, IndexingDone, SavingDone, RecoveryInfoDone,
         RsyncFinished, VerificationDone, RepairDone, TypeOK
  <2>3. CASE Program(j)
    BY <2>3 DEF Program, FsckEnds, IndexEnds, SaveEnds, ParityEnds, RepairEnds,
         GoesWrong, Ends, TypeOK
  <2>4. QED  BY <2>1, <2>2, <2>3 DEF Step
<1>2. /\ \A k \in Jobs \ {j} : k \in snapshots' <=> k \in snapshots
      /\ covered \subseteq covered' /\ sound \subseteq sound'
      /\ snapshots \subseteq snapshots'
  <2>1. CASE Create(j) \/ Slot(j)
    BY <2>1 DEF Create, Slot, Start, Finished, CheckingDone, IndexingDone, SavingDone,
         RecoveryInfoDone, RsyncFinished, VerificationDone, RepairDone, archive
  <2>2. CASE Program(j)
    BY <2>2 DEF Program, FsckEnds, IndexEnds, SaveEnds, ParityEnds, RepairEnds,
         GoesWrong, archive
  <2>3. QED  BY <2>1, <2>2 DEF Step
<1>3. QED  BY <1>1, <1>2

\* What the slots return is a job again, with the settings it had.
LEMMA SlotsReturnJobs ==
  ASSUME NEW jb \in Job, NEW exit \in Exits
  PROVE  /\ \A program \in Programs : Run(jb, program) \in Job
         /\ \A result \in Results : EmitResult(jb, result) \in Job
         /\ ReportDamage(jb) \in Job
         /\ SlotCheckingDone(jb, exit) \in Job
         /\ SlotIndexingDone(jb, exit) \in Job
         /\ SlotSavingDone(jb, exit) \in Job
         /\ SlotLastDone(jb, exit) \in Job
         /\ SlotVerificationDone(jb, exit) \in Job
         /\ SlotRepairDone(jb) \in Job
<1>1. /\ \A program \in Programs : Run(jb, program) \in Job
      /\ \A result \in Results : EmitResult(jb, result) \in Job
  BY DEF Run, EmitResult, Job
<1>2. ReportDamage(jb) \in Job
  BY <1>1 DEF ReportDamage, Results
<1>3. QED
  BY <1>1, <1>2 DEF SlotCheckingDone, SlotIndexingDone, SlotSavingDone, SlotLastDone,
       SlotVerificationDone, SlotRepairDone, Programs, Results

LEMMA StartReturnsJob ==
  ASSUME NEW jb \in Job, NEW tools \in Tools, NEW init \in BOOLEAN
  PROVE  StartJob(jb, tools, init) \in Job
<1>1. /\ \A program \in Programs : Run(jb, program) \in Job
      /\ \A result \in Results : EmitResult(jb, result) \in Job
      /\ SlotCheckingDone(jb, "0") \in Job
  BY SlotsReturnJobs DEF Exits
<1>2. StartBup(jb, init) \in Job
  BY <1>1 DEF StartBup, Programs, Results
<1>3. jb.settings.kind \in Kinds
  BY DEF Job, Settings
<1>4. QED
  BY <1>1, <1>2, <1>3 DEF StartJob, Programs, Results, Kinds

LEMMA StepKeepsType ==
  ASSUME TypeOK, NEW j \in Jobs, Climbing(j), Step(j)
  PROVE  TypeOK'
<1>0. job[j] \in Job
  BY DEF TypeOK
<1>1. \A jb \in Job : job' = [job EXCEPT ![j] = jb] => job' \in [Jobs -> Job]
  BY DEF TypeOK
<1>2. CASE Create(j)
  <2>1. PICK s \in JobSettings : job' = [job EXCEPT ![j].settings = s, ![j].stage = "posted"]
    BY <1>2 DEF Create
  <2>2. [job[j] EXCEPT !.settings = s, !.stage = "posted"] \in Job
    BY <1>0, <2>1, JobSettingsAssumption DEF Job
  <2>3. job' \in [Jobs -> Job]
    BY <2>1, <2>2 DEF TypeOK
  <2>4. QED  BY <1>2, <2>3 DEF Create, archive, TypeOK
<1>3. CASE Slot(j)
  <2>1. job' \in [Jobs -> Job]
    <3>1. CASE Start(j)
      BY <1>0, <1>1, <3>1, StartReturnsJob DEF Start, TypeOK
    <3>2. CASE job[j].exit # "none"
      <4>1. job[j].exit \in Exits
        BY <1>0, <3>2 DEF Job
      <4>2. CASE CheckingDone(j)
        BY <1>0, <1>1, <4>1, <4>2, SlotsReturnJobs DEF CheckingDone, TypeOK
      <4>3. CASE IndexingDone(j)
        BY <1>0, <1>1, <4>1, <4>3, SlotsReturnJobs DEF IndexingDone, TypeOK
      <4>4. CASE SavingDone(j)
        BY <1>0, <1>1, <4>1, <4>4, SlotsReturnJobs DEF SavingDone, TypeOK
      <4>5. CASE RecoveryInfoDone(j) \/ RsyncFinished(j)
        BY <1>0, <1>1, <4>1, <4>5, SlotsReturnJobs DEF RecoveryInfoDone, RsyncFinished, TypeOK
      <4>6. CASE VerificationDone(j)
        BY <1>0, <1>1, <4>1, <4>6, SlotsReturnJobs DEF VerificationDone, TypeOK
      <4>7. CASE RepairDone(j)
        BY <1>0, <1>1, <4>1, <4>7, SlotsReturnJobs DEF RepairDone, TypeOK
      <4>8. CASE Start(j)
        BY <3>1, <4>8
      <4>9. QED
        BY <1>3, <4>2, <4>3, <4>4, <4>5, <4>6, <4>7, <4>8 DEF Slot
    <3>3. QED
      BY <1>3, <3>1, <3>2 DEF Slot, Finished, CheckingDone, IndexingDone, SavingDone,
           RecoveryInfoDone, RsyncFinished, VerificationDone, RepairDone
  <2>2. UNCHANGED archive
    BY <1>3 DEF Slot, Start, Finished, CheckingDone, IndexingDone, SavingDone,
         RecoveryInfoDone, RsyncFinished, VerificationDone, RepairDone
  <2>3. QED  BY <2>1, <2>2 DEF archive, TypeOK
<1>4. CASE Program(j)
  <2>1. \E exit \in Exits : job' = [job EXCEPT ![j].exit = exit]
    BY <1>4 DEF Program, FsckEnds, IndexEnds, SaveEnds, ParityEnds, RepairEnds,
         GoesWrong, Ends, Exits
  <2>2. \A exit \in Exits : [job[j] EXCEPT !.exit = exit] \in Job
    BY <1>0 DEF Job
  <2>3. job' \in [Jobs -> Job]
    BY <2>1, <2>2 DEF TypeOK
  <2>4. CASE ParityEnds(j)
    <3>1. j \in snapshots
      BY <2>4 DEF ParityEnds, Ends, Climbing, HasSaved
    <3>2. QED  BY <2>3, <2>4, <3>1 DEF ParityEnds, TypeOK
  <2>5. CASE ~ParityEnds(j)
    BY <1>4, <2>3, <2>5 DEF Program, FsckEnds, IndexEnds, SaveEnds, RepairEnds,
         GoesWrong, archive, TypeOK
  <2>6. QED  BY <2>4, <2>5
<1>5. QED  BY <1>2, <1>3, <1>4 DEF Step

LEMMA OthersClimb ==
  ASSUME TypeOK, NEW j \in Jobs, Step(j), NEW k \in Jobs \ {j}, Climbing(k)
  PROVE  Climbing(k)'
<1>1. /\ job'[k] = job[k] /\ (k \in snapshots' <=> k \in snapshots)
      /\ covered \subseteq covered' /\ sound \subseteq sound'
  BY OthersStay
<1>2. QED
  BY <1>1 DEF Climbing, HasSaved, StillToSave, HasChecked

\* One case for each step of the job itself.
LEMMA StepKeepsClimbing ==
  ASSUME TypeOK, NEW j \in Jobs, Climbing(j), Step(j)
  PROVE  Climbing(j)'
<1>0. job[j] \in Job /\ job[j].settings.kind \in Kinds
  BY DEF TypeOK, Job, Settings
<1>1. CASE Create(j)
  <2>1. /\ j \notin snapshots /\ job[j].result = "none"
        /\ UNCHANGED <<snapshots, covered, sound>>
    BY <1>1 DEF Create, archive, Climbing, StillToSave
  <2>2. job'[j].stage = "posted" /\ job'[j].result = job[j].result
    BY <1>0, <1>1 DEF Create, TypeOK, Job
  <2>3. QED
    BY <2>1, <2>2 DEF Climbing, HasSaved, StillToSave, HasChecked, Programs
<1>2. CASE Slot(j)
  <2>1. UNCHANGED <<snapshots, covered, sound>>
    BY <1>2 DEF Slot, Start, Finished, CheckingDone, IndexingDone, SavingDone,
         RecoveryInfoDone, RsyncFinished, VerificationDone, RepairDone, archive
  <2>2. \A jb : job' = [job EXCEPT ![j] = jb] => job'[j] = jb
    BY DEF TypeOK
  <2>3. \A result \in Results : LET new == EmitResult(job[j], result) IN
           /\ new.stage = "done" /\ new.exit = "none" /\ new.result = result
           /\ new.settings = job[j].settings
    BY <1>0 DEF EmitResult, Job
  <2>4. \A program \in Programs : LET new == Run(job[j], program) IN
           /\ new.stage = program /\ new.exit = "none" /\ new.result = job[j].result
           /\ new.settings = job[j].settings
    BY <1>0 DEF Run, Job
  <2>5. ASSUME NEW result \in Results, job'[j] = EmitResult(job[j], result)
        PROVE  Climbing(j)'
    <3>1. /\ job'[j].stage = "done" /\ job'[j].exit = "none" /\ job'[j].result = result
          /\ job'[j].settings = job[j].settings
      BY <2>3, <2>5
    <3>2. QED
      BY <2>1, <3>1 DEF Climbing, HasSaved, StillToSave, HasChecked, Results, Programs
  <2>6. ASSUME NEW program \in Ladder(job[j].settings.kind), job'[j] = Run(job[j], program),
               job[j].stage # "done",
               program = "recovery" <=> j \in snapshots,
               program \in {"indexing", "saving", "recovery"} /\ job[j].settings.check =>
                 j \in sound
        PROVE  Climbing(j)'
    <3>1. program \in Programs
      BY <1>0 DEF Ladder, Kinds, Programs
    <3>2. /\ job'[j].stage = program /\ job'[j].exit = "none"
          /\ job'[j].result = job[j].result /\ job'[j].settings = job[j].settings
      BY <2>4, <2>6, <3>1
    <3>3. QED
      BY <2>1, <2>6, <3>1, <3>2
      DEF Climbing, HasSaved, StillToSave, HasChecked, Results, Programs
  <2>7. ASSUME job'[j] = ReportDamage(job[j])  PROVE Climbing(j)'
    BY <2>5, <2>7 DEF ReportDamage, Results
  <2>8. ASSUME NEW exit, job'[j] = SlotLastDone(job[j], exit)  PROVE Climbing(j)'
    BY <2>5, <2>8 DEF SlotLastDone, Results
  <2>9. CASE Start(j)
    <3>1. PICK tools \in Tools, init \in BOOLEAN : job'[j] = StartJob(job[j], tools, init)
      BY <2>2, <2>9 DEF Start
    <3>2. j \notin snapshots /\ job[j].stage = "posted"
      BY <2>9 DEF Start, Climbing, StillToSave
    <3>3. CASE job'[j] = EmitResult(job[j], "ErrorWithoutLog")
      BY <2>5, <3>3 DEF Results
    <3>4. CASE job[j].settings.kind = "bup" /\ job'[j] = StartBup(job[j], init)
      <4>1. CASE job'[j] = EmitResult(job[j], "ErrorWithLog")
        BY <2>5, <4>1 DEF Results
      <4>2. CASE job'[j] = Run(job[j], "checking")
        BY <2>6, <3>2, <3>4, <4>2 DEF Ladder
      <4>3. CASE ~job[j].settings.check /\ job'[j] = Run(job[j], "indexing")
        BY <2>6, <3>2, <3>4, <4>3 DEF Ladder
      <4>4. QED
        BY <3>4, <4>1, <4>2, <4>3 DEF StartBup, SlotCheckingDone
    <3>5. CASE job[j].settings.kind = "rsync" /\ job'[j] = Run(job[j], "copying")
      BY <2>6, <3>2, <3>5 DEF Ladder
    <3>6. CASE job[j].settings.kind = "verify" /\ job'[j] = Run(job[j], "verifying")
      BY <2>6, <3>2, <3>6 DEF Ladder
    <3>7. CASE job[j].settings.kind = "repair" /\ job'[j] = Run(job[j], "repairing")
      BY <2>6, <3>2, <3>7 DEF Ladder
    <3>8. QED
      BY <1>0, <3>1, <3>3, <3>4, <3>5, <3>6, <3>7 DEF StartJob, Kinds
  <2>10. ASSUME NEW program \in Programs, job[j].stage = program
         PROVE  program \in Ladder(job[j].settings.kind)
    BY <2>10 DEF Climbing
  <2>11. CASE CheckingDone(j)
    <3>1. job[j].settings.kind = "bup" /\ job[j].stage = "checking" /\ j \notin snapshots
      BY <1>0, <2>10, <2>11 DEF CheckingDone, Finished, Programs, Ladder, Kinds,
           Climbing, StillToSave
    <3>2. job'[j] = SlotCheckingDone(job[j], job[j].exit)
      BY <2>2, <2>11 DEF CheckingDone
    <3>3. CASE job[j].exit = "0"
      <4>1. j \in sound
        BY <3>1, <3>3 DEF Climbing, HasChecked
      <4>2. QED
        BY <2>6, <3>1, <3>2, <3>3, <4>1 DEF SlotCheckingDone, Ladder
    <3>4. CASE job[j].exit # "0"
      BY <2>7, <3>2, <3>4 DEF SlotCheckingDone
    <3>5. QED  BY <3>3, <3>4
  <2>12. CASE IndexingDone(j)
    <3>1. job[j].settings.kind = "bup" /\ job[j].stage = "indexing" /\ j \notin snapshots
      BY <1>0, <2>10, <2>12 DEF IndexingDone, Finished, Programs, Ladder, Kinds,
           Climbing, StillToSave
    <3>2. job[j].settings.check => j \in sound
      BY <3>1 DEF Climbing, HasChecked
    <3>3. job'[j] = SlotIndexingDone(job[j], job[j].exit)
      BY <2>2, <2>12 DEF IndexingDone
    <3>4. CASE job[j].exit = "0"
      BY <2>6, <3>1, <3>2, <3>3, <3>4 DEF SlotIndexingDone, Ladder
    <3>5. CASE job[j].exit # "0"
      BY <2>5, <3>3, <3>5 DEF SlotIndexingDone, Results
    <3>6. QED  BY <3>4, <3>5
  <2>13. CASE SavingDone(j)
    <3>1. job[j].settings.kind = "bup" /\ job[j].stage = "saving"
      BY <1>0, <2>10, <2>13 DEF SavingDone, Finished, Programs, Ladder, Kinds
    <3>2. job[j].settings.check => j \in sound
      BY <3>1 DEF Climbing, HasChecked
    <3>3. job'[j] = SlotSavingDone(job[j], job[j].exit)
      BY <2>2, <2>13 DEF SavingDone
    <3>4. CASE job[j].exit = "0" /\ job[j].settings.recovery
      <4>1. j \in snapshots
        BY <3>1, <3>4 DEF Climbing, HasSaved
      <4>2. QED
        BY <2>6, <3>1, <3>2, <3>3, <3>4, <4>1 DEF SlotSavingDone, Ladder
    <3>5. CASE job[j].exit = "0" /\ ~job[j].settings.recovery
      BY <2>5, <3>3, <3>5 DEF SlotSavingDone, Results
    <3>6. CASE job[j].exit # "0"
      BY <2>5, <3>3, <3>6 DEF SlotSavingDone, Results
    <3>7. QED  BY <3>4, <3>5, <3>6
  <2>14. CASE RecoveryInfoDone(j) \/ RsyncFinished(j)
    BY <2>2, <2>8, <2>14 DEF RecoveryInfoDone, RsyncFinished
  <2>15. CASE VerificationDone(j)
    <3>1. job'[j] = SlotVerificationDone(job[j], job[j].exit)
      BY <2>2, <2>15 DEF VerificationDone
    <3>2. QED
      BY <2>5, <2>7, <3>1 DEF SlotVerificationDone, Results
  <2>16. CASE RepairDone(j)
    BY <2>2, <2>5, <2>16 DEF RepairDone, SlotRepairDone, Results
  <2>17. QED
    BY <1>2, <2>9, <2>11, <2>12, <2>13, <2>14, <2>15, <2>16 DEF Slot
<1>3. CASE Program(j)
  <2>1. ASSUME NEW program, NEW exit, Ends(j, program, exit)
        PROVE  /\ job[j].stage = program /\ job[j].exit = "none"
               /\ job'[j].stage = program /\ job'[j].exit = exit
               /\ job'[j].result = job[j].result /\ job'[j].settings = job[j].settings
    BY <1>0, <2>1 DEF Ends, TypeOK, Job
  <2>2. CASE FsckEnds(j)
    <3>1. PICK program \in {"checking", "verifying"} : Ends(j, program, "0")
      BY <2>2 DEF FsckEnds
    <3>2. UNCHANGED <<snapshots, covered>> /\ j \in sound'
      BY <2>2 DEF FsckEnds
    <3>3. QED
      BY <2>1, <3>1, <3>2 DEF Climbing, HasSaved, StillToSave, HasChecked, Programs
  <2>3. CASE IndexEnds(j)
    <3>1. Ends(j, "indexing", "0") /\ UNCHANGED <<snapshots, covered, sound>>
      BY <2>3 DEF IndexEnds, archive
    <3>2. QED
      BY <2>1, <3>1 DEF Climbing, HasSaved, StillToSave, HasChecked, Programs
  <2>4. CASE SaveEnds(j)
    <3>1. PICK program \in {"saving", "copying"} : Ends(j, program, "0")
      BY <2>4 DEF SaveEnds
    <3>2. UNCHANGED <<covered, sound>> /\ j \in snapshots'
      BY <2>4 DEF SaveEnds
    <3>3. /\ program \in Ladder(job[j].settings.kind)
          /\ program = "saving" /\ job[j].settings.check => j \in sound
      BY <2>1, <3>1 DEF Climbing, Programs, HasChecked
    <3>4. \/ job[j].settings.kind = "bup" /\ program = "saving"
          \/ job[j].settings.kind = "rsync"
      BY <1>0, <3>3 DEF Ladder, Kinds
    <3>5. QED
      BY <2>1, <3>1, <3>2, <3>3, <3>4
      DEF Climbing, HasSaved, StillToSave, HasChecked, Programs
  <2>5. CASE ParityEnds(j)
    <3>1. Ends(j, "recovery", "0") /\ UNCHANGED <<snapshots, sound>> /\ j \in covered'
      BY <2>5 DEF ParityEnds
    <3>2. QED
      BY <2>1, <3>1 DEF Climbing, HasSaved, StillToSave, HasChecked, Programs
  <2>6. CASE RepairEnds(j)
    <3>1. PICK exit \in {"0", "100"} : Ends(j, "repairing", exit)
      BY <2>6 DEF RepairEnds
    <3>2. UNCHANGED <<snapshots, covered, sound>>
      BY <2>6 DEF RepairEnds
    <3>3. QED
      BY <2>1, <3>1, <3>2 DEF Climbing, HasSaved, StillToSave, HasChecked, Programs
  <2>7. CASE GoesWrong(j)
    <3>1. PICK program \in Programs : \E exit \in {"failed", "crashed"} : Ends(j, program, exit)
      BY <2>7 DEF GoesWrong
    <3>2. PICK exit \in {"failed", "crashed"} : Ends(j, program, exit)
      BY <3>1
    <3>3. UNCHANGED <<snapshots, covered, sound>>
      BY <2>7 DEF GoesWrong, archive
    <3>4. QED
      BY <2>1, <3>1, <3>2, <3>3 DEF Climbing, HasSaved, StillToSave, HasChecked, Programs
  <2>8. QED
    BY <1>3, <2>2, <2>3, <2>4, <2>5, <2>6, <2>7 DEF Program
<1>4. QED  BY <1>1, <1>2, <1>3 DEF Step

\* The invariant is inductive.
THEOREM InvariantsHold == Spec => []IInv
<1>1. Init => IInv
  BY DEF Init, IInv, TypeOK, NoJob, Job, Settings, Kinds, Programs, Climbing, HasSaved,
       StillToSave, HasChecked
<1>2. IInv /\ [Next]_vars => IInv'
  <2>1. SUFFICES ASSUME IInv, [Next]_vars  PROVE IInv'
    OBVIOUS
  <2>2. TypeOK /\ \A k \in Jobs : Climbing(k)
    BY <2>1 DEF IInv
  <2>3. ASSUME NEW j \in Jobs, Step(j)  PROVE IInv'
    <3>1. TypeOK'
      BY <2>2, <2>3, StepKeepsType
    <3>2. Climbing(j)'
      BY <2>2, <2>3, StepKeepsClimbing
    <3>3. ASSUME NEW k \in Jobs \ {j}  PROVE Climbing(k)'
      BY <2>2, <2>3, <3>3, OthersClimb
    <3>4. QED  BY <3>1, <3>2, <3>3 DEF IInv
  <2>4. CASE Damage
    BY <2>2, <2>4 DEF Damage, IInv, TypeOK, Climbing, HasSaved, StillToSave, HasChecked
  <2>5. CASE UNCHANGED vars
    BY <2>2, <2>5 DEF vars, IInv, TypeOK, Climbing, HasSaved, StillToSave, HasChecked
  <2>6. QED  BY <2>1, <2>3, <2>4, <2>5 DEF Next, Step
<1>3. QED  BY <1>1, <1>2, PTL DEF Spec

\* The jobs stay well typed, and recovery information covers only what was saved.
THEOREM TypeCorrect == Spec => []TypeOK
<1>1. IInv => TypeOK
  BY DEF IInv
<1>2. QED  BY <1>1, InvariantsHold, PTL

\* A plan that has its archive checked gets nothing added to it by a job that has
\* not found it sound, whatever other jobs do to the archive meanwhile.
THEOREM CheckedBeforeSaved == Spec => []NothingAddedUnchecked
<1>1. IInv => NothingAddedUnchecked
  BY DEF IInv, TypeOK, Climbing, NothingAddedUnchecked
<1>2. QED  BY <1>1, InvariantsHold, PTL

-----------------------------------------------------------------------------
(***************************************************************************)
(* The refinement.  A slot either starts the next program, which the       *)
(* promise does not see, or reports; what it may report is decided by the  *)
(* rung of the ladder on which the slot is called.                         *)
(***************************************************************************)
LEMMA SlotRunsOrReports ==
  ASSUME TypeOK, NEW j \in Jobs, Climbing(j), Slot(j)
  PROVE  /\ job[j].stage \notin {"none", "done"}
         /\ job'[j].settings = job[j].settings
         /\ \/ job'[j].stage \in Programs
            \/ /\ job'[j].stage = "done" /\ job'[j].result \in Results
               /\ job'[j].result = "NoError" =>
                    /\ j \in snapshots
                    /\ WantsRecovery(job[j].settings) => j \in covered
               /\ job'[j].result = "ErrorSuggestRepair" =>
                    /\ job[j].settings.recovery
                    /\ job[j].settings.kind \in {"bup", "verify"}
                    /\ j \notin snapshots
<1> DEFINE Claim(new) ==
      /\ new.settings = job[j].settings
      /\ \/ new.stage \in Programs
         \/ /\ new.stage = "done" /\ new.result \in Results
            /\ new.result = "NoError" =>
                 /\ j \in snapshots
                 /\ WantsRecovery(job[j].settings) => j \in covered
            /\ new.result = "ErrorSuggestRepair" =>
                 /\ job[j].settings.recovery
                 /\ job[j].settings.kind \in {"bup", "verify"}
                 /\ j \notin snapshots
<1>0. job[j] \in Job /\ job[j].settings.kind \in Kinds
  BY DEF TypeOK, Job, Settings
<1>1. job[j].stage \notin {"none", "done"}
  BY DEF Slot, Start, Finished, CheckingDone, IndexingDone, SavingDone, RecoveryInfoDone,
       RsyncFinished, VerificationDone, RepairDone, Programs
<1>2. \A jb : job' = [job EXCEPT ![j] = jb] => job'[j] = jb
  BY DEF TypeOK
<1>3. \A program \in Programs : Claim(Run(job[j], program))
  BY <1>0 DEF Run, Job
<1>4. \A result \in {"ErrorWithLog", "ErrorWithoutLog"} : Claim(EmitResult(job[j], result))
  BY <1>0 DEF EmitResult, Job, Results
<1>5. ASSUME j \in snapshots, WantsRecovery(job[j].settings) => j \in covered
      PROVE  Claim(EmitResult(job[j], "NoError"))
  BY <1>0, <1>5 DEF EmitResult, Job, Results
<1>6. ASSUME job[j].settings.kind \in {"bup", "verify"}, j \notin snapshots
      PROVE  Claim(ReportDamage(job[j]))
  <2>1. CASE job[j].settings.recovery
    <3>1. Claim(EmitResult(job[j], "ErrorSuggestRepair"))
      BY <1>0, <1>6, <2>1 DEF EmitResult, Job, Results
    <3>2. QED  BY <2>1, <3>1 DEF ReportDamage
  <2>2. CASE ~job[j].settings.recovery
    BY <1>4, <2>2 DEF ReportDamage
  <2>3. QED  BY <2>1, <2>2
<1> HIDE DEF Claim
<1>7. ASSUME NEW program \in Programs, job[j].stage = program
      PROVE  /\ program \in {"checking", "indexing", "saving", "recovery"} =>
                  job[j].settings.kind = "bup"
             /\ program = "copying"   => job[j].settings.kind = "rsync"
             /\ program = "verifying" => job[j].settings.kind = "verify"
  BY <1>0, <1>7 DEF Climbing, Ladder, Kinds
<1>8. CASE Start(j)
  <2>1. PICK tools \in Tools, init \in BOOLEAN : job'[j] = StartJob(job[j], tools, init)
    BY <1>2, <1>8 DEF Start
  <2>2. Claim(StartBup(job[j], init))
    BY <1>3, <1>4 DEF StartBup, SlotCheckingDone, Programs
  <2>3. QED
    <3>1. Claim(StartJob(job[j], tools, init))
      BY <1>0, <1>3, <1>4, <2>2 DEF StartJob, Programs, Kinds
    <3>2. QED  BY <1>1, <2>1, <3>1 DEF Claim
<1>9. CASE CheckingDone(j)
  <2>1. job[j].settings.kind = "bup" /\ j \notin snapshots
    BY <1>7, <1>9 DEF CheckingDone, Finished, Programs, Climbing, StillToSave
  <2>2. Claim(SlotCheckingDone(job[j], job[j].exit))
    BY <1>3, <1>6, <2>1 DEF SlotCheckingDone, Programs
  <2>3. QED  BY <1>1, <1>2, <1>9, <2>2 DEF CheckingDone, Claim
<1>10. CASE IndexingDone(j)
  <2>1. Claim(SlotIndexingDone(job[j], job[j].exit))
    BY <1>3, <1>4 DEF SlotIndexingDone, Programs
  <2>2. QED  BY <1>1, <1>2, <1>10, <2>1 DEF IndexingDone, Claim
<1>11. CASE SavingDone(j)
  <2>1. job[j].exit = "0" => j \in snapshots
    BY <1>11 DEF SavingDone, Finished, Climbing, HasSaved
  <2>2. Claim(SlotSavingDone(job[j], job[j].exit))
    <3>1. CASE job[j].exit # "0"
      BY <1>4, <3>1 DEF SlotSavingDone
    <3>2. CASE job[j].exit = "0" /\ job[j].settings.recovery
      BY <1>3, <3>2 DEF SlotSavingDone, Programs
    <3>3. CASE job[j].exit = "0" /\ ~job[j].settings.recovery
      BY <1>5, <2>1, <3>3 DEF SlotSavingDone, WantsRecovery
    <3>4. QED  BY <3>1, <3>2, <3>3
  <2>3. QED  BY <1>1, <1>2, <1>11, <2>2 DEF SavingDone, Claim
<1>12. ASSUME job[j].exit = "0" =>
                j \in snapshots /\ (WantsRecovery(job[j].settings) => j \in covered)
       PROVE  Claim(SlotLastDone(job[j], job[j].exit))
  <2>1. CASE job[j].exit = "0"
    BY <1>5, <1>12, <2>1 DEF SlotLastDone
  <2>2. CASE job[j].exit # "0"
    BY <1>4, <2>2 DEF SlotLastDone
  <2>3. QED  BY <2>1, <2>2
<1>13. CASE RecoveryInfoDone(j)
  <2>1. Claim(SlotLastDone(job[j], job[j].exit))
    BY <1>12, <1>13 DEF RecoveryInfoDone, Finished, Climbing, HasSaved
  <2>2. QED  BY <1>1, <1>2, <1>13, <2>1 DEF RecoveryInfoDone, Claim
<1>14. CASE RsyncFinished(j)
  <2>1. job[j].settings.kind = "rsync"
    BY <1>7, <1>14 DEF RsyncFinished, Finished, Programs
  <2>2. Claim(SlotLastDone(job[j], job[j].exit))
    BY <1>12, <1>14, <2>1 DEF RsyncFinished, Finished, Climbing, HasSaved, WantsRecovery
  <2>3. QED  BY <1>1, <1>2, <1>14, <2>2 DEF RsyncFinished, Claim
<1>15. CASE VerificationDone(j)
  <2>1. job[j].settings.kind = "verify" /\ j \notin snapshots
    BY <1>7, <1>15 DEF VerificationDone, Finished, Programs, Climbing, StillToSave
  <2>2. Claim(SlotVerificationDone(job[j], job[j].exit))
    BY <1>4, <1>6, <2>1 DEF SlotVerificationDone
  <2>3. QED  BY <1>1, <1>2, <1>15, <2>2 DEF VerificationDone, Claim
<1>16. CASE RepairDone(j)
  <2>1. Claim(SlotRepairDone(job[j]))
    BY <1>4 DEF SlotRepairDone
  <2>2. QED  BY <1>1, <1>2, <1>16, <2>1 DEF RepairDone, Claim
<1>17. QED
  BY <1>8, <1>9, <1>10, <1>11, <1>13, <1>14, <1>15, <1>16 DEF Slot

LEMMA PromisedIsTask ==
  ASSUME NEW jb \in Job, jb.stage = "done" => jb.result # "none"
  PROVE  Promised(jb) \in Promise!Tasks
<1>1. Purpose(jb.settings.kind) \in {"backup", "check", "repair"}
  BY DEF Purpose, Job, Settings, Kinds
<1>2. Promised(jb).repairable \in BOOLEAN
  BY DEF Promised, Job, Settings
<1>3. Promised(jb).outcome \in {"none", "running"} \cup Results
  BY DEF Promised, Job
<1>4. QED
  BY <1>1, <1>2, <1>3 DEF Promised, Promise!Tasks, Promise!Results, Results

\* A job does for the promise what it does for itself: it changes its own task only.
LEMMA TaskOf ==
  ASSUME TypeOK, NEW j \in Jobs, \A k \in Jobs \ {j} : job'[k] = job[k]
  PROVE  /\ Task' = [Task EXCEPT ![j] = Promised(job'[j])]
         /\ \A k \in Jobs : Task[k] = Promised(job[k])
BY DEF Task

LEMMA CreationBegins ==
  ASSUME IInv, IInv', NEW j \in Jobs, Create(j)
  PROVE  Promise!Begin(j)
<1>1. TypeOK /\ Climbing(j) /\ job[j] \in Job
  BY DEF IInv, TypeOK
<1>2. \A k \in Jobs \ {j} : job'[k] = job[k]
  BY <1>1, OthersStay DEF Step
<1>3. job'[j].stage = "posted" /\ job[j].stage = "none"
  BY <1>1 DEF Create, TypeOK, Job
<1>4. Promised(job'[j]) \in Promise!Tasks
  <2>1. job'[j] \in Job /\ (job'[j].stage = "done" => job'[j].result # "none")
    BY DEF IInv, TypeOK, Climbing
  <2>2. QED  BY <2>1, PromisedIsTask
<1>5. Promised(job'[j]).outcome = "running" /\ Task[j].outcome = "none"
  <2>1. Promised(job'[j]).outcome = "running" /\ Promised(job[j]).outcome = "none"
    BY <1>3 DEF Promised
  <2>2. QED  BY <1>1, <1>2, <2>1, TaskOf
<1>6. Task' = [Task EXCEPT ![j] = Promised(job'[j])]
  BY <1>1, <1>2, TaskOf
<1>7. Kept' = Kept
  <2>1. j \notin snapshots /\ UNCHANGED <<snapshots, covered>>
    BY <1>1, <1>3 DEF Create, archive, Climbing, StillToSave
  <2>2. QED  BY <1>1, <1>2, <2>1 DEF Kept, TypeOK
<1>8. QED  BY <1>4, <1>5, <1>6, <1>7 DEF Promise!Begin

LEMMA SlotsReport ==
  ASSUME IInv, NEW j \in Jobs, Slot(j)
  PROVE  Promise!Report(j) \/ UNCHANGED <<Task, Kept>>
<1>1. TypeOK /\ Climbing(j) /\ job[j] \in Job
  BY DEF IInv, TypeOK
<1>2. \A k \in Jobs \ {j} : job'[k] = job[k]
  BY <1>1, OthersStay DEF Step
<1>3. /\ job'[j].settings = job[j].settings
      /\ job[j].stage \notin {"none", "done"}
  BY <1>1, SlotRunsOrReports
<1>4. Kept' = Kept
  <2>1. UNCHANGED <<snapshots, covered>>
    BY DEF Slot, Start, Finished, CheckingDone, IndexingDone, SavingDone,
       RecoveryInfoDone, RsyncFinished, VerificationDone, RepairDone, archive
  <2>2. \A k \in Jobs : job'[k].settings = job[k].settings
    BY <1>2, <1>3
  <2>3. QED  BY <1>1, <2>1, <2>2 DEF Kept, TypeOK
<1>5. /\ Task' = [Task EXCEPT ![j] = Promised(job'[j])]
      /\ Task[j] = Promised(job[j])
  BY <1>1, <1>2, TaskOf
<1>6. Promised(job[j]).outcome = "running"
  BY <1>3 DEF Promised
<1>7. CASE job'[j].stage \in Programs
  <2>1. Promised(job'[j]).outcome = "running"
    BY <1>7 DEF Promised, Programs
  <2>2. Promised(job'[j]) = Promised(job[j])
    BY <1>3, <1>6, <2>1 DEF Promised
  <2>3. Task' = Task
    BY <1>5, <2>2 DEF Task
  <2>4. QED  BY <1>4, <2>3
<1>8. CASE job'[j].stage \notin Programs
  <2>1. /\ job'[j].stage = "done" /\ job'[j].result \in Results
        /\ job'[j].result = "NoError" =>
             /\ j \in snapshots
             /\ WantsRecovery(job[j].settings) => j \in covered
        /\ job'[j].result = "ErrorSuggestRepair" =>
             /\ job[j].settings.recovery
             /\ job[j].settings.kind \in {"bup", "verify"}
             /\ j \notin snapshots
    BY <1>1, <1>8, SlotRunsOrReports
  <2> DEFINE result == job'[j].result
  <2>2. Promised(job'[j]) = [Promised(job[j]) EXCEPT !.outcome = result]
    BY <1>3, <2>1 DEF Promised
  <2>3. Task' = [Task EXCEPT ![j].outcome = result]
    BY <1>5, <2>2
  <2>4. Promise!MayReport(j, result)
    <3>1. result = "NoError" => Promised(job[j]).purpose = "backup" /\ j \in Kept
      BY <1>1, <2>1 DEF Kept, Promised, Purpose, Climbing
    <3>2. result = "ErrorSuggestRepair" => Promised(job[j]).repairable /\ j \notin Kept
      BY <2>1 DEF Kept, Promised
    <3>3. QED  BY <1>5, <3>1, <3>2 DEF Promise!MayReport
  <2>5. result \in Promise!Results
    BY <2>1 DEF Results, Promise!Results
  <2> HIDE DEF result
  <2>6. QED  BY <1>4, <1>5, <1>6, <2>3, <2>4, <2>5 DEF Promise!Report
<1>9. QED  BY <1>7, <1>8

LEMMA ProgramsKeep ==
  ASSUME IInv, IInv', NEW j \in Jobs, Program(j)
  PROVE  Promise!Keep
<1>1. TypeOK /\ Climbing(j) /\ job[j] \in Job
  BY DEF IInv, TypeOK
<1>2. /\ \A k \in Jobs \ {j} : job'[k] = job[k]
      /\ snapshots \subseteq snapshots' /\ covered \subseteq covered'
  BY <1>1, OthersStay DEF Step
<1>3. \E program \in Programs, exit \in Exits : Ends(j, program, exit)
  BY DEF Program, FsckEnds, IndexEnds, SaveEnds, ParityEnds, RepairEnds, GoesWrong,
     Programs, Exits
<1>4. /\ job'[j].settings = job[j].settings
      /\ job'[j].stage = job[j].stage /\ job[j].stage \in Programs
  BY <1>1, <1>3 DEF Ends, TypeOK, Job
<1>5. Promised(job'[j]) = Promised(job[j])
  BY <1>4 DEF Promised, Programs
<1>6. Task' = Task
  BY <1>1, <1>2, <1>5, TaskOf DEF Task
<1>7. \A k \in Jobs : job'[k].settings = job[k].settings
  BY <1>2, <1>4
<1>8. Kept \subseteq Kept'
  BY <1>1, <1>2, <1>7 DEF Kept, TypeOK
<1>9. Kept' \in SUBSET {k \in Jobs : Task[k].purpose = "backup"}
  <2>1. \A k \in Kept' : k \in Jobs /\ job'[k].settings.kind \in {"bup", "rsync"}
    BY DEF Kept, IInv, TypeOK, Climbing
  <2>2. \A k \in Kept' : Task[k].purpose = "backup"
    BY <1>7, <2>1 DEF Task, Promised, Purpose
  <2>3. QED  BY <2>1, <2>2
<1>10. Kept' = Kept \cup Kept'
  BY <1>8
<1>11. QED  BY <1>6, <1>9, <1>10 DEF Promise!Keep

\* The jobs keep the promise on which the executors rely: every step of a job is a
\* step of the promise or not seen by it.
THEOREM PromiseIsKept == Spec => KeepsPromise
<1>1. Init => Promise!Init
  <2>1. Promised(NoJob) = Promise!NoTask
    <3>1. /\ NoJob.settings.kind = "bup" /\ NoJob.settings.recovery = FALSE
          /\ NoJob.stage = "none"
      BY DEF NoJob
    <3>2. Purpose("bup") = "backup"
      BY DEF Purpose
    <3>3. QED  BY <3>1, <3>2 DEF Promised, Promise!NoTask
  <2>2. Init => Task = [j \in Jobs |-> Promise!NoTask] /\ Kept = {}
    BY <2>1 DEF Init, Task, Kept
  <2>3. QED  BY <2>2 DEF Promise!Init
<1>2. IInv /\ IInv' /\ [Next]_vars => [Promise!Next]_(Promise!promise)
  <2>1. SUFFICES ASSUME IInv, IInv', [Next]_vars  PROVE Promise!Next \/ UNCHANGED <<Task, Kept>>
    BY DEF Promise!promise
  <2>2. ASSUME NEW j \in Jobs, Create(j)  PROVE Promise!Next
    BY <2>1, <2>2, CreationBegins DEF Promise!Next
  <2>3. ASSUME NEW j \in Jobs, Slot(j)  PROVE Promise!Next \/ UNCHANGED <<Task, Kept>>
    BY <2>1, <2>3, SlotsReport DEF Promise!Next
  <2>4. ASSUME NEW j \in Jobs, Program(j)  PROVE Promise!Next
    BY <2>1, <2>4, ProgramsKeep DEF Promise!Next
  <2>5. CASE Damage
    BY <2>5 DEF Damage, Task, Kept
  <2>6. CASE UNCHANGED vars
    BY <2>6 DEF vars, Task, Kept
  <2>7. QED  BY <2>1, <2>2, <2>3, <2>4, <2>5, <2>6 DEF Next
<1>3. QED
  BY <1>1, <1>2, InvariantsHold, PTL DEF Spec, KeepsPromise, Promise!Safety

=============================================================================
