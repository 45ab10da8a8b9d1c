--------------------------- MODULE SelfUpdateProofs ---------------------------
(***************************************************************************)
(* The activation of self-updates, for any number of plans, versions,      *)
(* helpers, failing operations and losses of power.                        *)
(***************************************************************************)
EXTENDS SelfUpdate, TLAPS

(* What may be installed so far: the binary the machine came with and the  *)
(* staged binaries that a plan vouches for.                                *)
Installable == {First} \union {Target[p] : p \in disk.planned}

Backed   == {"stop", "copy", "copy2", "remove", "rename", "start", "mark",
             "rcopy", "rcopy2", "rremove", "rrename", "rstart"}
Swapping == {"copy2", "remove", "rename"}
Undoing  == {"rcopy2", "rremove", "rrename"}

(* Past its backup a helper holds a complete copy of what it found; before *)
(* that, its plan was verified, and no two helpers write the same backup.  *)
BackupsHold ==
  \A h \in Helpers :
    /\ At(h, "backup") => PlanOf(h) \in disk.planned
    /\ At(h, "backup2") => /\ PlanOf(h) \in disk.planned
                           /\ helpers[h].sum \in Installable
                           /\ disk.backup[PlanOf(h)] = Torn
    /\ helpers[h].at \in Backed =>
         /\ PlanOf(h) \in disk.planned
         /\ helpers[h].sum \in Installable
         /\ disk.backup[PlanOf(h)] = helpers[h].sum

OneWriterEach ==
  \A h, g \in Helpers :
    /\ At(h, "backup2") /\ At(g, "backup2") /\ PlanOf(h) = PlanOf(g) => h = g
    /\ helpers[h].at \in Swapping /\ helpers[g].at \in Swapping => h = g
    /\ helpers[h].at \in Undoing /\ helpers[g].at \in Undoing => h = g

(* The temporary files belong to the one helper that created them.         *)
TempsOwned ==
  \A h \in Helpers :
    /\ At(h, "copy2") => disk.newTmp = Torn
    /\ At(h, "remove") \/ At(h, "rename") => disk.newTmp = Target[PlanOf(h)]
    /\ At(h, "rcopy2") => disk.oldTmp = Torn
    /\ At(h, "rremove") \/ At(h, "rrename") => disk.oldTmp = helpers[h].sum

IInv ==
  TypeOK /\ BackupsHold /\ OneWriterEach /\ TempsOwned /\ OnlyVerified /\ NeverLost
-----------------------------------------------------------------------------
DiskRecords ==
  [binary : Files, newTmp : Files, oldTmp : Files, staged : SUBSET Plans,
   planned : SUBSET Plans, helper : SUBSET Plans, paced : SUBSET Plans,
   backup : [Plans -> Files], outcome : [Plans -> Verdicts \union {"none"}],
   outcomeTmp : SUBSET Plans, highWater : Nat]
HelperRecords == [at : Steps, plan : Plans, sum : Files, verdict : Verdicts]

LEMMA StatusOfHelper ==
  ASSUME TypeOK, NEW h \in Helpers
  PROVE  /\ helpers[h] = Idle \/ helpers[h] \in HelperRecords
         /\ \A a \in Steps : At(h, a) => helpers[h] \in HelperRecords /\ PlanOf(h) \in Plans
         /\ helpers[h].at = "idle" \/ helpers[h].at \in Steps
BY DEF TypeOK, HelperRecords, At, PlanOf, Idle, Steps

(* What a helper's step does to the helpers: it moves h and nobody else.   *)
LEMMA MoveTyped ==
  ASSUME TypeOK, NEW h \in Helpers, helpers[h] \in HelperRecords, NEW a \in Steps
  PROVE  /\ Goto(h, a) => helpers' \in [Helpers -> {Idle} \union HelperRecords]
         /\ \A v \in Verdicts :
              Conclude(h, v) => helpers' \in [Helpers -> {Idle} \union HelperRecords]
BY DEF TypeOK, HelperRecords, Goto, Conclude, Steps

(* A promotion: a temporary file takes the place of the binary.            *)
LEMMA DiskTypes ==
  ASSUME TypeOK
  PROVE  /\ [disk EXCEPT !.binary = disk.newTmp, !.newTmp = None] \in DiskRecords
         /\ [disk EXCEPT !.newTmp = None] \in DiskRecords
         /\ [disk EXCEPT !.binary = disk.oldTmp, !.oldTmp = None] \in DiskRecords
         /\ [disk EXCEPT !.oldTmp = None] \in DiskRecords
BY DEF TypeOK, DiskRecords, Files

(* Writing or removing the backup of a plan.                               *)
LEMMA BackupTypes ==
  ASSUME TypeOK, NEW p \in Plans, NEW f \in Files
  PROVE  /\ disk \in DiskRecords
         /\ [disk EXCEPT !.backup[p] = f] \in DiskRecords
<1> DEFINE written == [disk.backup EXCEPT ![p] = f]
<1>1. written \in [Plans -> Files] /\ disk \in DiskRecords
  BY DEF TypeOK, DiskRecords
<1>2. [disk EXCEPT !.backup = written] \in DiskRecords
  <2> HIDE DEF written
  <2> QED BY <1>1 DEF DiskRecords
<1> QED BY <1>1, <1>2

LEMMA InitTyped == Init => TypeOK
<1> SUFFICES ASSUME Init PROVE TypeOK
  OBVIOUS
<1>1. disk \in [binary : Files, newTmp : Files, oldTmp : Files, staged : SUBSET Plans,
               planned : SUBSET Plans, helper : SUBSET Plans, paced : SUBSET Plans,
               backup : [Plans -> Files], outcome : [Plans -> Verdicts \union {"none"}],
               outcomeTmp : SUBSET Plans, highWater : Nat]
  BY DEF Init, Files, Versions
<1>2. service \in [runs : Files, scm : BOOLEAN, stray : BOOLEAN]
  BY DEF Init, Files, Versions
<1>3. launched \in [Plans -> Nat] /\ faults \in 0..MaxFaults /\ crashes \in 0..MaxCrashes /\ manual \in 0..MaxManual
  BY LimitsAssumption DEF Init
<1>4. blocked \in BOOLEAN /\ astray \in BOOLEAN /\ meddled \subseteq Helpers
  BY DEF Init
<1>5. /\ agent = Idle /\ helpers \in [Helpers -> {Idle}]
      /\ reported \in [Plans -> {"nothing", "failed", "staged"}]
  BY DEF Init
<1> QED BY <1>1, <1>2, <1>3, <1>4, <1>5 DEF TypeOK

LEMMA AgentTyped == TypeOK /\ AgentStep => TypeOK'
<1> USE DEF overlaps
<1> SUFFICES ASSUME TypeOK PROVE AgentStep => TypeOK'
  OBVIOUS
<1>1. ASSUME NEW p \in Plans, CommitStage(p) PROVE TypeOK'
  BY <1>1 DEF CommitStage, TypeOK
<1>2. CASE WritePlan
  BY <1>2, LimitsAssumption DEF WritePlan, Works, Fails, TypeOK, Idle
<1>3. CASE Submit
  BY <1>3 DEF Submit, TypeOK, Idle
<1>4. CASE Sweep
  BY <1>4 DEF Sweep, TypeOK, Idle
<1>5. CASE PrepareHelper
  BY <1>5 DEF PrepareHelper, TypeOK, Idle
<1>6. CASE Launch
  <2>1. agent.plan \in Plans /\ StartOf(agent.plan) \in HelperRecords
    BY <1>6 DEF Launch, StartOf, HelperRecords, TypeOK, Idle, Steps, Verdicts, Files
  <2>2. helpers' \in [Helpers -> {Idle} \union HelperRecords]
    BY <1>6, <2>1 DEF Launch, TypeOK, HelperRecords
  <2>3. launched' \in [Plans -> Nat] /\ faults' \in 0..MaxFaults
    BY <1>6, <2>1, LimitsAssumption DEF Launch, TypeOK, Works, Fails
  <2>4. meddled' = meddled /\ astray' \in BOOLEAN
    BY <1>6 DEF Launch, TypeOK
  <2>5. disk' = disk \/ disk' = [disk EXCEPT !.helper = @ \ {agent.plan}]
    BY <1>6 DEF Launch
  <2> QED
    BY <1>6, <2>2, <2>3, <2>4, <2>5 DEF Launch, TypeOK, HelperRecords
<1> QED BY <1>1, <1>2, <1>3, <1>4, <1>5, <1>6 DEF AgentStep

LEMMA HelperTyped ==
  ASSUME TypeOK, NEW h \in Helpers, HelperStep(h)
  PROVE  TypeOK'
<1> USE DEF At, PlanOf, OnlyDisk, Works, Fails
<1>0. meddled' \subseteq Helpers /\ astray' \in BOOLEAN
  BY DEF HelperStep, Meddle, TypeOK
<1> USE <1>0
<1>1. helpers[h] \in HelperRecords /\ PlanOf(h) \in Plans
  BY StatusOfHelper
     DEF Steps, HelperStep, Operation, Verify, BackupBegin, BackupEnd, StopService, CopyBegin,
         CopyEnd, Remove, Rename, Start, Mark, RollbackBegin, RollbackEnd,
         RollbackRemove, RollbackRename, RollbackStart, RecordBegin, RecordEnd
<1>2. CASE Verify(h)
  BY <1>1, <1>2, MoveTyped, LimitsAssumption
     DEF Verify, TypeOK, HelperRecords, Steps, Verdicts
<1>3. CASE BackupBegin(h)
  <2>1. disk.binary \in Files /\ PlanOf(h) \in Plans
    BY <1>1 DEF TypeOK
  <2>2. helpers' \in [Helpers -> {Idle} \union HelperRecords]
    <3>1. [helpers EXCEPT ![h].at = "backup2", ![h].sum = disk.binary]
            \in [Helpers -> {Idle} \union HelperRecords]
      BY <1>1, <2>1 DEF TypeOK, HelperRecords, Steps
    <3>2. Conclude(h, "failed") => helpers' \in [Helpers -> {Idle} \union HelperRecords]
      BY <1>1, MoveTyped DEF Verdicts, Steps
    <3> QED BY <1>3, <3>1, <3>2 DEF BackupBegin
  <2>3. disk' \in DiskRecords
    <3>1. disk' = disk \/ disk' = [disk EXCEPT !.backup[PlanOf(h)] = Torn]
      BY <1>3 DEF BackupBegin
    <3>2. Torn \in Files
      BY DEF Files
    <3> HIDE DEF PlanOf
    <3> QED BY <2>1, <3>1, <3>2, BackupTypes
  <2>4. UNCHANGED << faults, service, agent, blocked, reported, launched, crashes, manual >>
    BY <1>3 DEF BackupBegin
  <2> QED
    BY <2>2, <2>3, <2>4 DEF TypeOK, DiskRecords, HelperRecords
<1>4. CASE BackupEnd(h)
  <2>1. helpers[h].sum \in Files
    BY <1>1 DEF HelperRecords
  <2>2. helpers' \in [Helpers -> {Idle} \union HelperRecords]
    BY <1>1, <1>4, MoveTyped DEF BackupEnd, Steps, Verdicts
  <2>3. disk' \in DiskRecords
    BY <1>1, <1>4, <2>1, BackupTypes DEF BackupEnd, Files
  <2>4. faults' \in 0..MaxFaults
    BY <1>4, LimitsAssumption DEF BackupEnd, TypeOK
  <2>5. UNCHANGED << service, agent, blocked, reported, launched, crashes, manual >>
    BY <1>4 DEF BackupEnd
  <2> QED
    BY <2>2, <2>3, <2>4, <2>5 DEF TypeOK, DiskRecords, HelperRecords
<1>5. CASE StopService(h)
  <2>1. helpers' \in [Helpers -> {Idle} \union HelperRecords]
    BY <1>1, <1>5, MoveTyped DEF StopService, Steps, Verdicts
  <2>2. service' \in [runs : Files, scm : BOOLEAN, stray : BOOLEAN]
    BY <1>5 DEF StopService, TypeOK, Files
  <2>3. agent' = agent \/ agent' = Idle
    BY <1>5 DEF StopService
  <2> QED
    BY <1>5, <2>1, <2>2, <2>3, LimitsAssumption DEF StopService, TypeOK, HelperRecords
<1>6. CASE CopyBegin(h)
  BY <1>1, <1>6, MoveTyped, LimitsAssumption
     DEF CopyBegin, TypeOK, HelperRecords, Steps, Verdicts, Files
<1>7. CASE CopyEnd(h)
  BY <1>1, <1>7, MoveTyped, LimitsAssumption
     DEF CopyEnd, TypeOK, HelperRecords, Steps, Verdicts, Files, Versions
<1>8. CASE Remove(h)
  BY <1>1, <1>8, MoveTyped, LimitsAssumption
     DEF Remove, TypeOK, HelperRecords, Steps, Verdicts, Files
<1>9. CASE Rename(h)
  <2>1. helpers' \in [Helpers -> {Idle} \union HelperRecords]
    BY <1>1, <1>9, MoveTyped DEF Rename, Steps
  <2>2. disk' \in DiskRecords
    BY <1>9, DiskTypes DEF Rename
  <2> QED
    BY <1>9, <2>1, <2>2, LimitsAssumption DEF Rename, TypeOK, DiskRecords, HelperRecords
<1>10. CASE Start(h)
  <2>1. service' \in [runs : Files, scm : BOOLEAN, stray : BOOLEAN]
    BY <1>10 DEF Start, StartService, TypeOK
  <2>2. helpers' \in [Helpers -> {Idle} \union HelperRecords]
    BY <1>1, <1>10, MoveTyped DEF Start, StartService, Steps, Verdicts
  <2>3. faults' \in 0..MaxFaults
    BY <1>10, LimitsAssumption DEF Start, StartService, TypeOK
  <2>4. UNCHANGED << disk, agent, blocked, reported, launched, crashes, manual >>
    BY <1>10 DEF Start, StartService
  <2> QED
    BY <2>1, <2>2, <2>3, <2>4 DEF TypeOK, HelperRecords
<1>11. CASE Mark(h)
  BY <1>1, <1>11, MoveTyped, LimitsAssumption, VersionsAssumption
     DEF Mark, TypeOK, HelperRecords, Steps, Verdicts
<1>12. CASE RollbackBegin(h)
  BY <1>1, <1>12, MoveTyped, LimitsAssumption
     DEF RollbackBegin, TypeOK, HelperRecords, Steps, Verdicts, Files
<1>13. CASE RollbackEnd(h)
  BY <1>1, <1>13, MoveTyped, LimitsAssumption
     DEF RollbackEnd, TypeOK, HelperRecords, Steps, Verdicts, Files
<1>14. CASE RollbackRemove(h)
  BY <1>1, <1>14, MoveTyped, LimitsAssumption
     DEF RollbackRemove, TypeOK, HelperRecords, Steps, Verdicts, Files
<1>15. CASE RollbackRename(h)
  <2>1. helpers' \in [Helpers -> {Idle} \union HelperRecords]
    BY <1>1, <1>15, MoveTyped DEF RollbackRename, Steps, Verdicts
  <2>2. disk' \in DiskRecords
    BY <1>15, DiskTypes DEF RollbackRename
  <2> QED
    BY <1>15, <2>1, <2>2, LimitsAssumption
       DEF RollbackRename, TypeOK, DiskRecords, HelperRecords
<1>16. CASE RollbackStart(h)
  <2>1. service' \in [runs : Files, scm : BOOLEAN, stray : BOOLEAN]
    BY <1>16 DEF RollbackStart, StartService, TypeOK
  <2>2. helpers' \in [Helpers -> {Idle} \union HelperRecords]
    BY <1>1, <1>16, MoveTyped DEF RollbackStart, StartService, Steps, Verdicts
  <2>3. faults' \in 0..MaxFaults
    BY <1>16, LimitsAssumption DEF RollbackStart, StartService, TypeOK
  <2>4. UNCHANGED << disk, agent, blocked, reported, launched, crashes, manual >>
    BY <1>16 DEF RollbackStart, StartService
  <2> QED
    BY <2>1, <2>2, <2>3, <2>4 DEF TypeOK, HelperRecords
<1>17. CASE RecordBegin(h)
  BY <1>1, <1>17, MoveTyped, LimitsAssumption
     DEF RecordBegin, TypeOK, HelperRecords, Steps, Verdicts
<1>18. CASE RecordEnd(h)
  <2>1. helpers' \in [Helpers -> {Idle} \union HelperRecords]
    BY <1>1, <1>18 DEF RecordEnd, TypeOK, HelperRecords
  <2>2. disk' \in DiskRecords
    <3> DEFINE p == helpers[h].plan
               v == helpers[h].verdict
               noted == [disk.outcome EXCEPT ![p] = v]
    <3>1. p \in Plans /\ v \in Verdicts
      BY <1>1 DEF HelperRecords
    <3>2. noted \in [Plans -> Verdicts \union {"none"}]
      BY <3>1 DEF TypeOK
    <3>3. \/ disk' = [disk EXCEPT !.outcomeTmp = @ \ {p}, !.outcome = noted]
          \/ disk' = [disk EXCEPT !.outcomeTmp = @ \ {p}]
      BY <1>18 DEF RecordEnd
    <3>4. disk \in DiskRecords
      BY DEF TypeOK, DiskRecords
    <3>5. /\ [disk EXCEPT !.outcomeTmp = @ \ {p}, !.outcome = noted] \in DiskRecords
          /\ [disk EXCEPT !.outcomeTmp = @ \ {p}] \in DiskRecords
      <4> HIDE DEF p, noted
      <4> QED BY <3>2, <3>4 DEF DiskRecords
    <3> QED BY <3>3, <3>5
  <2> QED
    BY <1>18, <2>1, <2>2, LimitsAssumption DEF RecordEnd, TypeOK, DiskRecords, HelperRecords
<1> QED
  BY <1>2, <1>3, <1>4, <1>5, <1>6, <1>7, <1>8, <1>9, <1>10, <1>11, <1>12, <1>13,
     <1>14, <1>15, <1>16, <1>17, <1>18 DEF HelperStep, Operation

LEMMA MachineTyped ==
  TypeOK /\ (RetryDue \/ Unblock \/ PowerLoss \/ ScmStart) => TypeOK'
<1> SUFFICES ASSUME TypeOK PROVE RetryDue \/ Unblock \/ PowerLoss \/ ScmStart => TypeOK'
  OBVIOUS
<1>1. CASE RetryDue
  BY <1>1 DEF RetryDue, overlaps, TypeOK
<1>2. CASE Unblock
  BY <1>2 DEF Unblock, overlaps, TypeOK
<1>3. CASE PowerLoss
  <2>1. service' \in [runs : Files, scm : BOOLEAN, stray : BOOLEAN]
    BY <1>3 DEF PowerLoss, TypeOK, Files
  <2>2. helpers' \in [Helpers -> {Idle}]
    BY <1>3 DEF PowerLoss
  <2> QED
    BY <1>3, <2>1, <2>2, LimitsAssumption DEF PowerLoss, TypeOK
<1>4. CASE ScmStart
  BY <1>4 DEF ScmStart, overlaps, TypeOK, Files
<1> QED BY <1>1, <1>2, <1>3, <1>4

LEMMA ActivateTyped ==
  ASSUME TypeOK, NEW h \in Helpers, NEW p \in Plans, Activate(h, p)
  PROVE  TypeOK'
BY LimitsAssumption DEF Activate, StartOf, TypeOK, Steps, Verdicts, Files

LEMMA NextTyped == TypeOK /\ [Next]_vars => TypeOK'
<1> SUFFICES ASSUME TypeOK, [Next]_vars PROVE TypeOK'
  OBVIOUS
<1>1. CASE UNCHANGED vars
  BY <1>1 DEF vars, overlaps, TypeOK
<1> QED
  BY <1>1, AgentTyped, HelperTyped, ActivateTyped, MachineTyped DEF Next

-----------------------------------------------------------------------------
(* The type invariant holds for every number of plans and helpers.         *)
THEOREM TypeCorrect == Spec => []TypeOK
BY InitTyped, NextTyped, PTL DEF Spec

-----------------------------------------------------------------------------
(* Binaries that may be installed are versions, never a torn file.         *)
LEMMA InstallableAreVersions ==
  ASSUME TypeOK
  PROVE  /\ Installable \subseteq Versions
         /\ None \notin Versions /\ Torn \notin Versions
BY VersionsAssumption, NoFileAssumption DEF TypeOK, Installable, Versions

(* A helper that moves takes its plan and its checksum along.              *)
Moved(h, a) ==
  /\ helpers'[h].at = a
  /\ helpers'[h].plan = helpers[h].plan /\ helpers'[h].sum = helpers[h].sum
  /\ \A g \in Helpers \ {h} : helpers'[g] = helpers[g]

LEMMA MoveEffect ==
  ASSUME TypeOK, NEW h \in Helpers, helpers[h] \in HelperRecords
  PROVE  /\ \A a \in Steps : Goto(h, a) => Moved(h, a)
         /\ \A v \in Verdicts : Conclude(h, v) => Moved(h, "report")
BY DEF TypeOK, HelperRecords, Goto, Conclude, Moved

(* A step that touches no binary, no copy and no plan.                     *)
Untouched ==
  /\ disk'.binary = disk.binary /\ disk'.newTmp = disk.newTmp
  /\ disk'.oldTmp = disk.oldTmp /\ disk'.backup = disk.backup
  /\ disk'.planned = disk.planned

(* What the steps after the backup do to the files, all others unchanged.  *)
Kept == disk'.backup = disk.backup /\ disk'.planned = disk.planned
KeptNew == Kept /\ disk'.newTmp = disk.newTmp
KeptOld == Kept /\ disk'.oldTmp = disk.oldTmp

(* A file that is not there has no owner, a complete backup no writer.     *)
LEMMA Ownership ==
  ASSUME IInv, NEW g \in Helpers
  PROVE  /\ disk.newTmp = None => helpers[g].at \notin Swapping
         /\ disk.oldTmp = None => helpers[g].at \notin Undoing
         /\ At(g, "backup2") \/ helpers[g].at \in Backed =>
              /\ PlanOf(g) \in Plans
              /\ disk.backup[PlanOf(g)] # None
              /\ disk.backup[PlanOf(g)] = Torn => At(g, "backup2")
<1>1. \A v \in Installable : v # None /\ v # Torn
  BY InstallableAreVersions DEF IInv
<1>2. \A p \in Plans : Target[p] # None /\ Target[p] # Torn
  BY VersionsAssumption, NoFileAssumption
<1>3. At(g, "backup2") \/ helpers[g].at \in Backed => PlanOf(g) \in Plans
  BY DEF IInv, TypeOK, BackupsHold
<1> QED
  BY <1>1, <1>2, <1>3, NoFileAssumption
     DEF IInv, BackupsHold, TempsOwned, Backed, Swapping, Undoing, At, PlanOf

LEMMA HelperSafe ==
  ASSUME IInv, NEW h \in Helpers, HelperStep(h), TypeOK'
  PROVE  IInv'
<1> USE DEF At, PlanOf, Moved, Untouched, Kept, KeptNew, KeptOld
<1>1. TypeOK /\ helpers[h] \in HelperRecords /\ PlanOf(h) \in Plans
  BY StatusOfHelper
     DEF IInv, Steps, HelperStep, Operation, Verify, BackupBegin, BackupEnd, StopService, CopyBegin,
         CopyEnd, Remove, Rename, Start, Mark, RollbackBegin, RollbackEnd,
         RollbackRemove, RollbackRename, RollbackStart, RecordBegin, RecordEnd
<1>2. \A p \in Installable : p \in Versions /\ p # None /\ p # Torn
  BY <1>1, InstallableAreVersions
<1>3. \A p \in Plans : Target[p] # None /\ Target[p] # Torn
  BY VersionsAssumption, NoFileAssumption
<1>4. CASE Verify(h)
  <2>1. /\ \/ Moved(h, "backup") /\ PlanOf(h) \in disk.planned
           \/ Moved(h, "report")
        /\ Untouched /\ service' = service
        /\ helpers[h].at = "verify"
    BY <1>1, <1>4, MoveEffect DEF Verify, OnlyDisk, Steps, Verdicts, TypeOK
  <2>2. BackupsHold'
    BY <1>1, <1>2, <2>1, Ownership DEF IInv, BackupsHold, Backed, Installable
  <2>3. OneWriterEach' /\ TempsOwned'
    BY <1>1, <1>2, <1>3, <2>1, Ownership
       DEF IInv, BackupsHold, OneWriterEach, TempsOwned, Backed, Swapping, Undoing
  <2> QED
    BY <1>1, <1>2, <1>3, <2>1, <2>2, <2>3
       DEF IInv, BackupsHold, TempsOwned, OnlyVerified, NeverLost, Backed, Running,
           Installable
<1>5. CASE BackupBegin(h)
  <2>1. /\ \/ /\ Moved(h, "report") /\ disk' = disk
           \/ /\ helpers'[h].at = "backup2" /\ helpers'[h].plan = PlanOf(h)
              /\ helpers'[h].sum = disk.binary /\ disk.binary # None
              /\ \A g \in Helpers \ {h} : helpers'[g] = helpers[g]
              /\ disk.backup[PlanOf(h)] = None
              /\ disk'.backup = [disk.backup EXCEPT ![PlanOf(h)] = Torn]
        /\ disk'.binary = disk.binary /\ disk'.newTmp = disk.newTmp
        /\ disk'.oldTmp = disk.oldTmp /\ disk'.planned = disk.planned
        /\ service' = service
        /\ helpers[h].at = "backup"
    <3>1. CASE disk.backup[PlanOf(h)] = None /\ disk.binary # None
      <4>1. helpers' = [helpers EXCEPT ![h].at = "backup2", ![h].sum = disk.binary]
        BY <1>5, <3>1 DEF BackupBegin
      <4>2. disk' = [disk EXCEPT !.backup[PlanOf(h)] = Torn]
        BY <1>5, <3>1 DEF BackupBegin
      <4>3. helpers'[h] = [helpers[h] EXCEPT !.at = "backup2", !.sum = disk.binary]
        BY <4>1 DEF TypeOK, IInv
      <4> QED BY <1>1, <1>5, <3>1, <4>1, <4>2, <4>3
                 DEF BackupBegin, OnlyDisk, TypeOK, HelperRecords
    <3>2. CASE ~(disk.backup[PlanOf(h)] = None /\ disk.binary # None)
      <4>1. /\ Conclude(h, "failed") /\ helpers[h].at = "backup"
            /\ disk' = disk /\ service' = service
        BY <1>5, <3>2 DEF BackupBegin, OnlyDisk
      <4>2. Moved(h, "report")
        BY <1>1, <4>1, MoveEffect DEF Verdicts
      <4> QED BY <4>1, <4>2
    <3> QED BY <3>1, <3>2
  <2>2. BackupsHold'
    <3>1. /\ disk.backup \in [Plans -> Files]
          /\ (disk.binary # None => disk.binary \in Installable)
      BY <1>1 DEF TypeOK, IInv, OnlyVerified, Installable
    <3>2. CASE Moved(h, "report") /\ disk' = disk
      BY <3>2 DEF IInv, BackupsHold, Backed, Installable
    <3>3. CASE /\ disk'.backup = [disk.backup EXCEPT ![PlanOf(h)] = Torn]
               /\ disk.backup[PlanOf(h)] = None /\ disk.binary # None
               /\ helpers'[h].at = "backup2" /\ helpers'[h].plan = PlanOf(h)
               /\ helpers'[h].sum = disk.binary
               /\ \A g \in Helpers \ {h} : helpers'[g] = helpers[g]
      <4>1. \A g \in Helpers : g # h /\ (At(g, "backup2") \/ helpers[g].at \in Backed)
                              => disk'.backup[PlanOf(g)] = disk.backup[PlanOf(g)]
        BY <3>1, <3>3, Ownership
      <4>2. disk'.backup[PlanOf(h)] = Torn
        BY <1>1, <3>1, <3>3
      <4> QED BY <2>1, <3>1, <3>3, <4>1, <4>2 DEF IInv, BackupsHold, Backed, Installable
    <3> QED BY <2>1, <3>2, <3>3
  <2>3. OneWriterEach'
    BY <1>1, <2>1, Ownership DEF IInv, OneWriterEach, Swapping, Undoing
  <2>4. TempsOwned'
    BY <1>1, <2>1 DEF IInv, TempsOwned
  <2>5. OnlyVerified'
    BY <2>1 DEF IInv, OnlyVerified, Running
  <2>6. NeverLost'
    BY <1>1, <2>1, InstallableAreVersions
       DEF IInv, NeverLost, TypeOK
  <2> QED BY <2>2, <2>3, <2>4, <2>5, <2>6 DEF IInv
<1>6. CASE BackupEnd(h)
  <2>1. /\ \/ /\ Moved(h, "stop")
              /\ disk'.backup = [disk.backup EXCEPT ![PlanOf(h)] = helpers[h].sum]
           \/ Moved(h, "report") /\ disk'.backup = [disk.backup EXCEPT ![PlanOf(h)] = None]
        /\ disk'.binary = disk.binary /\ disk'.newTmp = disk.newTmp
        /\ disk'.oldTmp = disk.oldTmp /\ disk'.planned = disk.planned
        /\ service' = service
        /\ helpers[h].at = "backup2"
    BY <1>1, <1>6, MoveEffect DEF BackupEnd, OnlyDisk, Steps, Verdicts, TypeOK
  <2>2. BackupsHold'
    BY <1>1, <1>2, <2>1, Ownership
       DEF IInv, BackupsHold, OneWriterEach, Backed, Installable, TypeOK
  <2>3. OneWriterEach'
    BY <1>1, <2>1, Ownership DEF IInv, OneWriterEach, Swapping, Undoing
  <2>4. TempsOwned'
    BY <1>1, <2>1 DEF IInv, TempsOwned
  <2>5. OnlyVerified'
    BY <2>1 DEF IInv, OnlyVerified, Running
  <2>6. NeverLost'
    BY <1>1, <1>2, <2>1, InstallableAreVersions
       DEF IInv, BackupsHold, NeverLost, TypeOK
  <2> QED BY <2>2, <2>3, <2>4, <2>5, <2>6 DEF IInv
<1>7. CASE StopService(h)
  <2>1. /\ \/ Moved(h, "copy")
           \/ Moved(h, "report")
        /\ Untouched /\ service'.runs \in {service.runs, None}
        /\ helpers[h].at = "stop"
    <3>1. Moved(h, "copy") \/ Moved(h, "report")
      BY <1>1, <1>7, MoveEffect DEF StopService, Steps, Verdicts
    <3>2. Untouched /\ service'.runs \in {service.runs, None}
      BY ZenonT(40), <1>1, <1>7 DEF StopService, OnlyDisk, TypeOK
    <3> QED BY <3>1, <3>2, <1>7 DEF StopService
  <2>2. BackupsHold'
    BY <1>1, <1>2, <2>1, Ownership DEF IInv, BackupsHold, Backed, Installable
  <2>3. OneWriterEach' /\ TempsOwned'
    BY <1>1, <1>2, <1>3, <2>1, Ownership
       DEF IInv, BackupsHold, OneWriterEach, TempsOwned, Backed, Swapping, Undoing
  <2> QED
    BY <1>1, <1>2, <1>3, <2>1, <2>2, <2>3
       DEF IInv, BackupsHold, TempsOwned, OnlyVerified, NeverLost, Backed, Running,
           Installable
<1>8. CASE CopyBegin(h)
  <2>1. /\ \/ Moved(h, "copy2") /\ disk.newTmp = None /\ disk'.newTmp = Torn
           \/ Moved(h, "rcopy") /\ disk'.newTmp = disk.newTmp
        /\ KeptOld /\ disk'.binary = disk.binary /\ service' = service
        /\ helpers[h].at = "copy"
    BY <1>1, <1>8, MoveEffect DEF CopyBegin, OnlyDisk, Steps, Verdicts, TypeOK
  <2>2. BackupsHold'
    BY <1>1, <1>2, <2>1, Ownership DEF IInv, BackupsHold, Backed, Installable
  <2>3. OneWriterEach' /\ TempsOwned'
    BY <1>1, <1>2, <1>3, <2>1, Ownership
       DEF IInv, BackupsHold, OneWriterEach, TempsOwned, Backed, Swapping, Undoing
  <2> QED
    BY <1>1, <1>2, <1>3, <2>1, <2>2, <2>3
       DEF IInv, BackupsHold, TempsOwned, OnlyVerified, NeverLost, Backed, Running,
           Installable
<1>9. CASE CopyEnd(h)
  <2>1. /\ \/ Moved(h, "remove") /\ disk'.newTmp = Target[PlanOf(h)]
           \/ Moved(h, "rcopy") /\ disk'.newTmp = None
        /\ KeptOld /\ disk'.binary = disk.binary /\ service' = service
        /\ helpers[h].at = "copy2"
    BY <1>1, <1>9, MoveEffect DEF CopyEnd, OnlyDisk, Steps, Verdicts, TypeOK
  <2>2. BackupsHold'
    BY <1>1, <1>2, <2>1, Ownership DEF IInv, BackupsHold, Backed, Installable
  <2>3. OneWriterEach' /\ TempsOwned'
    BY <1>1, <1>2, <1>3, <2>1, Ownership
       DEF IInv, BackupsHold, OneWriterEach, TempsOwned, Backed, Swapping, Undoing
  <2> QED
    BY <1>1, <1>2, <1>3, <2>1, <2>2, <2>3
       DEF IInv, BackupsHold, TempsOwned, OnlyVerified, NeverLost, Backed, Running,
           Installable
<1>10. CASE Remove(h)
  <2>1. /\ \/ Moved(h, "rename") /\ disk'.binary = None /\ disk'.newTmp = disk.newTmp
           \/ Moved(h, "rcopy") /\ disk'.binary = disk.binary /\ disk'.newTmp = None
        /\ KeptOld /\ service' = service
        /\ helpers[h].at = "remove"
    BY <1>1, <1>10, MoveEffect DEF Remove, OnlyDisk, Steps, Verdicts, TypeOK
  <2>2. BackupsHold'
    BY <1>1, <1>2, <2>1, Ownership DEF IInv, BackupsHold, Backed, Installable
  <2>3. OneWriterEach' /\ TempsOwned'
    BY <1>1, <1>2, <1>3, <2>1, Ownership
       DEF IInv, BackupsHold, OneWriterEach, TempsOwned, Backed, Swapping, Undoing
  <2> QED
    BY <1>1, <1>2, <1>3, <2>1, <2>2, <2>3
       DEF IInv, BackupsHold, TempsOwned, OnlyVerified, NeverLost, Backed, Running,
           Installable
<1>11. CASE Rename(h)
  <2>1. /\ Moved(h, "start") \/ Moved(h, "rcopy")
        /\ KeptOld /\ disk'.newTmp = None
        /\ disk'.binary \in {disk.newTmp, disk.binary} /\ service' = service
        /\ helpers[h].at = "rename"
    <3>1. Moved(h, "start") \/ Moved(h, "rcopy")
      BY <1>1, <1>11, MoveEffect DEF Rename, Steps, Verdicts
    <3>2. /\ KeptOld /\ disk'.newTmp = None
          /\ disk'.binary \in {disk.newTmp, disk.binary} /\ service' = service
      BY ZenonT(40), <1>1, <1>11 DEF Rename, OnlyDisk, TypeOK
    <3> QED BY <3>1, <3>2, <1>11 DEF Rename
  <2>2. BackupsHold'
    BY <1>1, <1>2, <2>1, Ownership DEF IInv, BackupsHold, Backed, Installable
  <2>3. OneWriterEach' /\ TempsOwned'
    BY <1>1, <1>2, <1>3, <2>1, Ownership
       DEF IInv, BackupsHold, OneWriterEach, TempsOwned, Backed, Swapping, Undoing
  <2> QED
    BY <1>1, <1>2, <1>3, <2>1, <2>2, <2>3
       DEF IInv, BackupsHold, TempsOwned, OnlyVerified, NeverLost, Backed, Running,
           Installable
<1>12. CASE Start(h)
  <2>1. /\ \/ Moved(h, "mark")
           \/ Moved(h, "rcopy")
        /\ Untouched /\ service'.runs \in {service.runs, disk.binary}
        /\ helpers[h].at = "start"
    <3>1. Moved(h, "mark") \/ Moved(h, "rcopy")
      BY <1>1, <1>12, MoveEffect DEF Start, StartService, Steps, Verdicts
    <3>2. Untouched /\ service'.runs \in {service.runs, disk.binary}
      BY ZenonT(40), <1>1, <1>12 DEF Start, StartService, OnlyDisk, TypeOK
    <3> QED BY <3>1, <3>2, <1>12 DEF Start
  <2>2. BackupsHold'
    BY <1>1, <1>2, <2>1, Ownership DEF IInv, BackupsHold, Backed, Installable
  <2>3. OneWriterEach' /\ TempsOwned'
    BY <1>1, <1>2, <1>3, <2>1, Ownership
       DEF IInv, BackupsHold, OneWriterEach, TempsOwned, Backed, Swapping, Undoing
  <2> QED
    BY <1>1, <1>2, <1>3, <2>1, <2>2, <2>3
       DEF IInv, BackupsHold, TempsOwned, OnlyVerified, NeverLost, Backed, Running,
           Installable
<1>13. CASE Mark(h)
  <2>1. /\ Moved(h, "report")
        /\ Untouched /\ service' = service
        /\ helpers[h].at = "mark"
    BY <1>1, <1>13, MoveEffect DEF Mark, OnlyDisk, Steps, Verdicts, TypeOK
  <2>2. BackupsHold'
    BY <1>1, <1>2, <2>1, Ownership DEF IInv, BackupsHold, Backed, Installable
  <2>3. OneWriterEach' /\ TempsOwned'
    BY <1>1, <1>2, <1>3, <2>1, Ownership
       DEF IInv, BackupsHold, OneWriterEach, TempsOwned, Backed, Swapping, Undoing
  <2> QED
    BY <1>1, <1>2, <1>3, <2>1, <2>2, <2>3
       DEF IInv, BackupsHold, TempsOwned, OnlyVerified, NeverLost, Backed, Running,
           Installable
<1>14. CASE RollbackBegin(h)
  <2>1. /\ \/ Moved(h, "rcopy2") /\ disk.oldTmp = None /\ disk'.oldTmp = Torn
           \/ Moved(h, "report") /\ disk'.oldTmp = disk.oldTmp
        /\ KeptNew /\ disk'.binary = disk.binary /\ service' = service
        /\ helpers[h].at = "rcopy"
    BY <1>1, <1>14, MoveEffect DEF RollbackBegin, OnlyDisk, Steps, Verdicts, TypeOK
  <2>2. BackupsHold'
    BY <1>1, <1>2, <2>1, Ownership DEF IInv, BackupsHold, Backed, Installable
  <2>3. OneWriterEach' /\ TempsOwned'
    BY <1>1, <1>2, <1>3, <2>1, Ownership
       DEF IInv, BackupsHold, OneWriterEach, TempsOwned, Backed, Swapping, Undoing
  <2> QED
    BY <1>1, <1>2, <1>3, <2>1, <2>2, <2>3
       DEF IInv, BackupsHold, TempsOwned, OnlyVerified, NeverLost, Backed, Running,
           Installable
<1>15. CASE RollbackEnd(h)
  <2>1. /\ \/ Moved(h, "rremove") /\ disk'.oldTmp = helpers[h].sum
           \/ Moved(h, "report") /\ disk'.oldTmp = None
        /\ KeptNew /\ disk'.binary = disk.binary /\ service' = service
        /\ helpers[h].at = "rcopy2"
    BY <1>1, <1>15, MoveEffect DEF RollbackEnd, OnlyDisk, Steps, Verdicts, TypeOK
  <2>2. BackupsHold'
    BY <1>1, <1>2, <2>1, Ownership DEF IInv, BackupsHold, Backed, Installable
  <2>3. OneWriterEach' /\ TempsOwned'
    BY <1>1, <1>2, <1>3, <2>1, Ownership
       DEF IInv, BackupsHold, OneWriterEach, TempsOwned, Backed, Swapping, Undoing
  <2> QED
    BY <1>1, <1>2, <1>3, <2>1, <2>2, <2>3
       DEF IInv, BackupsHold, TempsOwned, OnlyVerified, NeverLost, Backed, Running,
           Installable
<1>16. CASE RollbackRemove(h)
  <2>1. /\ \/ Moved(h, "rrename") /\ disk'.binary = None /\ disk'.oldTmp = disk.oldTmp
           \/ Moved(h, "report") /\ disk'.binary = disk.binary /\ disk'.oldTmp = None
        /\ KeptNew /\ service' = service
        /\ helpers[h].at = "rremove"
    BY <1>1, <1>16, MoveEffect DEF RollbackRemove, OnlyDisk, Steps, Verdicts, TypeOK
  <2>2. BackupsHold'
    BY <1>1, <1>2, <2>1, Ownership DEF IInv, BackupsHold, Backed, Installable
  <2>3. OneWriterEach' /\ TempsOwned'
    BY <1>1, <1>2, <1>3, <2>1, Ownership
       DEF IInv, BackupsHold, OneWriterEach, TempsOwned, Backed, Swapping, Undoing
  <2> QED
    BY <1>1, <1>2, <1>3, <2>1, <2>2, <2>3
       DEF IInv, BackupsHold, TempsOwned, OnlyVerified, NeverLost, Backed, Running,
           Installable
<1>17. CASE RollbackRename(h)
  <2>1. /\ Moved(h, "rstart") \/ Moved(h, "report")
        /\ KeptNew /\ disk'.oldTmp = None
        /\ disk'.binary \in {disk.oldTmp, disk.binary} /\ service' = service
        /\ helpers[h].at = "rrename"
    <3>1. Moved(h, "rstart") \/ Moved(h, "report")
      BY <1>1, <1>17, MoveEffect DEF RollbackRename, Steps, Verdicts
    <3>2. /\ KeptNew /\ disk'.oldTmp = None
          /\ disk'.binary \in {disk.oldTmp, disk.binary} /\ service' = service
      BY ZenonT(40), <1>1, <1>17 DEF RollbackRename, OnlyDisk, TypeOK
    <3> QED BY <3>1, <3>2, <1>17 DEF RollbackRename
  <2>2. BackupsHold'
    BY <1>1, <1>2, <2>1, Ownership DEF IInv, BackupsHold, Backed, Installable
  <2>3. OneWriterEach' /\ TempsOwned'
    BY <1>1, <1>2, <1>3, <2>1, Ownership
       DEF IInv, BackupsHold, OneWriterEach, TempsOwned, Backed, Swapping, Undoing
  <2> QED
    BY <1>1, <1>2, <1>3, <2>1, <2>2, <2>3
       DEF IInv, BackupsHold, TempsOwned, OnlyVerified, NeverLost, Backed, Running,
           Installable
<1>18. CASE RollbackStart(h)
  <2>1. /\ Moved(h, "report")
        /\ Untouched /\ service'.runs \in {service.runs, disk.binary}
        /\ helpers[h].at = "rstart"
    <3>1. Moved(h, "report")
      BY <1>1, <1>18, MoveEffect DEF RollbackStart, StartService, Steps, Verdicts
    <3>2. Untouched /\ service'.runs \in {service.runs, disk.binary}
      BY ZenonT(40), <1>1, <1>18 DEF RollbackStart, StartService, OnlyDisk, TypeOK
    <3> QED BY <3>1, <3>2, <1>18 DEF RollbackStart
  <2>2. BackupsHold'
    BY <1>1, <1>2, <2>1, Ownership DEF IInv, BackupsHold, Backed, Installable
  <2>3. OneWriterEach' /\ TempsOwned'
    BY <1>1, <1>2, <1>3, <2>1, Ownership
       DEF IInv, BackupsHold, OneWriterEach, TempsOwned, Backed, Swapping, Undoing
  <2> QED
    BY <1>1, <1>2, <1>3, <2>1, <2>2, <2>3
       DEF IInv, BackupsHold, TempsOwned, OnlyVerified, NeverLost, Backed, Running,
           Installable
<1>19. CASE RecordBegin(h)
  <2>1. /\ \/ Moved(h, "report2")
           \/ helpers'[h].at = "idle" /\ \A g \in Helpers \ {h} : helpers'[g] = helpers[g]
        /\ Untouched /\ service' = service
        /\ helpers[h].at = "report"
    BY <1>1, <1>19, MoveEffect DEF RecordBegin, OnlyDisk, Steps, Verdicts, TypeOK, Idle
  <2>2. BackupsHold'
    BY <1>1, <1>2, <2>1, Ownership DEF IInv, BackupsHold, Backed, Installable
  <2>3. OneWriterEach' /\ TempsOwned'
    BY <1>1, <1>2, <1>3, <2>1, Ownership
       DEF IInv, BackupsHold, OneWriterEach, TempsOwned, Backed, Swapping, Undoing
  <2> QED
    BY <1>1, <1>2, <1>3, <2>1, <2>2, <2>3
       DEF IInv, BackupsHold, TempsOwned, OnlyVerified, NeverLost, Backed, Running,
           Installable
<1>20. CASE RecordEnd(h)
  <2>1. /\ helpers'[h].at = "idle" /\ \A g \in Helpers \ {h} : helpers'[g] = helpers[g]
        /\ Untouched /\ service' = service
        /\ helpers[h].at = "report2"
    <3> DEFINE noted == [disk.outcome EXCEPT ![PlanOf(h)] = helpers[h].verdict]
    <3>1. \/ disk' = [disk EXCEPT !.outcomeTmp = @ \ {PlanOf(h)}, !.outcome = noted]
          \/ disk' = [disk EXCEPT !.outcomeTmp = @ \ {PlanOf(h)}]
      BY <1>20 DEF RecordEnd
    <3>2. Untouched
      <4> HIDE DEF noted
      <4> QED BY ZenonT(40), <1>1, <3>1 DEF TypeOK
    <3> QED BY <1>1, <1>20, <3>2 DEF RecordEnd, OnlyDisk, TypeOK, Idle
  <2>2. BackupsHold'
    BY <1>1, <1>2, <2>1, Ownership DEF IInv, BackupsHold, Backed, Installable
  <2>3. OneWriterEach' /\ TempsOwned'
    BY <1>1, <1>2, <1>3, <2>1, Ownership
       DEF IInv, BackupsHold, OneWriterEach, TempsOwned, Backed, Swapping, Undoing
  <2> QED
    BY <1>1, <1>2, <1>3, <2>1, <2>2, <2>3
       DEF IInv, BackupsHold, TempsOwned, OnlyVerified, NeverLost, Backed, Running,
           Installable
<1> QED
  BY <1>4, <1>5, <1>6, <1>7, <1>8, <1>9, <1>10, <1>11, <1>12, <1>13, <1>14, <1>15, <1>16,
       <1>17, <1>18, <1>19, <1>20
     DEF HelperStep, Operation

LEMMA AgentSafe ==
  ASSUME IInv, AgentStep, TypeOK'
  PROVE  IInv'
<1>1. /\ disk'.binary = disk.binary /\ disk'.newTmp = disk.newTmp
      /\ disk'.oldTmp = disk.oldTmp /\ disk'.backup = disk.backup
      /\ disk.planned \subseteq disk'.planned /\ service' = service
  BY DEF IInv, TypeOK, AgentStep, CommitStage, WritePlan, Submit, Sweep, PrepareHelper, Launch
<1>2. \A g \in Helpers : helpers'[g] = helpers[g] \/ helpers'[g].at = "verify"
  <2>1. CASE Launch
    BY <2>1 DEF IInv, TypeOK, Launch, StartOf
  <2>2. CASE helpers' = helpers
    BY <2>2
  <2> QED BY <2>1, <2>2 DEF AgentStep, CommitStage, WritePlan, Submit, Sweep, PrepareHelper
<1>3. BackupsHold' /\ OneWriterEach' /\ TempsOwned'
  BY <1>1, <1>2 DEF IInv, BackupsHold, OneWriterEach, TempsOwned, Installable, At, PlanOf,
                    Backed, Swapping, Undoing
<1>4. OnlyVerified' /\ NeverLost'
  BY <1>1 DEF IInv, OnlyVerified, NeverLost, Running
<1> QED BY <1>3, <1>4 DEF IInv

LEMMA MachineSafe ==
  ASSUME IInv, TypeOK',
         \/ RetryDue \/ Unblock \/ PowerLoss \/ ScmStart
         \/ \E h \in Helpers, p \in Plans : Activate(h, p)
  PROVE  IInv'
<1> DEFINE Same ==
      /\ disk'.binary = disk.binary /\ disk'.newTmp = disk.newTmp
      /\ disk'.oldTmp = disk.oldTmp /\ disk'.backup = disk.backup
      /\ disk'.planned = disk.planned
      /\ service'.runs \in {service.runs, disk.binary, None}
      /\ \A g \in Helpers : helpers'[g] = helpers[g] \/ helpers'[g].at \in {"verify", "idle"}
<1>0. Same
  <2>0. TypeOK
    BY DEF IInv
  <2>1. CASE RetryDue
    BY <2>0, <2>1 DEF TypeOK, RetryDue
  <2>2. CASE Unblock
    BY <2>2 DEF Unblock
  <2>3. CASE PowerLoss
    BY <2>0, <2>3 DEF TypeOK, PowerLoss, Idle
  <2>4. CASE ScmStart
    BY <2>0, <2>4 DEF TypeOK, ScmStart
  <2>5. CASE \E h \in Helpers, p \in Plans : Activate(h, p)
    BY <2>0, <2>5 DEF TypeOK, Activate, StartOf
  <2> QED BY <2>1, <2>2, <2>3, <2>4, <2>5
<1>1. /\ disk'.binary = disk.binary /\ disk'.newTmp = disk.newTmp
      /\ disk'.oldTmp = disk.oldTmp /\ disk'.backup = disk.backup
      /\ disk'.planned = disk.planned
      /\ service'.runs \in {service.runs, disk.binary, None}
  BY <1>0
<1>2. \A g \in Helpers : helpers'[g] = helpers[g] \/ helpers'[g].at \in {"verify", "idle"}
  BY <1>0
<1>3. BackupsHold' /\ OneWriterEach' /\ TempsOwned'
  BY <1>1, <1>2 DEF IInv, BackupsHold, OneWriterEach, TempsOwned, Installable, At, PlanOf,
                    Backed, Swapping, Undoing
<1>4. OnlyVerified' /\ NeverLost'
  BY <1>1 DEF IInv, OnlyVerified, NeverLost, Running
<1> QED BY <1>3, <1>4 DEF IInv

LEMMA InitSafe == Init => IInv
<1> SUFFICES ASSUME Init PROVE IInv
  OBVIOUS
<1>1. TypeOK
  BY InitTyped
<1>2. First # None
  BY VersionsAssumption, NoFileAssumption
<1> QED
  BY <1>1, <1>2 DEF Init, Idle, IInv, BackupsHold, OneWriterEach, TempsOwned, OnlyVerified,
                    NeverLost, At, Backed, Swapping, Undoing, Running

LEMMA NextSafe == IInv /\ [Next]_vars => IInv'
<1> SUFFICES ASSUME IInv, [Next]_vars PROVE IInv'
  OBVIOUS
<1>1. TypeOK'
  BY NextTyped DEF IInv
<1>2. CASE UNCHANGED vars
  BY <1>1, <1>2 DEF vars, IInv, BackupsHold, OneWriterEach, TempsOwned, OnlyVerified,
                    NeverLost, At, PlanOf, Running, Installable
<1> QED BY <1>1, <1>2, AgentSafe, HelperSafe, MachineSafe DEF Next

THEOREM Invariance == Spec => []IInv
BY InitSafe, NextSafe, PTL DEF Spec

(* However many helpers swap the binary at a time and wherever power goes, *)
(* a complete binary is left at the service's path or in a backup.         *)
THEOREM BinaryIsNeverLost == Spec => []NeverLost
BY Invariance, PTL DEF IInv

(* No torn copy is ever promoted: what is installed and what runs is the   *)
(* first binary or the staged binary of a plan that was written.           *)
THEOREM InstalledIsVerified == Spec => []OnlyVerified
BY Invariance, PTL DEF IInv

-----------------------------------------------------------------------------
(* The file of a plan's helper is the lock of its launch: who finds it goes  *)
(* no further, and it is removed only by the launch that failed.             *)
LockHeld ==
  \A p \in Plans :
    /\ launched[p] <= 1
    /\ launched[p] = 1 => p \in disk.helper
    /\ agent.at = "launch" /\ agent.plan = p => launched[p] = 0 /\ p \in disk.helper

(* The agent's work on a plan ends with the process that began it, so the    *)
(* version it was compared with is still the one that runs.                  *)
WorksForward ==
  agent # Idle => Running /\ Target[agent.plan] > service.runs

SameLaunches == launched' = launched /\ disk'.helper = disk.helper
Parted == agent' = agent \/ agent' = Idle

LEMMA HelperLeavesLaunches ==
  ASSUME TypeOK, NEW h \in Helpers, HelperStep(h)
  PROVE  SameLaunches /\ Parted
<1>1. launched' = launched /\ Parted
  BY DEF HelperStep, Operation, Verify, BackupBegin, BackupEnd, StopService, CopyBegin, CopyEnd, Remove,
         Rename, Start, Mark, RollbackBegin, RollbackEnd, RollbackRemove, RollbackRename,
         RollbackStart, StartService, RecordBegin, RecordEnd, OnlyDisk, Parted
<1>2. disk'.helper = disk.helper
  <2>1. CASE Verify(h) \/ StopService(h) \/ Start(h) \/ RollbackStart(h)
    BY <2>1 DEF Verify, StopService, Start, RollbackStart, StartService
  <2>2. CASE BackupBegin(h) \/ BackupEnd(h)
    BY <2>2 DEF BackupBegin, BackupEnd, TypeOK
  <2>3. CASE CopyBegin(h) \/ CopyEnd(h) \/ Remove(h) \/ Rename(h) \/ Mark(h)
    BY <2>3 DEF CopyBegin, CopyEnd, Remove, Rename, Mark, TypeOK
  <2>4. CASE RollbackBegin(h) \/ RollbackEnd(h) \/ RollbackRemove(h) \/ RollbackRename(h)
    BY <2>4 DEF RollbackBegin, RollbackEnd, RollbackRemove, RollbackRename, TypeOK
  <2>5. CASE RecordBegin(h)
    BY <2>5 DEF RecordBegin, TypeOK
  <2>6. CASE RecordEnd(h)
    <3> DEFINE noted == [disk.outcome EXCEPT ![PlanOf(h)] = helpers[h].verdict]
    <3>1. \/ disk' = [disk EXCEPT !.outcomeTmp = @ \ {PlanOf(h)}, !.outcome = noted]
          \/ disk' = [disk EXCEPT !.outcomeTmp = @ \ {PlanOf(h)}]
      BY <2>6 DEF RecordEnd
    <3> HIDE DEF noted
    <3> QED BY <3>1 DEF TypeOK
  <2> QED BY <2>1, <2>2, <2>3, <2>4, <2>5, <2>6 DEF HelperStep, Operation
<1> QED BY <1>1, <1>2 DEF SameLaunches

LEMMA LaunchesKept ==
  ASSUME LockHeld, SameLaunches, \/ Parted
                                 \/ agent'.at # "launch"
  PROVE  LockHeld'
BY DEF LockHeld, SameLaunches, Parted, Idle

LEMMA LockStep == TypeOK /\ LockHeld /\ [Next]_vars => LockHeld'
<1> SUFFICES ASSUME TypeOK, LockHeld, [Next]_vars PROVE LockHeld'
  OBVIOUS
<1>1. CASE UNCHANGED vars
  BY <1>1, LaunchesKept DEF vars, SameLaunches, Parted
<1>2. ASSUME NEW h \in Helpers, HelperStep(h) PROVE LockHeld'
  BY <1>2, HelperLeavesLaunches, LaunchesKept
<1>3. CASE RetryDue \/ Unblock \/ PowerLoss \/ ScmStart \/ \E h \in Helpers, p \in Plans : Activate(h, p)
  <2>1. SameLaunches /\ Parted
    BY <1>3 DEF RetryDue, Unblock, PowerLoss, ScmStart, Activate, SameLaunches, Parted, TypeOK
  <2> QED BY <2>1, LaunchesKept
<1>4. CASE \/ \E p \in Plans : CommitStage(p)
           \/ WritePlan \/ Submit \/ Sweep
  <2>1. SameLaunches
    BY <1>4 DEF CommitStage, WritePlan, Submit, Sweep, SameLaunches, TypeOK
  <2>2. agent'.at # "launch"
    BY <1>4 DEF CommitStage, WritePlan, Submit, Sweep, TypeOK, Idle
  <2> QED BY <2>1, <2>2, LaunchesKept
<1>5. CASE PrepareHelper
  <2> DEFINE p == agent.plan
  <2>1. CASE p \in disk.helper
    <3>1. SameLaunches /\ agent' = Idle
      BY <1>5, <2>1 DEF PrepareHelper, SameLaunches
    <3> QED BY <3>1, LaunchesKept DEF Parted
  <2>2. CASE p \notin disk.helper
    <3>1. /\ disk'.helper = disk.helper \union {p} /\ launched' = launched
          /\ agent' = [agent EXCEPT !.at = "launch"] /\ agent.at = "prepare"
      BY <1>5, <2>2 DEF PrepareHelper, TypeOK
    <3>2. agent'.at = "launch" /\ agent'.plan = p /\ p \in Plans
      BY <3>1 DEF TypeOK, Idle
    <3>3. launched[p] \in Nat /\ launched[p] <= 1 /\ launched[p] # 1
      BY <2>2, <3>2 DEF LockHeld, TypeOK
    <3>4. launched[p] = 0
      BY <3>3
    <3> QED BY <3>1, <3>2, <3>4 DEF LockHeld
  <2> QED BY <2>1, <2>2
<1>6. CASE Launch
  <2> DEFINE p == agent.plan
  <2>1. p \in Plans /\ launched[p] = 0 /\ p \in disk.helper /\ agent' = Idle
    BY <1>6 DEF Launch, LockHeld, TypeOK, Idle
  <2>2. CASE launched' = [launched EXCEPT ![p] = @ + 1] /\ disk' = disk
    BY <2>1, <2>2 DEF LockHeld, TypeOK, Idle
  <2>3. CASE launched' = launched /\ disk' = disk
    BY <2>1, <2>3 DEF LockHeld, Idle
  <2>4. CASE launched' = launched /\ disk' = [disk EXCEPT !.helper = @ \ {p}]
    <3>1. disk'.helper = disk.helper \ {p}
      BY <2>4 DEF TypeOK
    <3> QED BY <2>1, <2>4, <3>1 DEF LockHeld, Idle
  <2> QED BY <1>6, <2>2, <2>3, <2>4 DEF Launch
<1> QED BY <1>1, <1>2, <1>3, <1>4, <1>5, <1>6 DEF Next, AgentStep

(* The agent starts a helper for a plan at most once, whatever fails and     *)
(* however often power is lost, and whoever starts other helpers by hand.    *)
THEOREM LaunchesOnce == Spec => []LaunchedOnce
<1>1. Init => LockHeld
  BY DEF Init, LockHeld, Idle
<1>2. LockHeld => LaunchedOnce
  BY DEF LockHeld, LaunchedOnce
<1> QED BY <1>1, <1>2, LockStep, TypeCorrect, PTL DEF Spec

LEMMA ForwardStep == TypeOK /\ WorksForward /\ [Next]_vars => WorksForward'
<1> SUFFICES ASSUME TypeOK, WorksForward, [Next]_vars PROVE WorksForward'
  OBVIOUS
<1>1. CASE UNCHANGED vars
  BY <1>1 DEF vars, WorksForward, Running
<1>2. ASSUME NEW h \in Helpers, HelperStep(h) PROVE WorksForward'
  <2>1. CASE StopService(h)
    <3>1. agent' = Idle \/ (agent' = agent /\ service'.runs # None)
      BY <2>1 DEF StopService
    <3>2. service'.runs = None \/ service' = service
      BY <2>1 DEF StopService, TypeOK
    <3> QED BY <3>1, <3>2 DEF WorksForward, Running
  <2>2. CASE Start(h) \/ RollbackStart(h)
    <3>1. agent' = agent /\ (Running => service' = service)
      BY <2>2 DEF Start, RollbackStart, StartService
    <3> QED BY <3>1 DEF WorksForward, Running
  <2>3. CASE UNCHANGED << agent, service >>
    BY <2>3 DEF WorksForward, Running
  <2> QED BY <1>2, <2>1, <2>2, <2>3
          DEF HelperStep, Operation, Verify, BackupBegin, BackupEnd, CopyBegin, CopyEnd, Remove, Rename, Mark,
              RollbackBegin, RollbackEnd, RollbackRemove, RollbackRename, RecordBegin, RecordEnd, OnlyDisk
<1>3. CASE RetryDue \/ Unblock \/ \E h \in Helpers, p \in Plans : Activate(h, p)
  BY <1>3 DEF RetryDue, Unblock, Activate, WorksForward, Running
<1>4. CASE PowerLoss
  BY <1>4 DEF PowerLoss, WorksForward
<1>5. CASE ScmStart
  <2>1. agent = Idle /\ agent' = agent
    BY <1>5 DEF ScmStart, WorksForward
  <2> QED BY <2>1 DEF WorksForward
<1>6. CASE AgentStep
  <2>1. ASSUME NEW p \in Plans, CommitStage(p) PROVE WorksForward'
    BY <2>1 DEF CommitStage, WorksForward, Running
  <2>2. CASE Sweep
    <3>1. PICK p \in Plans : Pending(p, service.runs) /\ agent' = [at |-> "prepare", plan |-> p]
      BY <2>2 DEF Sweep
    <3>2. Running /\ service' = service
      BY <2>2 DEF Sweep
    <3>3. Target[p] > service.runs
      BY <3>1 DEF Pending
    <3> QED BY <3>1, <3>2, <3>3 DEF WorksForward, Running
  <2>3. CASE WritePlan \/ Submit \/ PrepareHelper \/ Launch
    <3>1. agent.at # "idle" /\ service' = service
      BY <2>3 DEF WritePlan, Submit, PrepareHelper, Launch, Idle
    <3>2. agent' = Idle \/ agent'.plan = agent.plan
      BY <2>3, <3>1 DEF WritePlan, Submit, PrepareHelper, Launch, TypeOK, Idle
    <3> QED BY <3>1, <3>2 DEF WorksForward, Running, Idle
  <2> QED BY <1>6, <2>1, <2>2, <2>3 DEF AgentStep
<1> QED BY <1>1, <1>2, <1>3, <1>4, <1>5, <1>6 DEF Next

(* A launch is towards a version newer than the one that runs: every step    *)
(* between the comparison and the launch belongs to one process.             *)
THEOREM LaunchesGoForward == Spec => LaunchedForward
<1>1. Init => WorksForward
  BY DEF Init, WorksForward
<1>2. TypeOK /\ WorksForward /\ [Next]_vars =>
        [\A p \in Plans : launched'[p] # launched[p] => Running /\ Target[p] > service.runs]_vars
  <2> SUFFICES ASSUME TypeOK, WorksForward, Next, NEW p \in Plans, launched'[p] # launched[p]
               PROVE  Running /\ Target[p] > service.runs
    BY DEF vars
  <2>1. CASE Launch
    <3>1. agent # Idle /\ agent.plan = p
      BY <2>1 DEF Launch, TypeOK, Idle
    <3> QED BY <3>1 DEF WorksForward
  <2>2. ASSUME NEW h \in Helpers, HelperStep(h) PROVE launched' = launched
    BY <2>2, HelperLeavesLaunches DEF SameLaunches
  <2> QED BY <2>1, <2>2 DEF Next, AgentStep, CommitStage, WritePlan, Submit, Sweep, PrepareHelper,
                            Activate, RetryDue, Unblock, PowerLoss, ScmStart
<1> QED BY <1>1, <1>2, ForwardStep, TypeCorrect, PTL DEF Spec, LaunchedForward

-----------------------------------------------------------------------------
(* What a helper reports it has seen itself: unless another one reaches into *)
(* its swap the binary it put in place stays, and the service runs no other. *)
Reporting(h, verdict) == helpers[h].at \in {"report", "report2"} /\ helpers[h].verdict = verdict

SeenBy(h) ==
  /\ helpers[h].at \in {"rename", "rrename"} => disk.binary = None /\ service.runs = None
  /\ At(h, "start") => disk.binary = Target[PlanOf(h)] /\ service.runs \in {None, Target[PlanOf(h)]}
  /\ At(h, "mark") \/ Reporting(h, "activated") =>
       disk.binary = Target[PlanOf(h)] /\ service.runs = Target[PlanOf(h)]
  /\ At(h, "rstart") => disk.binary = helpers[h].sum /\ service.runs \in {None, helpers[h].sum}
  /\ Reporting(h, "rolled_back") =>
       disk.binary = helpers[h].sum /\ service.runs = helpers[h].sum /\ service.runs # None

SwapSeen == \A h \in Helpers \ meddled : SeenBy(h)

(* The high-water mark is below all that may be installed next: the plan of  *)
(* the helper, its backup, and what is there.                                *)
MarkLow ==
  /\ disk.binary # None => disk.highWater <= disk.binary
  /\ Running => disk.highWater <= service.runs
  /\ \A h \in Helpers :
       /\ helpers[h].at # "idle" => disk.highWater <= Target[PlanOf(h)]
       /\ helpers[h].at \in Backed \union {"backup2"} => disk.highWater <= helpers[h].sum

(* Until helpers overlap, none works beside another.                         *)
Solo ==
  /\ meddled = {}
  /\ \A g, h \in Helpers : helpers[g].at # "idle" /\ helpers[h].at # "idle" => g = h

TInv == SwapSeen /\ (~astray => Solo /\ MarkLow)

Same(h) == helpers'[h].plan = helpers[h].plan
Now(h, a) == Same(h) /\ helpers'[h].at = a /\ helpers'[h].sum = helpers[h].sum
Ends(h, v) == Now(h, "report") /\ helpers'[h].verdict = v

LEMMA TellsEffect ==
  ASSUME TypeOK, NEW h \in Helpers, helpers[h] \in HelperRecords
  PROVE  /\ \A a \in Steps : Goto(h, a) => Now(h, a) /\ helpers'[h].verdict = helpers[h].verdict
         /\ \A v \in Verdicts : Conclude(h, v) => Ends(h, v)
BY DEF TypeOK, HelperRecords, Goto, Conclude, Now, Same, Ends

StillDisk == disk'.binary = disk.binary /\ disk'.highWater = disk.highWater

LEMMA NumbersOnly ==
  ASSUME IInv
  PROVE  /\ disk.highWater \in Nat /\ \A p \in Plans : Target[p] \in Nat /\ Target[p] # None
         /\ disk.binary # None => disk.binary \in Nat
         /\ Running => service.runs \in Nat
         /\ \A h \in Helpers : helpers[h].at \in Backed \union {"backup2"} => helpers[h].sum \in Nat /\ helpers[h].sum # None
         /\ None # Torn
BY VersionsAssumption, NoFileAssumption, InstallableAreVersions
   DEF IInv, TypeOK, OnlyVerified, BackupsHold, Installable, Running, Versions, At

\* A step of one helper leaves the records of the others alone.
LEMMA OthersKept ==
  ASSUME TypeOK, NEW h \in Helpers, HelperStep(h), NEW g \in Helpers \ {h}
  PROVE  helpers'[g] = helpers[g]
<1>1. CASE Verify(h) \/ BackupBegin(h) \/ BackupEnd(h) \/ StopService(h) \/ CopyBegin(h) \/ CopyEnd(h)
  BY <1>1 DEF Verify, BackupBegin, BackupEnd, StopService, CopyBegin, CopyEnd, Goto, Conclude, TypeOK
<1>2. CASE Remove(h) \/ Rename(h) \/ Start(h) \/ Mark(h) \/ RollbackBegin(h) \/ RollbackEnd(h)
  BY <1>2 DEF Remove, Rename, Start, StartService, Mark, RollbackBegin, RollbackEnd, Goto, Conclude, TypeOK
<1>3. CASE RollbackRemove(h) \/ RollbackRename(h) \/ RollbackStart(h) \/ RecordBegin(h) \/ RecordEnd(h)
  BY <1>3 DEF RollbackRemove, RollbackRename, RollbackStart, StartService, RecordBegin, RecordEnd, Goto, Conclude, TypeOK
<1> QED BY <1>1, <1>2, <1>3 DEF HelperStep, Operation

\* It stops the service, starts the binary, or leaves the service as it is.
ServiceMoves ==
  \/ service'.runs \in {service.runs, None}
  \/ service.runs = None /\ service'.runs = disk.binary /\ disk.binary # None

LEMMA ServiceOfHelper ==
  ASSUME TypeOK, NEW h \in Helpers, HelperStep(h)
  PROVE  ServiceMoves
<1>1. CASE StopService(h)
  BY <1>1 DEF StopService, ServiceMoves, TypeOK
<1>2. CASE Start(h) \/ RollbackStart(h)
  BY <1>2 DEF Start, RollbackStart, StartService, Running, ServiceMoves, TypeOK
<1>3. CASE ~(StopService(h) \/ Start(h) \/ RollbackStart(h))
  BY <1>3 DEF HelperStep, Operation, Verify, BackupBegin, BackupEnd, CopyBegin, CopyEnd, Remove, Rename, Mark,
              RollbackBegin, RollbackEnd, RollbackRemove, RollbackRename, RecordBegin, RecordEnd, OnlyDisk, ServiceMoves
<1> QED BY <1>1, <1>2, <1>3

\* What one has seen lasts where the binary stays and no service is stopped.
LEMMA SeenLasts ==
  ASSUME IInv, NEW g \in Helpers, SeenBy(g), helpers'[g] = helpers[g], ServiceMoves,
         helpers[g].at \in Settling => ~Disturbs
  PROVE  SeenBy(g)'
<1>1. ASSUME At(g, "mark") \/ Reporting(g, "activated") PROVE Target[PlanOf(g)] # None
  <2>1. PlanOf(g) \in Plans
    BY <1>1, StatusOfHelper DEF IInv, Reporting, At, Steps
  <2> QED BY <2>1, NumbersOnly
<1>2. CASE helpers[g].at \in Settling
  <2>1. disk'.binary = disk.binary
    BY <1>2 DEF Disturbs
  <2>2. service'.runs = service.runs \/ (service.runs = None /\ service'.runs = disk.binary /\ disk.binary # None)
    BY <1>2 DEF Disturbs, ServiceMoves, Running
  <2> QED BY <1>1, <2>1, <2>2 DEF SeenBy, Reporting, At, PlanOf
<1>3. CASE helpers[g].at \notin Settling
  BY <1>3 DEF SeenBy, Settling, Reporting, At
<1> QED BY <1>2, <1>3

LEMMA HelperTells ==
  ASSUME IInv, TInv, NEW h \in Helpers, HelperStep(h)
  PROVE  TInv'
<1> USE DEF At
<1>1. helpers[h] \in HelperRecords /\ PlanOf(h) \in Plans /\ TypeOK
  BY StatusOfHelper
     DEF IInv, Steps, HelperStep, Operation, Verify, BackupBegin, BackupEnd, StopService, CopyBegin,
         CopyEnd, Remove, Rename, Start, Mark, RollbackBegin, RollbackEnd,
         RollbackRemove, RollbackRename, RollbackStart, RecordBegin, RecordEnd
\* What the others have seen; where there are none, they are idle.
<1>2. ASSUME NEW g \in Helpers \ ({h} \union meddled') PROVE SeenBy(g)'
  <2>1. helpers'[g] = helpers[g] /\ ServiceMoves
    BY <1>1, OthersKept, ServiceOfHelper
  <2>2. CASE helpers[g].at \in Settling
    BY <2>1, <2>2, SeenLasts DEF HelperStep, Meddle, TInv, SwapSeen
  <2>3. CASE helpers[g].at \notin Settling
    BY <2>1, <2>3 DEF SeenBy, Settling, Reporting
  <2> QED BY <2>2, <2>3
<1>21. ~astray => \A g \in Helpers : g = h \/ helpers'[g].at = "idle"
  BY <1>1, OthersKept DEF TInv, Solo, HelperRecords, Steps
<1>22. h \notin meddled' /\ helpers'[h].at \in Settling => SeenBy(h)
  BY DEF HelperStep, Meddle, TInv, SwapSeen
<1>23. ~astray => MarkLow /\ SeenBy(h)
  BY DEF TInv, Solo, SwapSeen
<1> DEFINE Seen  == h \notin meddled' => SeenBy(h)'
           Below == ~astray => MarkLow'
<1> SUFFICES Seen /\ Below
  <2>1. SwapSeen'
    BY <1>2 DEF SwapSeen
  <2>2. ~astray => Solo'
    BY <1>21 DEF TInv, Solo, HelperStep, Meddle, Settling
  <2>3. astray' = astray
    BY DEF HelperStep
  <2> QED BY <2>1, <2>2, <2>3 DEF TInv
\* A step that leaves binary and service as they are, towards a step that has
\* seen nothing yet.
<1>3. ASSUME StillDisk, service' = service, helpers[h].at # "idle",
             \/ \E a \in Steps \ {"rename", "rrename", "start", "mark", "rstart", "report", "report2"} :
                  /\ Now(h, a) /\ (a \in Backed => helpers[h].at \in Backed \union {"backup2"})
                  /\ a # "backup2"
             \/ Ends(h, "failed") \/ helpers'[h].at = "idle"
      PROVE  Seen /\ Below
  <2>1. Seen
    BY <1>22, <1>3 DEF SeenBy, Settling, Now, Ends, Reporting
  <2>2. Below
    BY <1>21, <1>23, <1>3 DEF MarkLow, StillDisk, Now, Same, Ends, Running, PlanOf, Backed
  <2> QED BY <2>1, <2>2
<1>4. CASE Verify(h)
  <2>1. StillDisk /\ service' = service /\ helpers[h].at = "verify" /\ (Now(h, "backup") \/ Ends(h, "failed"))
    BY <1>1, <1>4, TellsEffect DEF Verify, OnlyDisk, StillDisk, Steps, Verdicts
  <2> QED BY <1>3, <2>1 DEF Steps, Backed
<1>5. CASE BackupBegin(h)
  <2>1. StillDisk /\ service' = service /\ helpers[h].at = "backup"
        /\ \/ Same(h) /\ helpers'[h].at = "backup2" /\ helpers'[h].sum = disk.binary /\ disk.binary # None
           \/ Ends(h, "failed")
    BY <1>1, <1>5, TellsEffect DEF BackupBegin, OnlyDisk, StillDisk, Verdicts, TypeOK, HelperRecords, Same
  <2>2. CASE Ends(h, "failed")
    BY <1>3, <2>1, <2>2
  <2>3. CASE ~Ends(h, "failed")
    <3>1. Seen
      BY <1>22, <2>1, <2>3 DEF SeenBy, Settling, Reporting
    <3>2. Below
      BY <1>21, <1>23, <2>1, <2>3 DEF MarkLow, StillDisk, Same, Running, PlanOf, Backed
    <3> QED BY <3>1, <3>2
  <2> QED BY <2>2, <2>3
<1>6. CASE BackupEnd(h)
  <2>1. StillDisk /\ service' = service /\ helpers[h].at = "backup2" /\ (Now(h, "stop") \/ Ends(h, "failed"))
    BY <1>1, <1>6, TellsEffect DEF BackupEnd, OnlyDisk, StillDisk, Steps, Verdicts, TypeOK
  <2> QED BY <1>3, <2>1 DEF Steps, Backed
<1>7. CASE StopService(h)
  <2>1. /\ StillDisk /\ service'.runs \in {service.runs, None} /\ helpers[h].at = "stop"
        /\ Now(h, "copy") \/ Ends(h, "failed")
    <3>1. service'.runs \in {service.runs, None} /\ disk' = disk /\ helpers[h].at = "stop"
      BY <1>1, <1>7 DEF StopService, TypeOK
    <3>2. Now(h, "copy") \/ Ends(h, "failed")
      BY <1>1, <1>7, TellsEffect DEF StopService, Steps, Verdicts
    <3> QED BY <3>1, <3>2 DEF StillDisk
  <2>2. Seen
    BY <1>22, <2>1 DEF SeenBy, Settling, Now, Ends, Reporting
  <2>3. Below
    BY <1>21, <1>23, <2>1 DEF MarkLow, StillDisk, Now, Same, Ends, Running, PlanOf, Backed
  <2> QED BY <2>2, <2>3
<1>8. CASE CopyBegin(h)
  <2>1. StillDisk /\ service' = service /\ helpers[h].at = "copy" /\ (Now(h, "copy2") \/ Now(h, "rcopy"))
    BY <1>1, <1>8, TellsEffect DEF CopyBegin, OnlyDisk, StillDisk, Steps, TypeOK
  <2> QED BY <1>3, <2>1 DEF Steps, Backed
<1>9. CASE CopyEnd(h)
  <2>1. StillDisk /\ service' = service /\ helpers[h].at = "copy2" /\ (Now(h, "remove") \/ Now(h, "rcopy"))
    BY <1>1, <1>9, TellsEffect DEF CopyEnd, OnlyDisk, StillDisk, Steps, TypeOK
  <2> QED BY <1>3, <2>1 DEF Steps, Backed
<1>10. CASE Remove(h)
  <2>1. /\ service' = service /\ disk'.highWater = disk.highWater /\ helpers[h].at = "remove"
        /\ \/ Now(h, "rename") /\ disk'.binary = None /\ service.runs = None
           \/ Now(h, "rcopy") /\ disk'.binary = disk.binary
    BY <1>1, <1>10, TellsEffect DEF Remove, OnlyDisk, Running, Steps, TypeOK
  <2>2. Seen
    BY <1>22, <2>1 DEF SeenBy, Settling, Now, Reporting
  <2>3. Below
    BY <1>21, <1>23, <2>1 DEF MarkLow, Now, Same, Running, PlanOf, Backed
  <2> QED BY <2>2, <2>3
<1>11. CASE Rename(h)
  <2>1. /\ service' = service /\ disk'.highWater = disk.highWater /\ helpers[h].at = "rename"
        /\ \/ Now(h, "start") /\ disk'.binary = disk.newTmp
           \/ Now(h, "rcopy") /\ disk'.binary \in {disk.newTmp, disk.binary}
    <3>1. /\ service' = service /\ helpers[h].at = "rename"
          /\ \/ Now(h, "start") /\ disk' = [disk EXCEPT !.binary = disk.newTmp, !.newTmp = None]
             \/ Now(h, "rcopy") /\ \/ disk' = [disk EXCEPT !.newTmp = None]
                                   \/ disk' = [disk EXCEPT !.binary = disk.newTmp, !.newTmp = None]
      BY <1>1, <1>11, TellsEffect DEF Rename, OnlyDisk, Steps
    <3> QED BY <1>1, <3>1 DEF TypeOK
  <2>2. disk.newTmp = Target[PlanOf(h)]
    BY <2>1 DEF IInv, TempsOwned
  <2>3. Seen
    BY <1>22, <2>1, <2>2 DEF SeenBy, Settling, Now, Same, Reporting, PlanOf
  <2>4. Below
    BY <1>21, <1>23, <2>1, <2>2 DEF MarkLow, Now, Same, Running, PlanOf, Backed
  <2> QED BY <2>3, <2>4
<1>12. CASE Start(h)
  <2>1. /\ StillDisk /\ helpers[h].at = "start"
        /\ \/ Now(h, "mark") /\ service'.runs = service.runs /\ service.runs # None
           \/ Now(h, "mark") /\ service'.runs = disk.binary /\ disk.binary # None
           \/ Now(h, "rcopy") /\ service'.runs = service.runs
           \/ Now(h, "rcopy") /\ service'.runs = disk.binary /\ disk.binary # None
    <3>1. /\ disk' = disk /\ helpers[h].at = "start"
          /\ \/ Goto(h, "mark") /\ service' = service /\ service.runs # None
             \/ Goto(h, "mark") /\ service' = [service EXCEPT !.runs = disk.binary, !.scm = FALSE] /\ disk.binary # None
             \/ Goto(h, "rcopy") /\ service' = service
             \/ Goto(h, "rcopy") /\ service' = [service EXCEPT !.runs = disk.binary, !.scm = FALSE] /\ disk.binary # None
      BY <1>12 DEF Start, StartService, Running
    <3>2. Goto(h, "mark") => Now(h, "mark")
      BY <1>1, TellsEffect DEF Steps
    <3>3. Goto(h, "rcopy") => Now(h, "rcopy")
      BY <1>1, TellsEffect DEF Steps
    <3> QED BY <1>1, <3>1, <3>2, <3>3 DEF StillDisk, TypeOK
  <2>2. Seen
    BY <1>22, <2>1 DEF SeenBy, Settling, StillDisk, Now, Same, Reporting, PlanOf
  <2>3. Below
    BY <1>21, <1>23, <2>1 DEF MarkLow, StillDisk, Now, Same, Running, PlanOf, Backed
  <2> QED BY <2>2, <2>3
<1>13. CASE Mark(h)
  <2>1. /\ service' = service /\ disk'.binary = disk.binary /\ helpers[h].at = "mark"
        /\ \/ Ends(h, "activated") /\ disk'.highWater = Target[PlanOf(h)]
           \/ Ends(h, "failed") /\ disk'.highWater = disk.highWater
    BY <1>1, <1>13, TellsEffect DEF Mark, OnlyDisk, Verdicts, TypeOK
  <2>2. SeenBy(h) => disk.binary = Target[PlanOf(h)] /\ service.runs = Target[PlanOf(h)]
    BY <2>1 DEF SeenBy
  <2>3. Seen
    BY <1>22, <2>1, <2>2 DEF SeenBy, Settling, Ends, Now, Same, Reporting, PlanOf
  <2>4. Below
    BY <1>1, <1>21, <1>23, <2>1, <2>2, NumbersOnly DEF MarkLow, Ends, Now, Same, Running, PlanOf, Backed
  <2> QED BY <2>3, <2>4
<1>14. CASE RollbackBegin(h)
  <2>1. StillDisk /\ service' = service /\ helpers[h].at = "rcopy" /\ (Now(h, "rcopy2") \/ Ends(h, "failed"))
    BY <1>1, <1>14, TellsEffect DEF RollbackBegin, OnlyDisk, StillDisk, Steps, Verdicts, TypeOK
  <2> QED BY <1>3, <2>1 DEF Steps, Backed
<1>15. CASE RollbackEnd(h)
  <2>1. StillDisk /\ service' = service /\ helpers[h].at = "rcopy2" /\ (Now(h, "rremove") \/ Ends(h, "failed"))
    BY <1>1, <1>15, TellsEffect DEF RollbackEnd, OnlyDisk, StillDisk, Steps, Verdicts, TypeOK
  <2> QED BY <1>3, <2>1 DEF Steps, Backed
<1>16. CASE RollbackRemove(h)
  <2>1. /\ service' = service /\ disk'.highWater = disk.highWater /\ helpers[h].at = "rremove"
        /\ \/ Now(h, "rrename") /\ disk'.binary = None /\ service.runs = None
           \/ Ends(h, "failed") /\ disk'.binary = disk.binary
    BY <1>1, <1>16, TellsEffect DEF RollbackRemove, OnlyDisk, Running, Steps, Verdicts, TypeOK
  <2>2. Seen
    BY <1>22, <2>1 DEF SeenBy, Settling, Now, Ends, Reporting
  <2>3. Below
    BY <1>21, <1>23, <2>1 DEF MarkLow, Now, Same, Ends, Running, PlanOf, Backed
  <2> QED BY <2>2, <2>3
<1>17. CASE RollbackRename(h)
  <2>1. /\ service' = service /\ disk'.highWater = disk.highWater /\ helpers[h].at = "rrename"
        /\ \/ Now(h, "rstart") /\ disk'.binary = disk.oldTmp
           \/ Ends(h, "failed") /\ disk'.binary \in {disk.oldTmp, disk.binary}
    <3>1. /\ service' = service /\ helpers[h].at = "rrename"
          /\ \/ Now(h, "rstart") /\ disk' = [disk EXCEPT !.binary = disk.oldTmp, !.oldTmp = None]
             \/ Ends(h, "failed") /\ \/ disk' = [disk EXCEPT !.oldTmp = None]
                                     \/ disk' = [disk EXCEPT !.binary = disk.oldTmp, !.oldTmp = None]
      BY <1>1, <1>17, TellsEffect DEF RollbackRename, OnlyDisk, Steps, Verdicts
    <3> QED BY <1>1, <3>1 DEF TypeOK
  <2>2. disk.oldTmp = helpers[h].sum
    BY <2>1 DEF IInv, TempsOwned
  <2>3. Seen
    BY <1>22, <2>1, <2>2 DEF SeenBy, Settling, Now, Ends, Reporting
  <2>4. Below
    BY <1>21, <1>23, <2>1, <2>2 DEF MarkLow, Now, Same, Ends, Running, PlanOf, Backed
  <2> QED BY <2>3, <2>4
<1>18. CASE RollbackStart(h)
  <2>1. /\ StillDisk /\ helpers[h].at = "rstart"
        /\ \/ Ends(h, "rolled_back") /\ service'.runs = service.runs /\ service.runs # None
           \/ Ends(h, "rolled_back") /\ service'.runs = disk.binary /\ disk.binary # None
           \/ Ends(h, "failed") /\ service'.runs = service.runs
           \/ Ends(h, "failed") /\ service'.runs = disk.binary /\ disk.binary # None
    <3>1. /\ disk' = disk /\ helpers[h].at = "rstart"
          /\ \/ Conclude(h, "rolled_back") /\ service' = service /\ service.runs # None
             \/ Conclude(h, "rolled_back") /\ service' = [service EXCEPT !.runs = disk.binary, !.scm = FALSE] /\ disk.binary # None
             \/ Conclude(h, "failed") /\ service' = service
             \/ Conclude(h, "failed") /\ service' = [service EXCEPT !.runs = disk.binary, !.scm = FALSE] /\ disk.binary # None
      BY <1>18 DEF RollbackStart, StartService, Running
    <3>2. \A v \in Verdicts : Conclude(h, v) => Ends(h, v)
      BY <1>1, TellsEffect
    <3>3. {"rolled_back", "failed"} \subseteq Verdicts
      BY DEF Verdicts
    <3> QED BY <1>1, <3>1, <3>2, <3>3 DEF StillDisk, TypeOK
  <2>2. Seen
    BY <1>22, <2>1 DEF SeenBy, Settling, StillDisk, Now, Ends, Reporting
  <2>3. Below
    BY <1>21, <1>23, <2>1 DEF MarkLow, StillDisk, Now, Same, Ends, Running, PlanOf, Backed
  <2> QED BY <2>2, <2>3
<1>19. CASE RecordBegin(h)
  <2>1. /\ StillDisk /\ service' = service /\ helpers[h].at = "report"
        /\ \/ Now(h, "report2") /\ helpers'[h].verdict = helpers[h].verdict
           \/ helpers'[h].at = "idle"
    BY <1>1, <1>19, TellsEffect DEF RecordBegin, OnlyDisk, StillDisk, Steps, TypeOK, Idle
  <2>2. Seen
    BY <1>22, <2>1 DEF SeenBy, Settling, StillDisk, Now, Same, Reporting, PlanOf
  <2>3. Below
    BY <1>21, <1>23, <2>1 DEF MarkLow, StillDisk, Now, Same, Running, PlanOf, Backed
  <2> QED BY <2>2, <2>3
<1>20. CASE RecordEnd(h)
  <2>1. StillDisk /\ service' = service /\ helpers[h].at = "report2" /\ helpers'[h].at = "idle"
    <3> DEFINE noted == [disk.outcome EXCEPT ![PlanOf(h)] = helpers[h].verdict]
    <3>1. \/ disk' = [disk EXCEPT !.outcomeTmp = @ \ {PlanOf(h)}, !.outcome = noted]
          \/ disk' = [disk EXCEPT !.outcomeTmp = @ \ {PlanOf(h)}]
      BY <1>20 DEF RecordEnd
    <3> HIDE DEF noted
    <3>2. StillDisk
      BY <1>1, <3>1 DEF StillDisk, TypeOK
    <3> QED BY <1>1, <1>20, <3>2 DEF RecordEnd, OnlyDisk, TypeOK, Idle
  <2> QED BY <1>3, <2>1
<1> QED
  BY <1>4, <1>5, <1>6, <1>7, <1>8, <1>9, <1>10, <1>11, <1>12, <1>13, <1>14, <1>15, <1>16,
       <1>17, <1>18, <1>19, <1>20
     DEF HelperStep, Operation

LEMMA MachineTells ==
  ASSUME IInv, TInv, WorksForward,
         \/ AgentStep \/ RetryDue \/ Unblock \/ PowerLoss \/ ScmStart
         \/ \E h \in Helpers, p \in Plans : Activate(h, p)
  PROVE  TInv'
<1>1. StillDisk
  <2>1. TypeOK
    BY DEF IInv
  <2> QED BY <2>1 DEF AgentStep, CommitStage, WritePlan, Submit, Sweep, PrepareHelper, Launch, RetryDue, Unblock,
                      PowerLoss, ScmStart, Activate, StillDisk, TypeOK
<1>2. ASSUME NEW h \in Helpers
      PROVE  \/ helpers'[h] = helpers[h]
             \/ helpers'[h].at = "idle"
             \/ helpers'[h].at = "verify" /\ (~astray' /\ MarkLow => disk.highWater <= Target[helpers'[h].plan])
  <2>1. CASE Launch
    <3>1. helpers' = helpers \/ \E g \in Helpers : helpers' = [helpers EXCEPT ![g] = StartOf(agent.plan)]
      BY <2>1 DEF Launch
    <3>2. helpers'[h] = helpers[h] \/ helpers'[h] = StartOf(agent.plan)
      BY <3>1 DEF IInv, TypeOK
    <3>3. agent # Idle /\ agent.plan \in Plans
      BY <2>1 DEF Launch, IInv, TypeOK, Idle
    <3>4. MarkLow => disk.highWater <= Target[agent.plan]
      BY <3>3, NumbersOnly DEF WorksForward, MarkLow
    <3> QED BY <3>2, <3>4 DEF StartOf
  <2>2. CASE \E g \in Helpers, p \in Plans : Activate(g, p)
    <3>1. PICK g \in Helpers, p \in Plans :
                 helpers' = [helpers EXCEPT ![g] = StartOf(p)] /\ (Target[p] < disk.highWater => astray')
      BY <2>2 DEF Activate
    <3>2. helpers'[h] = helpers[h] \/ helpers'[h] = StartOf(p)
      BY <3>1 DEF IInv, TypeOK
    <3>3. disk.highWater \in Nat /\ Target[p] \in Nat
      BY NumbersOnly
    <3> QED BY <3>1, <3>2, <3>3 DEF StartOf
  <2>3. CASE PowerLoss
    BY <2>3 DEF PowerLoss, Idle
  <2>4. CASE helpers' = helpers
    BY <2>4
  <2> QED BY <2>1, <2>2, <2>3, <2>4
          DEF AgentStep, CommitStage, WritePlan, Submit, Sweep, PrepareHelper, RetryDue, Unblock, ScmStart
<1>3. \/ service' = service
      \/ service.runs = None /\ service'.runs = disk.binary /\ disk.binary # None
      \/ service'.runs = None /\ \A h \in Helpers : helpers'[h].at = "idle"
  <2>1. CASE PowerLoss
    BY <2>1 DEF PowerLoss, IInv, TypeOK, Idle
  <2>2. CASE ScmStart
    BY <2>2 DEF ScmStart, Running, IInv, TypeOK
  <2>3. CASE service' = service
    BY <2>3
  <2> QED BY <2>1, <2>2, <2>3
          DEF AgentStep, CommitStage, WritePlan, Submit, Sweep, PrepareHelper, Launch, RetryDue, Unblock, Activate
<1>4. \A h \in Helpers \ meddled : (At(h, "mark") \/ Reporting(h, "activated") \/ Reporting(h, "rolled_back")) => service.runs # None
  <2> SUFFICES ASSUME NEW h \in Helpers \ meddled, At(h, "mark") \/ Reporting(h, "activated") \/ Reporting(h, "rolled_back")
               PROVE  service.runs # None
    OBVIOUS
  <2>1. PlanOf(h) \in Plans
    BY StatusOfHelper DEF IInv, Reporting, At, Steps
  <2> QED BY <2>1, NumbersOnly DEF TInv, SwapSeen, SeenBy
<1>5. meddled' = meddled \/ (meddled' = {} /\ \A h \in Helpers : helpers'[h].at = "idle")
  <2>1. CASE PowerLoss
    BY <2>1 DEF PowerLoss, Idle
  <2>2. CASE ~PowerLoss
    BY <2>2 DEF AgentStep, CommitStage, WritePlan, Submit, Sweep, PrepareHelper, Launch, RetryDue, Unblock,
                ScmStart, Activate, overlaps
  <2> QED BY <2>1, <2>2
<1>6. SwapSeen'
  <2> SUFFICES ASSUME NEW h \in Helpers \ meddled' PROVE SeenBy(h)'
    BY DEF SwapSeen
  <2>1. CASE helpers'[h].at \in {"idle", "verify"}
    BY <2>1 DEF SeenBy, Reporting, At
  <2>2. CASE helpers'[h].at \notin {"idle", "verify"}
    <3>1. helpers'[h] = helpers[h] /\ h \notin meddled /\ SeenBy(h)
      BY <1>2, <1>5, <2>2 DEF TInv, SwapSeen
    <3> QED BY <1>1, <1>3, <1>4, <2>2, <3>1 DEF SeenBy, StillDisk, Reporting, PlanOf, At
  <2> QED BY <2>1, <2>2
<1>7. ~astray' => ~astray
  BY DEF AgentStep, CommitStage, WritePlan, Submit, Sweep, PrepareHelper, Launch, RetryDue, Unblock, PowerLoss,
         ScmStart, Activate, overlaps
<1>8. ~astray' => Solo'
  <2> SUFFICES ASSUME ~astray', NEW g \in Helpers, NEW h \in Helpers, helpers'[g].at # "idle", helpers'[h].at # "idle"
               PROVE  g = h
    BY <1>5, <1>7 DEF TInv, Solo
  <2>1. Solo
    BY <1>7 DEF TInv
  <2>2. CASE \A k \in Helpers : helpers'[k] = helpers[k] \/ helpers'[k].at = "idle"
    BY <2>1, <2>2 DEF Solo
  <2>3. CASE \E k \in Helpers : ~(helpers'[k] = helpers[k] \/ helpers'[k].at = "idle")
    <3>1. /\ \E k \in Helpers, p \in Plans \union {agent.plan} : helpers' = [helpers EXCEPT ![k] = StartOf(p)]
          /\ ~Working
      <4>1. CASE Launch
        BY <2>3, <4>1 DEF Launch
      <4>2. CASE \E k \in Helpers, p \in Plans : Activate(k, p)
        BY <4>2 DEF Activate
      <4>3. CASE PowerLoss
        BY <2>3, <4>3 DEF PowerLoss, Idle
      <4> QED BY <2>3, <4>1, <4>2, <4>3
              DEF AgentStep, CommitStage, WritePlan, Submit, Sweep, PrepareHelper, RetryDue, Unblock, ScmStart
    <3> QED BY <3>1 DEF Working, Idle, IInv, TypeOK
  <2> QED BY <2>2, <2>3
<1>9. ~astray' /\ MarkLow => MarkLow'
  BY <1>1, <1>2, <1>3 DEF MarkLow, StillDisk, Running, PlanOf, Backed
<1> QED BY <1>6, <1>7, <1>8, <1>9 DEF TInv

LEMMA TellsStep == IInv /\ WorksForward /\ TInv /\ [Next]_vars => TInv'
<1> SUFFICES ASSUME IInv, WorksForward, TInv, [Next]_vars PROVE TInv'
  OBVIOUS
<1>1. CASE UNCHANGED vars
  BY <1>1 DEF vars, overlaps, TInv, SwapSeen, SeenBy, Solo, MarkLow, Reporting, Running, At, PlanOf
<1> QED BY <1>1, HelperTells, MachineTells DEF Next

LEMMA TellsInit == Init => WorksForward /\ TInv
<1> SUFFICES ASSUME Init PROVE WorksForward /\ TInv
  OBVIOUS
<1>1. First \in Nat
  BY VersionsAssumption
<1> QED BY <1>1 DEF Init, WorksForward, TInv, SwapSeen, SeenBy, Solo, MarkLow, Reporting, Running, At, Idle, Backed

LEMMA TellsInvariant == Spec => [](IInv /\ TInv)
<1>1. WorksForward /\ IInv /\ [Next]_vars => WorksForward'
  BY ForwardStep DEF IInv
<1>2. IInv /\ WorksForward /\ TInv /\ [Next]_vars => TInv'
  BY TellsStep
<1> QED BY <1>1, <1>2, TellsInit, InitSafe, NextSafe, PTL DEF Spec

LEMMA OutcomeStep ==
  IInv /\ TInv /\ [Next]_vars =>
    [\A h \in Helpers \ meddled :
       LET p == helpers[h].plan IN
       (At(h, "report2") /\ disk'.outcome[p] # disk.outcome[p]) =>
         CASE helpers[h].verdict = "activated" ->
                disk.binary = Target[p] /\ service.runs = Target[p]
           [] helpers[h].verdict = "rolled_back" ->
                disk.binary = helpers[h].sum /\ service.runs = helpers[h].sum
           [] OTHER -> TRUE]_vars
<1> SUFFICES ASSUME TInv, NEW h \in Helpers \ meddled, At(h, "report2")
             PROVE  CASE helpers[h].verdict = "activated" ->
                           disk.binary = Target[helpers[h].plan] /\ service.runs = Target[helpers[h].plan]
                      [] helpers[h].verdict = "rolled_back" ->
                           disk.binary = helpers[h].sum /\ service.runs = helpers[h].sum
                      [] OTHER -> TRUE
  OBVIOUS
<1> QED BY DEF TInv, SwapSeen, SeenBy, Reporting, At, PlanOf

LEMMA MarkStep ==
  IInv /\ TInv /\ [Next]_vars => [~astray => disk'.highWater >= disk.highWater]_vars
<1> SUFFICES ASSUME ~astray, IInv, TInv, Next PROVE disk'.highWater >= disk.highWater
  BY DEF vars
<1>1. TypeOK /\ disk.highWater \in Nat
  BY DEF IInv, TypeOK
<1>2. ASSUME NEW h \in Helpers, Mark(h) PROVE disk'.highWater >= disk.highWater
  <2>1. disk' = disk \/ (disk' = [disk EXCEPT !.highWater = Target[PlanOf(h)]] /\ helpers[h].at = "mark")
    BY <1>2 DEF Mark, At
  <2>2. PlanOf(h) \in Plans /\ disk.highWater <= Target[PlanOf(h)] /\ Target[PlanOf(h)] \in Nat
    BY <1>1, <1>2, StatusOfHelper, NumbersOnly DEF Mark, At, TInv, MarkLow, Steps
  <2>3. disk'.highWater \in {disk.highWater, Target[PlanOf(h)]}
    BY <1>1, <2>1 DEF TypeOK
  <2> QED BY <1>1, <2>2, <2>3
<1>3. ASSUME NEW h \in Helpers, HelperStep(h), ~Mark(h) PROVE disk'.highWater = disk.highWater
  <2>1. CASE RecordEnd(h)
    <3> DEFINE noted == [disk.outcome EXCEPT ![PlanOf(h)] = helpers[h].verdict]
    <3>1. \/ disk' = [disk EXCEPT !.outcomeTmp = @ \ {PlanOf(h)}, !.outcome = noted]
          \/ disk' = [disk EXCEPT !.outcomeTmp = @ \ {PlanOf(h)}]
      BY <2>1 DEF RecordEnd
    <3> HIDE DEF noted
    <3> QED BY <1>1, <3>1 DEF TypeOK
  <2>2. CASE Rename(h) \/ RollbackRename(h)
    BY <1>1, <2>2, DiskTypes DEF Rename, RollbackRename, TypeOK
  <2>3. CASE Verify(h) \/ BackupBegin(h) \/ BackupEnd(h) \/ StopService(h) \/ CopyBegin(h) \/ CopyEnd(h)
    BY <1>1, <2>3 DEF Verify, BackupBegin, BackupEnd, StopService, CopyBegin, CopyEnd, TypeOK
  <2>4. CASE Remove(h) \/ Start(h) \/ RollbackBegin(h) \/ RollbackEnd(h) \/ RollbackRemove(h)
             \/ RollbackStart(h) \/ RecordBegin(h)
    BY <1>1, <2>4 DEF Remove, Start, RollbackBegin, RollbackEnd, RollbackRemove, RollbackStart,
                      StartService, RecordBegin, TypeOK
  <2> QED BY <1>3, <2>1, <2>2, <2>3, <2>4 DEF HelperStep, Operation
<1>4. CASE \/ AgentStep \/ RetryDue \/ Unblock \/ PowerLoss \/ ScmStart
           \/ \E h \in Helpers, p \in Plans : Activate(h, p)
  <2>1. disk'.highWater = disk.highWater
    BY <1>1, <1>4 DEF AgentStep, CommitStage, WritePlan, Submit, Sweep, PrepareHelper, Launch, RetryDue, Unblock,
                      PowerLoss, ScmStart, Activate, TypeOK
  <2> QED BY <1>1, <2>1
<1> QED BY <1>1, <1>2, <1>3, <1>4 DEF Next

(* The evidence a helper leaves is true, whatever failed, wherever power was *)
(* lost and however many helpers there are: a binary it calls activated or   *)
(* rolled back to is in place and is the one the service runs, unless,       *)
(* since it removed the old one, another helper stopped the service or       *)
(* changed the binary itself.                                                *)
THEOREM EvidenceIsTrue == Spec => OutcomeTruth
<1>1. Spec => [](IInv /\ TInv)
  BY TellsInvariant
<1> QED BY <1>1, OutcomeStep, PTL DEF Spec, OutcomeTruth

(* The mark of the highest version activated is written unread and yet does  *)
(* not fall, with plans activated by the agent and by hand one after the     *)
(* other, until two helpers overlap or a plan below the mark is tried.       *)
THEOREM MarkAdvances == Spec => HighWaterAdvances
<1>1. Spec => [](IInv /\ TInv)
  BY TellsInvariant
<1> QED BY <1>1, MarkStep, PTL DEF Spec, HighWaterAdvances

(* Together: what an update says and does is true and forward.               *)
THEOREM UpdatesGoForward == Spec => UpdatesForward
BY EvidenceIsTrue, MarkAdvances, LaunchesGoForward DEF UpdatesForward
=============================================================================
