------------------------------ MODULE SelfUpdate ------------------------------
(***************************************************************************)
(* Activation of a staged self-update: the plan left by                    *)
(* selfupdate/stager.go, the hook and the sweep of                         *)
(* cmd/endpoint-agent/selfupdate_activation.go, which copy the agent to a  *)
(* helper and start it, and the helper itself, ActivatePreparedUpdate of   *)
(* selfupdate/activation_execute.go, which stops the service, swaps its    *)
(* binary, starts it again or rolls back.                                  *)
(*                                                                         *)
(* Agent, helpers and the service manager are processes of one machine and *)
(* share its disk.  Any of their file and service operations may fail; the *)
(* machine may lose power between any two of them.  A binary is the        *)
(* version it was built as; a plan is a number, in the order of staging.   *)
(***************************************************************************)
EXTENDS Integers, FiniteSets

CONSTANTS
  Plans,            \* staging ids
  Target,           \* the version each plan installs
  First,            \* the version installed at the start
  None, Torn,       \* no such file; a file whose writing was cut short
  Helpers,          \* helper processes that may run at a time
  MaxFaults,        \* bound on the operations that fail
  MaxCrashes,       \* bound on the losses of power
  MaxManual         \* bound on the runs of "self-update activate" by hand

Versions == {First} \union {Target[p] : p \in Plans}

ASSUME PlansAssumption == Plans \subseteq Nat
ASSUME VersionsAssumption ==
  First \in Nat \ {0} /\ Target \in [Plans -> Nat \ {0}]
ASSUME NoFileAssumption == None \notin Nat /\ Torn \notin Nat /\ None # Torn
ASSUME LimitsAssumption ==
  MaxFaults \in Nat /\ MaxCrashes \in Nat /\ MaxManual \in Nat

VARIABLES
  disk,             \* the staging directory and the service's binary
  service,          \* runs: the version in memory; scm: the manager will start it
  agent,            \* the update work of the service's process
  helpers,          \* the helper processes
  blocked,          \* the machine's policy refuses to start helpers
  reported,         \* what the backend was told about each plan
  launched,         \* history: helpers started by the agent for each plan
  meddled,          \* history: helpers whose swap another helper has reached into
  astray,           \* history: helpers overlapped, or a plan below the mark was tried
  faults, crashes, manual

overlaps == << meddled, astray >>
vars == << disk, service, agent, helpers, blocked, reported, launched,
           overlaps, faults, crashes, manual >>

Idle == [at |-> "idle"]

Init ==
  /\ disk = [binary |-> First,          \* CurrentBinaryPath
             newTmp |-> None,           \* CurrentBinaryPath + ".ag029.tmp"
             oldTmp |-> None,           \* CurrentBinaryPath + ".ag029.rollback.tmp"
             staged |-> {},             \* staged-<id>.bin
             planned |-> {},            \* activation-<id>.json
             helper |-> {},             \* activation-helper-<id>.exe
             paced |-> {},              \* activation-attempt-<id>.json, still recent
             backup |-> [p \in Plans |-> None],       \* rollback-<id>.bin
             outcome |-> [p \in Plans |-> "none"],    \* activation-outcome-<id>.json
             outcomeTmp |-> {},         \* the same name + ".tmp"
             highWater |-> 0]           \* max-activated-version.txt, 0 if absent
  /\ service = [runs |-> First, scm |-> FALSE, stray |-> FALSE]
  /\ agent = Idle
  /\ helpers = [h \in Helpers |-> Idle]
  /\ blocked \in BOOLEAN
  /\ reported = [p \in Plans |-> "nothing"]
  /\ launched = [p \in Plans |-> 0]
  /\ meddled = {} /\ astray = FALSE
  /\ faults = 0 /\ crashes = 0 /\ manual = 0

\* An operation works, or is one of the bounded number that fail.
Works == UNCHANGED faults
Fails == faults < MaxFaults /\ faults' = faults + 1

-----------------------------------------------------------------------------
(* The agent: staging, the hook, the sweep.                                *)

Running == service.runs # None

\* Stage, up to Commit: strictly newer than what runs and what was ever activated.
CommitStage(p) ==
  /\ Running /\ agent = Idle
  /\ p \notin disk.staged /\ \A q \in Plans : q < p => q \in disk.staged
  /\ Target[p] > service.runs /\ Target[p] > disk.highWater
  /\ disk' = [disk EXCEPT !.staged = @ \union {p}]
  /\ agent' = [at |-> "plan", plan |-> p]
  /\ UNCHANGED << service, helpers, blocked, reported, launched, overlaps, faults, crashes, manual >>

\* WriteActivationPlan; when only the hardening of the renamed file fails, Stage
\* reports a failure although the plan is there.
WritePlan ==
  /\ Running /\ agent.at = "plan"
  /\ \/ /\ Works
        /\ disk' = [disk EXCEPT !.planned = @ \union {agent.plan}]
        /\ agent' = [agent EXCEPT !.at = "submit"]
        /\ UNCHANGED reported
     \/ /\ Fails
        /\ \/ UNCHANGED disk
           \/ disk' = [disk EXCEPT !.planned = @ \union {agent.plan}]
        /\ agent' = Idle
        /\ reported' = [reported EXCEPT ![agent.plan] = "failed"]
  /\ UNCHANGED << service, helpers, blocked, launched, overlaps, crashes, manual >>

\* SubmitResult, then the hook: the backend takes the result, refuses it and takes
\* the FAILED fallback, or cannot be reached, and then there is no hook.
Submit ==
  /\ Running /\ agent.at = "submit"
  /\ \/ /\ \E r \in {"staged", "failed"} : reported' = [reported EXCEPT ![agent.plan] = r]
        /\ agent' = [agent EXCEPT !.at = "prepare"]
     \/ agent' = Idle /\ UNCHANGED reported
  /\ UNCHANGED << disk, service, helpers, blocked, launched, overlaps, faults, crashes, manual >>

\* A plan FindPendingActivation accepts, in the eyes of version v.
Pending(p, v) ==
  /\ p \in disk.planned /\ disk.outcome[p] = "none"
  /\ disk.binary # None /\ p \in disk.staged
  /\ Target[p] > v

\* The newest pending plan, unless it was tried within the retry interval.
Sweep ==
  /\ Running /\ agent = Idle
  /\ \E p \in Plans :
       /\ Pending(p, service.runs)
       /\ \A q \in Plans : Pending(q, service.runs) => q <= p
       /\ p \notin disk.paced
       /\ disk' = [disk EXCEPT !.paced = @ \union {p}]
       /\ agent' = [at |-> "prepare", plan |-> p]
  /\ UNCHANGED << service, helpers, blocked, reported, launched, overlaps, faults, crashes, manual >>

\* A faulty variant of the next definition, for the mutation of the model.
PrepareHelperAnew ==
  /\ Running /\ agent.at = "prepare"
  /\ agent' = [agent EXCEPT !.at = "launch"]
  /\ disk' = [disk EXCEPT !.helper = @ \union {agent.plan}]
  /\ UNCHANGED << service, helpers, blocked, reported, launched, overlaps, faults, crashes, manual >>

\* PrepareActivationHelper: it refuses when the helper's file exists.
PrepareHelper ==
  /\ Running /\ agent.at = "prepare"
  /\ IF agent.plan \in disk.helper
     THEN agent' = Idle /\ UNCHANGED disk
     ELSE /\ agent' = [agent EXCEPT !.at = "launch"]
          /\ disk' = [disk EXCEPT !.helper = @ \union {agent.plan}]
  /\ UNCHANGED << service, helpers, blocked, reported, launched, overlaps, faults, crashes, manual >>

Working == \E h \in Helpers : helpers[h] # Idle
StartOf(p) == [at |-> "verify", plan |-> p, sum |-> None, verdict |-> "failed"]

\* The copy is complete and the process started, the copy fails and is removed, or
\* the policy refuses the start and the file stays.
Launch ==
  /\ Running /\ agent.at = "launch"
  /\ \/ /\ Works /\ ~blocked
        /\ \E h \in Helpers : /\ helpers[h] = Idle
                              /\ helpers' = [helpers EXCEPT ![h] = StartOf(agent.plan)]
        /\ launched' = [launched EXCEPT ![agent.plan] = @ + 1]
        /\ astray' = (astray \/ Working)
        /\ UNCHANGED disk
     \/ Works /\ blocked /\ UNCHANGED << disk, helpers, launched, astray >>
     \/ /\ Fails
        /\ disk' = [disk EXCEPT !.helper = @ \ {agent.plan}]
        /\ UNCHANGED << helpers, launched, astray >>
  /\ agent' = Idle
  /\ UNCHANGED << service, blocked, reported, meddled, crashes, manual >>

-----------------------------------------------------------------------------
(* The helper: ActivatePreparedUpdate.                                     *)

Goto(h, at) == helpers' = [helpers EXCEPT ![h].at = at]
Conclude(h, verdict) ==
  helpers' = [helpers EXCEPT ![h].at = "report", ![h].verdict = verdict]

At(h, at) == helpers[h].at = at
PlanOf(h) == helpers[h].plan

OnlyDisk == UNCHANGED << service, agent, blocked, reported, launched, crashes, manual >>

\* LoadActivationPlan and VerifyActivationPlanReady.
Verify(h) ==
  /\ At(h, "verify")
  /\ IF PlanOf(h) \in disk.planned \intersect disk.staged /\ disk.binary # None
     THEN Goto(h, "backup") ELSE Conclude(h, "failed")
  /\ UNCHANGED << disk, faults >> /\ OnlyDisk

\* The backup: copyBinaryWithExpectedHash never overwrites.
BackupBegin(h) ==
  /\ At(h, "backup")
  /\ IF disk.backup[PlanOf(h)] = None /\ disk.binary # None
     THEN /\ disk' = [disk EXCEPT !.backup[PlanOf(h)] = Torn]
          /\ helpers' = [helpers EXCEPT ![h].at = "backup2", ![h].sum = disk.binary]
     ELSE Conclude(h, "failed") /\ UNCHANGED disk
  /\ Works /\ OnlyDisk

\* A faulty variant of the next definition, for the mutation of the model.
BackupEndSkipped(h) ==
  /\ At(h, "backup2")
  /\ disk' = [disk EXCEPT !.backup[PlanOf(h)] = None]
  /\ Goto(h, "stop")
  /\ Works /\ OnlyDisk

BackupEnd(h) ==
  /\ At(h, "backup2")
  /\ \/ /\ Works
        /\ disk' = [disk EXCEPT !.backup[PlanOf(h)] = helpers[h].sum]
        /\ Goto(h, "stop")
     \/ /\ Fails
        /\ disk' = [disk EXCEPT !.backup[PlanOf(h)] = None]
        /\ Conclude(h, "failed")
  /\ OnlyDisk

\* Stop: it may be refused, or give up waiting for a service that stops all the
\* same.  A service that stops in an orderly way is not restarted by the manager;
\* one that gave up waiting for its own work is.
StopService(h) ==
  /\ At(h, "stop")
  /\ \/ /\ Works /\ Goto(h, "copy")
        /\ service' = [service EXCEPT !.runs = None]
     \/ /\ Fails /\ Running /\ Goto(h, "copy")
        /\ service' = [service EXCEPT !.runs = None, !.scm = TRUE]
     \/ /\ Fails /\ Conclude(h, "failed")
        /\ \/ UNCHANGED service
           \/ Running /\ service' = [service EXCEPT !.runs = None, !.scm = TRUE]
           \/ Running /\ service' = [service EXCEPT !.runs = None, !.stray = TRUE]
  /\ agent' = IF service'.runs = None THEN Idle ELSE agent
  /\ UNCHANGED << disk, blocked, reported, launched, crashes, manual >>

\* A faulty variant of the next definition, for the mutation of the model.
CopyBeginRenames(h) ==
  /\ At(h, "copy")
  /\ disk' = [disk EXCEPT !.newTmp = Torn] /\ Goto(h, "remove")
  /\ Works /\ OnlyDisk

\* The staged binary, next to the one it will replace.
CopyBegin(h) ==
  /\ At(h, "copy")
  /\ IF disk.newTmp = None
     THEN disk' = [disk EXCEPT !.newTmp = Torn] /\ Goto(h, "copy2")
     ELSE UNCHANGED disk /\ Goto(h, "rcopy")
  /\ Works /\ OnlyDisk

CopyEnd(h) ==
  /\ At(h, "copy2")
  /\ \/ Works /\ disk' = [disk EXCEPT !.newTmp = Target[PlanOf(h)]] /\ Goto(h, "remove")
     \/ Fails /\ disk' = [disk EXCEPT !.newTmp = None] /\ Goto(h, "rcopy")
  /\ OnlyDisk

\* replaceFile: remove, then rename.  A running binary cannot be removed.
Remove(h) ==
  /\ At(h, "remove")
  /\ \/ /\ Works /\ ~Running
        /\ disk' = [disk EXCEPT !.binary = None] /\ Goto(h, "rename")
     \/ /\ IF Running THEN Works ELSE Fails
        /\ disk' = [disk EXCEPT !.newTmp = None] /\ Goto(h, "rcopy")
  /\ OnlyDisk

Rename(h) ==
  /\ At(h, "rename")
  /\ \/ /\ Works /\ Goto(h, "start")
        /\ disk' = [disk EXCEPT !.binary = disk.newTmp, !.newTmp = None]
     \/ /\ Fails /\ Goto(h, "rcopy")
        /\ \/ disk' = [disk EXCEPT !.newTmp = None]
           \/ disk' = [disk EXCEPT !.binary = disk.newTmp, !.newTmp = None]
  /\ OnlyDisk

\* Start does nothing to a service that runs; it may give up waiting for one that
\* comes up all the same.
StartService(h, onSuccess, onFailure) ==
  /\ \/ /\ Works /\ Running /\ onSuccess /\ UNCHANGED service
     \/ /\ Works /\ ~Running /\ disk.binary # None /\ onSuccess
        /\ service' = [service EXCEPT !.runs = disk.binary, !.scm = FALSE]
     \/ /\ Works /\ ~Running /\ disk.binary = None /\ onFailure /\ UNCHANGED service
     \/ /\ Fails /\ ~Running /\ onFailure
        /\ \/ UNCHANGED service
           \/ /\ disk.binary # None
              /\ service' = [service EXCEPT !.runs = disk.binary, !.scm = FALSE]
  /\ UNCHANGED << disk, agent, blocked, reported, launched, crashes, manual >>

\* A faulty variant of the next definition, for the mutation of the model.
StartUnrecovered(h) ==
  At(h, "start") /\ StartService(h, Goto(h, "mark"), Conclude(h, "failed"))

Start(h) == At(h, "start") /\ StartService(h, Goto(h, "mark"), Goto(h, "rcopy"))

\* WriteMaxSeen does not compare with what is there.
Mark(h) ==
  /\ At(h, "mark")
  /\ \/ /\ Works /\ Conclude(h, "activated")
        /\ disk' = [disk EXCEPT !.highWater = Target[PlanOf(h)]]
     \/ Fails /\ Conclude(h, "failed") /\ UNCHANGED disk
  /\ OnlyDisk

\* rollbackAfterActivationFailure: the same steps with the backup.
RollbackBegin(h) ==
  /\ At(h, "rcopy")
  /\ IF disk.oldTmp = None /\ disk.backup[PlanOf(h)] = helpers[h].sum
     THEN disk' = [disk EXCEPT !.oldTmp = Torn] /\ Goto(h, "rcopy2")
     ELSE UNCHANGED disk /\ Conclude(h, "failed")
  /\ Works /\ OnlyDisk

RollbackEnd(h) ==
  /\ At(h, "rcopy2")
  /\ \/ Works /\ disk' = [disk EXCEPT !.oldTmp = helpers[h].sum] /\ Goto(h, "rremove")
     \/ Fails /\ disk' = [disk EXCEPT !.oldTmp = None] /\ Conclude(h, "failed")
  /\ OnlyDisk

RollbackRemove(h) ==
  /\ At(h, "rremove")
  /\ \/ /\ Works /\ ~Running
        /\ disk' = [disk EXCEPT !.binary = None] /\ Goto(h, "rrename")
     \/ /\ IF Running THEN Works ELSE Fails
        /\ disk' = [disk EXCEPT !.oldTmp = None] /\ Conclude(h, "failed")
  /\ OnlyDisk

RollbackRename(h) ==
  /\ At(h, "rrename")
  /\ \/ /\ Works /\ Goto(h, "rstart")
        /\ disk' = [disk EXCEPT !.binary = disk.oldTmp, !.oldTmp = None]
     \/ /\ Fails /\ Conclude(h, "failed")
        /\ \/ disk' = [disk EXCEPT !.oldTmp = None]
           \/ disk' = [disk EXCEPT !.binary = disk.oldTmp, !.oldTmp = None]
  /\ OnlyDisk

\* A faulty variant of the next definition, for the mutation of the model.
RollbackStartSkipped(h) ==
  /\ At(h, "rstart") /\ Conclude(h, "rolled_back")
  /\ UNCHANGED disk /\ Works /\ OnlyDisk

RollbackStart(h) ==
  At(h, "rstart") /\ StartService(h, Conclude(h, "rolled_back"), Conclude(h, "failed"))

\* WriteActivationOutcome: nothing once the helper's time is up, nothing over a
\* temporary file left behind.
RecordBegin(h) ==
  /\ At(h, "report")
  /\ \/ /\ Works /\ PlanOf(h) \notin disk.outcomeTmp
        /\ disk' = [disk EXCEPT !.outcomeTmp = @ \union {PlanOf(h)}]
        /\ Goto(h, "report2")
     \/ /\ IF PlanOf(h) \in disk.outcomeTmp THEN Works ELSE Fails
        /\ helpers' = [helpers EXCEPT ![h] = Idle] /\ UNCHANGED disk
  /\ OnlyDisk

RecordEnd(h) ==
  /\ At(h, "report2")
  /\ \/ /\ Works
        /\ disk' = [disk EXCEPT !.outcomeTmp = @ \ {PlanOf(h)},
                                !.outcome[PlanOf(h)] = helpers[h].verdict]
     \/ Fails /\ disk' = [disk EXCEPT !.outcomeTmp = @ \ {PlanOf(h)}]
  /\ helpers' = [helpers EXCEPT ![h] = Idle]
  /\ OnlyDisk

Operation(h) ==
  \/ Verify(h) \/ BackupBegin(h) \/ BackupEnd(h) \/ StopService(h)
  \/ CopyBegin(h) \/ CopyEnd(h) \/ Remove(h) \/ Rename(h) \/ Start(h) \/ Mark(h)
  \/ RollbackBegin(h) \/ RollbackEnd(h) \/ RollbackRemove(h) \/ RollbackRename(h)
  \/ RollbackStart(h) \/ RecordBegin(h) \/ RecordEnd(h)

\* History: h stops the service or changes the binary while another helper is
\* between the removal of the binary and the end of its report.
Settling == {"rename", "start", "mark", "rrename", "rstart", "report", "report2"}
Disturbs == (Running /\ service'.runs = None) \/ disk'.binary # disk.binary
Meddle(h) ==
  meddled' = {g \in Helpers : /\ helpers'[g].at \in Settling
                              /\ g \in meddled \/ (g # h /\ Disturbs)}

HelperStep(h) == Operation(h) /\ Meddle(h) /\ UNCHANGED astray

-----------------------------------------------------------------------------
(* The machine around them.                                                *)

\* Fifteen minutes pass.
RetryDue ==
  /\ disk.paced # {} /\ disk' = [disk EXCEPT !.paced = {}]
  /\ UNCHANGED << service, agent, helpers, blocked, reported, launched, overlaps, faults, crashes, manual >>

\* The policy that refused the helpers is lifted.
Unblock ==
  /\ blocked /\ blocked' = FALSE
  /\ UNCHANGED << disk, service, agent, helpers, reported, launched, overlaps, faults, crashes, manual >>

\* endpoint-agent self-update activate --staging-id, typed by an operator.
Activate(h, p) ==
  /\ manual < MaxManual /\ manual' = manual + 1
  /\ helpers[h] = Idle /\ p \in disk.staged
  /\ helpers' = [helpers EXCEPT ![h] = StartOf(p)]
  /\ astray' = (astray \/ Working \/ Target[p] < disk.highWater)
  /\ UNCHANGED << disk, service, agent, blocked, reported, launched, meddled, faults, crashes >>

PowerLoss ==
  /\ crashes < MaxCrashes /\ crashes' = crashes + 1
  /\ service' = [service EXCEPT !.runs = None, !.scm = TRUE, !.stray = FALSE]
  /\ agent' = Idle
  /\ helpers' = [h \in Helpers |-> Idle] /\ meddled' = {}
  /\ UNCHANGED << disk, blocked, reported, launched, astray, faults, manual >>

\* The service manager starts the service: at boot, or after a failed exit.
ScmStart ==
  /\ service.scm /\ ~Running /\ disk.binary # None
  /\ service' = [service EXCEPT !.runs = disk.binary, !.scm = FALSE]
  /\ UNCHANGED << disk, agent, helpers, blocked, reported, launched, overlaps, faults, crashes, manual >>

AgentStep ==
  \/ \E p \in Plans : CommitStage(p)
  \/ WritePlan \/ Submit \/ Sweep \/ PrepareHelper \/ Launch

Next ==
  \/ AgentStep
  \/ \E h \in Helpers : HelperStep(h) \/ \E p \in Plans : Activate(h, p)
  \/ RetryDue \/ Unblock \/ PowerLoss \/ ScmStart

Spec == Init /\ [][Next]_vars

\* The agent sweeps at every poll, time passes, a helper runs until it ends, and the
\* service manager does what it is configured to.  Nothing is assumed of the backend.
Fairness ==
  /\ WF_vars(WritePlan \/ Submit \/ PrepareHelper \/ Launch)
  /\ WF_vars(Sweep) /\ WF_vars(RetryDue) /\ WF_vars(ScmStart)
  /\ \A h \in Helpers : WF_vars(HelperStep(h))

FairSpec == Spec /\ Fairness

-----------------------------------------------------------------------------
Files == Versions \union {None, Torn}
Verdicts == {"activated", "rolled_back", "failed"}
Steps == {"verify", "backup", "backup2", "stop", "copy", "copy2", "remove", "rename",
          "start", "mark", "rcopy", "rcopy2", "rremove", "rrename", "rstart",
          "report", "report2"}

(* Type invariant.                                                         *)
TypeOK ==
  /\ disk \in [binary : Files, newTmp : Files, oldTmp : Files,
               staged : SUBSET Plans, planned : SUBSET Plans, helper : SUBSET Plans,
               paced : SUBSET Plans, backup : [Plans -> Files],
               outcome : [Plans -> Verdicts \union {"none"}],
               outcomeTmp : SUBSET Plans, highWater : Nat]
  /\ service \in [runs : Files, scm : BOOLEAN, stray : BOOLEAN]
  /\ agent \in {Idle} \union [at : {"plan", "submit", "prepare", "launch"}, plan : Plans]
  /\ helpers \in [Helpers -> {Idle} \union
                   [at : Steps, plan : Plans, sum : Files,
                    verdict : Verdicts]]
  /\ blocked \in BOOLEAN
  /\ reported \in [Plans -> {"nothing", "failed", "staged"}]
  /\ launched \in [Plans -> Nat] /\ meddled \subseteq Helpers /\ astray \in BOOLEAN
  /\ faults \in 0..MaxFaults /\ crashes \in 0..MaxCrashes /\ manual \in 0..MaxManual

(* Wherever power is lost, a working binary is left: at the service's path *)
(* or, complete, in a backup.  The swap removes the binary before it puts  *)
(* the new one in its place, and two helpers may swap at a time.           *)
NeverLost ==
  disk.binary = None => \E p \in Plans : disk.backup[p] \in Versions

(* What stands at the service's path was either installed there or is the  *)
(* verified binary of a plan: no torn copy is ever promoted, by the swap,  *)
(* by a rollback, or after a crash left temporary files behind.            *)
OnlyVerified ==
  /\ disk.binary \in {None, First} \union {Target[p] : p \in disk.planned}
  /\ Running => service.runs \in {First} \union {Target[p] : p \in disk.planned}

(* The evidence is true when it is written: ServiceRunningVerified of an   *)
(* outcome means that the service runs the binary the outcome names. That  *)
(* is so of any number of helpers, for those whose swap no other has       *)
(* reached into; nothing in the code keeps two from overlapping.           *)
OutcomeTruth ==
  [][\A h \in Helpers \ meddled :
       LET p == helpers[h].plan IN
       (At(h, "report2") /\ disk'.outcome[p] # disk.outcome[p]) =>
         CASE helpers[h].verdict = "activated" ->
                disk.binary = Target[p] /\ service.runs = Target[p]
           [] helpers[h].verdict = "rolled_back" ->
                disk.binary = helpers[h].sum /\ service.runs = helpers[h].sum
           [] OTHER -> TRUE]_vars

(* The agent starts a helper for a plan once, and only towards a newer     *)
(* version than the one it runs: "never re-run history".                   *)
LaunchedOnce == \A p \in Plans : launched[p] <= 1

LaunchedForward ==
  [][\A p \in Plans :
       launched'[p] # launched[p] => Running /\ Target[p] > service.runs]_vars

(* "A persisted monotonic high-water mark" (threat model, section 6),      *)
(* although it is written unread: until helpers have overlapped, or an     *)
(* operator has activated a plan older than the mark.                      *)
HighWaterAdvances == [][~astray => disk'.highWater >= disk.highWater]_vars

(* What an update says and does is true and forward: no evidence of a        *)
(* binary that does not run, no launch and no mark towards an older version. *)
UpdatesForward ==
  /\ OutcomeTruth
  /\ LaunchedForward
  /\ HighWaterAdvances

(* One failing operation never leaves the machine without its agent: the   *)
(* swap or its rollback brings the service back.  Excepted are a service   *)
(* that stops after the helper has given up on stopping it, and helpers    *)
(* that overlap: the second may stop what the first has started.           *)
ServiceReturns == ~Running /\ ~service.stray ~> Running \/ astray

(* activation_pending.go: the retry "re-launches the activation hook" and  *)
(* "deliberately never gives up", so that a lifted policy heals the lane.  *)
RetryReachesHelper ==
  \A p \in Plans :
    (Running /\ ~blocked /\ Pending(p, service.runs))
      ~> (launched[p] > 0 \/ \E q \in Plans : q > p /\ q \in disk.planned)

(* SelfUpdateActivationHook "is called only after a successful             *)
(* UPDATE_AGENT staging result has been submitted to the backend".         *)
ActivationWasReported == \A p \in Plans : launched[p] > 0 => reported[p] = "staged"
===============================================================================
