------------------------------ MODULE Commands ------------------------------
(* internal/commands: the executor of the claimed commands. A command is     *)
(* checked against its claim, the capabilities of the build and its payload, *)
(* handed to the part of the agent that carries it out, and answered with    *)
(* one status. The parts are Software, DisplayPolicy, LocalUsers,            *)
(* UpdateStaging, BackupManifest, Inventory and TpmRenewal; they share no    *)
(* state.                                                                    *)
EXTENDS Integers, Sequences, FiniteSets

CONSTANTS Sent,     \* [type, sound, expired, reason, malformed, body]: commands of the backend
          Builds,   \* [windows, updates, backups, renewal, store]: what the agent was set up with
          Themes,   \* [types, tree, machine]: what one behaviour is about
          Requests, InitialHosts, Entries, MaxCommands, MaxOthers,
          Orders, Sids, Contents, MaxAssetBytes, MaxOrders, MaxSignIns,
          Mutations, InitialSam, Groups, InitialGroups, MaxExpansionDepth, MaxGroups, MaxMutations, MaxChanges,
          Payloads, Chains, Binaries, Hosts, Signers, Tier, HardMaxBytes, MaxRedirects,
          InitialVersion, Reinstalls, MaxStagings, MaxFaults,
          Roots, Trees, Edits, RedNames, RedSegments, Archives, Siblings, MaxDepth, MaxScans, MaxEdits,
          Asked, Machines, Turns, Allowlist, Volumes, MaxPages, Cap, MaxTurns, MaxAsked,
          Renewals, OldFiles, MaxAttempts, MaxRenewals

VARIABLES theme,    \* the commands sent in this behaviour, and the host it starts on
          build,    \* what the agent was set up with
          command,  \* the command under execution
          result,   \* the last result
          host, proc, orphans, job, last, ctx, fresh, nCommands, nOthers,
          hive, store, order, report, nOrders, nSignIns,
          sam, groups, mutation, outcome, nMutations, nChanges,
          installed, helpers, staged, plans, update, stage, nStagings, nFaults,
          tree, scan, manifest, nScans, nEdits,
          machine, block, sheet, nAsked, nTurns,
          file, issued, child, renewed, nRenewals

S == INSTANCE Software
D == INSTANCE DisplayPolicy
U == INSTANCE LocalUsers WITH MaxDepth <- MaxExpansionDepth
P == INSTANCE UpdateStaging
B == INSTANCE BackupManifest
I == INSTANCE Inventory WITH Hosts <- Machines
R == INSTANCE TpmRenewal

ASSUME CommandsAssumption ==
  /\ S!SoftwareAssumption /\ D!DisplayAssumption /\ U!UsersAssumption
  /\ P!StagingAssumption /\ B!BackupAssumption /\ I!InventoryAssumption /\ R!RenewalAssumption
\* A payload that decodes is one of the part it is for.
ASSUME BodiesAssumption ==
  \A c \in Sent : ~c.malformed =>
    /\ c.type \in {"INSTALL_SOFTWARE", "UNINSTALL_SOFTWARE"} => c.body \in Requests
    /\ c.type = "SET_DISPLAY_POLICY" => c.body \in Orders
    /\ c.type \in {"LOCK_USER_LOGIN", "UNLOCK_USER_LOGIN", "CHANGE_LOCAL_PASSWORD"} => c.body \in Mutations
    /\ c.type = "UPDATE_AGENT" => c.body \in Payloads
    /\ c.type = "COLLECT_BACKUP_DRYRUN" => c.body \in Roots
    /\ c.type = "COLLECT_INVENTORY" => c.body \in Asked
    /\ c.type = "RENEW_TPM_CERTIFICATE" => c.body \in Renewals

executor  == <<theme, build, command, result>>
software  == <<host, proc, orphans, job, last, ctx, fresh, nCommands, nOthers>>
display   == <<hive, store, order, report, nOrders, nSignIns>>
users     == <<sam, groups, mutation, outcome, nMutations, nChanges>>
staging   == <<installed, helpers, staged, plans, update, stage, nStagings, nFaults>>
backup    == <<tree, scan, manifest, nScans, nEdits>>
inventory == <<machine, block, sheet, nAsked, nTurns>>
renewals  == <<file, issued, child, renewed, nRenewals>>
commands  == <<executor, software, display, users, staging, backup, inventory, renewals>>
-----------------------------------------------------------------------------
Installs  == {"INSTALL_SOFTWARE", "UNINSTALL_SOFTWARE"}
Mutates   == {"LOCK_USER_LOGIN", "UNLOCK_USER_LOGIN", "CHANGE_LOCAL_PASSWORD"}
\* Answered by one call each, which changes nothing.
OneCall   == {"LIST_LOCAL_USERS", "GET_LOGGED_IN_USER", "GET_USER_HOME_PATHS"}

\* What an agent set up like this tells the backend it can do.
Capabilities(b) ==
  {"COLLECT_INVENTORY", "GET_LOGGED_IN_USER", "GET_USER_HOME_PATHS"}
  \cup (IF b.windows THEN Installs \cup Mutates \cup {"LIST_LOCAL_USERS", "SET_DISPLAY_POLICY"} ELSE {})
  \cup (IF b.windows /\ b.updates THEN {"UPDATE_AGENT"} ELSE {})
  \cup (IF b.windows /\ b.backups THEN {"COLLECT_BACKUP_DRYRUN"} ELSE {})
  \cup (IF b.windows /\ b.renewal THEN {"RENEW_TPM_CERTIFICATE"} ELSE {})
  \cup (IF b.windows /\ b.store THEN {"SET_DISPLAY_POLICY_MANAGED_ASSET"} ELSE {})

RequiresReason(type) == type \in Mutates \cup {"UPDATE_AGENT", "RENEW_TPM_CERTIFICATE", "COLLECT_BACKUP_DRYRUN"}

\* The status a command is refused with before anything is done, or none.
Validate(c) ==
  IF ~c.sound THEN "FAILED"
  ELSE IF c.expired THEN "EXPIRED"
  ELSE IF c.type \notin Capabilities(build) THEN "UNSUPPORTED"
  ELSE IF RequiresReason(c.type) /\ c.reason = "" THEN "FAILED"
  ELSE ""
\* The payload decoded; a capability of the executor's own is no command.
Dispatched(c) ==
  IF c.type = "SET_DISPLAY_POLICY_MANAGED_ASSET" THEN "UNSUPPORTED"
  ELSE IF c.malformed THEN "FAILED" ELSE ""
Refusal(c) == IF Validate(c) # "" THEN Validate(c) ELSE Dispatched(c)
-----------------------------------------------------------------------------
(* The statuses of the parts, in the words of the backend.                   *)
Truth(ok, unsupported, status) ==
  IF status \in ok THEN "SUCCEEDED" ELSE IF status \in unsupported THEN "UNSUPPORTED" ELSE "FAILED"

\* A mapping that mixes up two names of the two pipelines.
MapInstallStatusMixed(status) ==
  Truth({"SUCCEEDED", "SUCCEEDED_NOOP", "SUCCEEDED_REBOOT_REQUIRED"},
        {"FAILED_UNSUPPORTED_PLATFORM", "FAILED_UNSUPPORTED_DETECTION_RULE", "FAILED_VERIFICATION"}, status)
MapInstallStatus(status) ==
  Truth({"SUCCEEDED", "SUCCEEDED_NOOP", "SUCCEEDED_REBOOT_REQUIRED"},
        {"FAILED_UNSUPPORTED_PLATFORM", "FAILED_UNSUPPORTED_DETECTION_RULE", "FAILED_UNSUPPORTED_ARGS_POLICY"}, status)
MapUninstallStatus(status) ==
  Truth({"SUCCEEDED_VERIFIED", "SKIP_ALREADY_ABSENT"},
        {"FAILED_UNSUPPORTED_PLATFORM", "FAILED_UNSUPPORTED_VERIFICATION"}, status)
MapDisplayPolicyStatus(status) ==
  IF status = "PARTIAL" THEN "PARTIAL" ELSE Truth({"SUCCEEDED"}, {"FAILED_UNSUPPORTED_PLATFORM"}, status)
MapUpdateStageStatus(status) == Truth({"STAGED_ACTIVATION_READY", "NOOP_ALREADY_CURRENT"}, {}, status)

Statuses(type) ==
  CASE type = "INSTALL_SOFTWARE"       -> {MapInstallStatus(last.status)}
    [] type = "UNINSTALL_SOFTWARE"     -> {MapUninstallStatus(last.status)}
    [] type = "SET_DISPLAY_POLICY"     -> {MapDisplayPolicyStatus(report.status)}
    [] type \in Mutates                -> {Truth({"SUCCEEDED"}, {"UNSUPPORTED"}, outcome)}
    [] type = "UPDATE_AGENT"           -> {MapUpdateStageStatus(stage)}
    [] type = "COLLECT_BACKUP_DRYRUN"  -> {IF manifest.done THEN "SUCCEEDED" ELSE "FAILED"}
    [] type = "COLLECT_INVENTORY"      -> {"SUCCEEDED"}
    [] type = "RENEW_TPM_CERTIFICATE"  -> {Truth({"renewed"}, {}, renewed.status)}
    [] OTHER                           -> {"SUCCEEDED", "FAILED"}
-----------------------------------------------------------------------------
NoCommand == [type |-> "none"]
NoResult == [status |-> "none"]
Init ==
  /\ theme \in Themes /\ build \in Builds /\ command = NoCommand /\ result = NoResult
  /\ tree = theme.tree /\ machine = theme.machine
  /\ S!Init /\ D!Init /\ U!Init /\ P!Init /\ B!Init /\ I!Init /\ R!Init

\* The machine as the parts of the executor change it.
Touchable == <<proc, orphans, hive, store, sam, staged, plans, file>>
Idle ==
  /\ job.pc = "idle" /\ order.pc = "idle" /\ mutation.pc = "idle"
  /\ update.pc = "idle" /\ scan.pc = "idle" /\ block = I!NoBlock
  /\ child = R!NoChild

\* A step of one part leaves the others alone.
OnlySoftware  == UNCHANGED <<display, users, staging, backup, inventory, renewals>>
OnlyDisplay   == UNCHANGED <<software, users, staging, backup, inventory, renewals>>
OnlyUsers     == UNCHANGED <<software, display, staging, backup, inventory, renewals>>
OnlyStaging   == UNCHANGED <<software, display, users, backup, inventory, renewals>>
OnlyBackup    == UNCHANGED <<software, display, users, staging, inventory, renewals>>
OnlyInventory == UNCHANGED <<software, display, users, staging, backup, renewals>>
OnlyRenewals  == UNCHANGED <<software, display, users, staging, backup, inventory>>
AllStill      == UNCHANGED <<software, display, users, staging, backup, inventory, renewals>>

\* The part that a type of command belongs to takes the body over.
Enter(c) ==
  \/ c.type \in Installs                /\ S!Begin(c.body) /\ OnlySoftware
  \/ c.type = "SET_DISPLAY_POLICY"      /\ D!Begin(c.body) /\ OnlyDisplay
  \/ c.type \in Mutates                 /\ U!Begin(c.body) /\ OnlyUsers
  \/ c.type = "UPDATE_AGENT"            /\ P!Begin(c.body) /\ OnlyStaging
  \/ c.type = "COLLECT_BACKUP_DRYRUN"   /\ B!Begin(c.body) /\ OnlyBackup
  \/ c.type = "COLLECT_INVENTORY"       /\ I!Begin(c.body) /\ OnlyInventory
  \/ c.type = "RENEW_TPM_CERTIFICATE"   /\ R!Begin(c.body) /\ OnlyRenewals
  \/ c.type \in OneCall                 /\ AllStill

\* A command is claimed: it is refused on the spot, or begun. A context that
\* is over by then fails it.
Execute(c) ==
  /\ command = NoCommand /\ c.type \in theme.types /\ UNCHANGED <<theme, build>>
  /\ IF Refusal(c) # "" \/ ctx.parent # "live"
     THEN /\ result' = [status |-> IF Refusal(c) # "" THEN Refusal(c) ELSE "FAILED", type |-> c.type, touched |-> FALSE]
          /\ command' = NoCommand /\ AllStill
     ELSE /\ command' = [type |-> c.type, touched |-> FALSE]
          /\ result' = NoResult /\ Enter(c)

Answer ==
  /\ AllStill /\ UNCHANGED <<theme, build>> /\ command' = NoCommand
  /\ \E status \in Statuses(command.type) :
       result' = [status |-> status, type |-> command.type, touched |-> command.touched]
\* An executor that would answer before the part has returned.
ReportEarly == command # NoCommand /\ Answer
\* The part has returned; its verdict becomes the status.
Report == command # NoCommand /\ Idle /\ Answer

Working ==
  /\ UNCHANGED <<theme, build, result>>
  /\ command' = [command EXCEPT !.touched = @ \/ Touchable' # Touchable]
Agent ==
  /\ command # NoCommand
  /\ \/ S!Agent /\ OnlySoftware
     \/ D!Apply /\ OnlyDisplay
     \/ U!Agent /\ OnlyUsers
     \/ P!Stage /\ OnlyStaging
     \/ B!Walk  /\ OnlyBackup
     \/ I!Agent /\ OnlyInventory
     \/ R!Agent /\ OnlyRenewals
  /\ Working

(* Around the executor: the host, its users, time, and the service manager.  *)
Host ==
  /\ UNCHANGED executor
  /\ \/ /\ Installs \cap theme.types # {} /\ OnlySoftware
        /\ S!ChildWorks \/ S!ChildExits \/ S!OrphanEnds \/ S!Others \/ S!ServiceStops
     \/ /\ "SET_DISPLAY_POLICY" \in theme.types /\ OnlyDisplay
        /\ \E s \in Sids : D!SignInOrOut(s)
     \/ Mutates \cap theme.types # {} /\ U!Change /\ OnlyUsers
     \/ "COLLECT_BACKUP_DRYRUN" \in theme.types /\ B!Edit /\ OnlyBackup
     \/ "COLLECT_INVENTORY" \in theme.types /\ (I!RunOut \/ I!Turn) /\ OnlyInventory
     \/ "UPDATE_AGENT" \in theme.types /\ P!Aside /\ OnlyStaging
     \/ "RENEW_TPM_CERTIFICATE" \in theme.types /\ R!Expire /\ OnlyRenewals
Deadline == S!Deadline /\ UNCHANGED executor /\ OnlySoftware
\* The service ends under a command, which is not answered. A helper or an
\* installer ends it first, and then goes on when nothing is under way.
Stopped ==
  /\ command' = NoCommand /\ UNCHANGED <<theme, build, result>>
  /\ \/ D!Crash /\ OnlyDisplay
     \/ /\ "UPDATE_AGENT" \in theme.types /\ OnlyStaging /\ command.type \in {"none", "UPDATE_AGENT"}
        /\ P!Swap
     \/ B!Abandon /\ OnlyBackup
     \/ I!Abandon /\ OnlyInventory

Next == (\E c \in Sent : Execute(c)) \/ Report \/ Agent \/ Host \/ Deadline \/ Stopped

Spec == Init /\ [][Next]_commands /\ WF_commands(Report \/ Agent) /\ WF_commands(Deadline)
-----------------------------------------------------------------------------
TypeOK ==
  /\ theme \in Themes /\ build \in Builds
  /\ command = NoCommand \/ (command.type \in theme.types \cap Capabilities(build) /\ command.touched \in BOOLEAN)
  /\ ~Idle => command # NoCommand
  /\ result = NoResult \/ result.status \in {"SUCCEEDED", "PARTIAL", "FAILED", "UNSUPPORTED", "EXPIRED"}

(* A command answered as unsupported or expired has not touched the machine, *)
(* in whatever part of the agent the answer was found: the backend may give  *)
(* the work to another agent, or claim it again.                             *)
UnsupportedUntouched == result # NoResult /\ result.status \in {"UNSUPPORTED", "EXPIRED"} => ~result.touched

(* Every command is answered, or the service ends under it: no winget that   *)
(* hangs and cannot be killed, no lookup and no walk holds the executor.     *)
EveryCommandAnswered == command # NoCommand ~> command = NoCommand

(* A verdict about software says what is on the host: a removal that is      *)
(* reported has happened, an installation that is reported is there.         *)
VerdictHolds == S!VerdictHolds

(* A command that is delivered again does not start a second uninstaller,    *)
(* nor one for a product that is gone.                                       *)
RedeliveryIdle == S!RedeliveryIdle
(* A display policy reported as applied is in the hives it names, and the    *)
(* wallpaper they name is the verified file.                                 *)
PolicyHolds == D!PolicyHolds /\ D!WallpaperVerified

(* No series of account commands leaves the host without an enabled local    *)
(* administrator, or changes a built-in account.                             *)
AccountsKept ==
  /\ U!AdminRemains
  /\ U!BuiltInsUntouched

(* What a plan would activate was verified, and is newer than what runs and  *)
(* than what ever ran, with activations and installers in between.           *)
UpdatePlans ==
  /\ []P!PlanIsVerified
  /\ P!PlanIsNewer

(* A backup manifest lists files of its roots only, and all of them.         *)
ManifestHonest == B!EntriesInside /\ B!NothingSkipped

(* An inventory tells "none" from "not read", and counts what it read.       *)
InventoryHonest == I!CleanIsRead /\ I!CountsAreWhole

(* A renewal reported as done has left the certificate issued for its token, *)
(* and a failed one no key in the TPM and the certificate that was there.    *)
RenewalHonest == R!RenewalTruth /\ R!FailureLeavesNothing
=============================================================================
