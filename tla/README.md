# A verification of platform-agent

platform-agent is the endpoint agent of a device-management product: a Windows
service (with a macOS build) that enrolls itself, sends heartbeats, executes
commands of the backend, updates itself, and keeps an outbound gRPC *remote
bridge* to a broker, over which a support session may be given a view of the
screen or a constrained terminal. This directory holds TLA+ models of its
concurrent and failure-prone parts, the TLC configurations that check them on
small instances, and TLAPS proofs of what holds for every instance.

Paths below are relative to `src/`; `PROJECT.json` maps every definition to the
lines it translates.

## 1. Inventory

| Component | State it keeps | Operations | What makes it hard |
|---|---|---|---|
| **View session** `internal/remotebridge/dataplane/session.go` | recording, active and aborted flags, a bounded frame queue, counters | SetRecordingReady, Activate, Deactivate, LocalAbort, Submit, Drain, Snapshot | several goroutines under one lock; a full queue; a gate closed with frames in it |
| **Screen-view dispatch** `screenview/dispatcher.go`, `dataplane/pump.go` | the gate, the watcher and pump goroutines, a batch in flight | Handle, drain, Pump.Run, Next, Close | cancel and abort against a send in progress; random select; a source that ends or fails; release of the capture |
| **Operation gate** `operation/gate.go`, `permit.go` | last sequence number per session | Verify, Authorize, AuthorizeViewOnly | duplicated and reordered permits, two goroutines, clock skew, restart |
| **Bridge wiring** `internal/app/remotebridge.go` | cached Authorizer and dispatcher, each for one device | authorizerFor, DispatchPTY, Handle of the device-bound dispatchers | an identity that changes between its reading and its use |
| **Control stream** `harness/harness.go` | attempt and backoff, hello, heartbeat interval, watchdog, last inbound sequence | Run, connectOnce, receive loop, obeyHeartbeat, session heartbeat | silence, stale timer ticks, arithmetic of intervals, endless retry |
| **Operation dispatch and KILL** `harness/harness.go`, `dispatch.go` | sessions map, registry of screen streams, in-flight operations | dispatchOperation, registerScreenCancel, obeyKill, sendAppliedEvent | a KILL against a stream that starts, drains, or belongs to the previous connection |
| **Constrained PTY** `ptyexec/` | one child process, its output stream, a byte cap | Run, plan, stream, terminal frame | timeout against exit, output cap, kill of a process tree |
| **Frame IPC** `dataplane/frameipc.go`, `launcher_windows.go`, `pipe_windows.go` | helper process, pipe, frame header state | launch, accept, read frame, close | a helper that dies, a partial frame, teardown while a read is blocked |
| **Consent, banner** `consent/`, `dataplane/banner.go` | one prompt or window | ask, dismiss, time out | a late answer |
| **Device-key session** `devkeysession/` | none | answer a challenge | binding to the right session and device |
| **Agent runner** `internal/app/runner.go` with `protocol/client.go`, `state/`, `hmacstore/` | identity, credential in memory and on disk, failure counter, `persisted` flag | RunOnce, RunLoop, enroll, heartbeat, poll, submit, hydrate | 401 recovery, half-done writes, restart, fallback of a refused result |
| **Command executor** `commands/` | none | Execute, Validate, one decoder and one status mapping per pipeline | a part that fails half way, is cancelled, or answers in words of its own |
| **Certificate renewal** `commands/tpm_renewal*.go`, `tpmenroll/`, `cmd/endpoint-agent/tpm_autoenroll*.go` | the certificate file, keys loaded into the TPM, a child process | payload check, device, nonce, proof, attestation, file, judgement | a child that fails or is killed anywhere; an older certificate on disk; a lost answer |
| **Auto-enroll runner** `autoenroll/`, `platform/windows/certstore`, `dpapi` | the enrollment record, the loaded certificate with its key handle, an older token | waitForCert, ensureCert, reconcileEnrollment, refresh, heartbeat, poll, submit | certificates that are renewed under it, lost answers, failing writes, handles |
| **Self-update** `internal/selfupdate/`, `cmd/endpoint-agent/selfupdate_activation.go` | staged file, plan, outcome, attempt counter, high-water version | stage, prepare helper, activate, roll back, sweep | a crash between any two file operations; a retry of what was done |
| **Software** `winget/` | the host, a child process | request check, egress check, detection, install, uninstall, verification | deadline, kill, orphan, redelivery, a probe that fails |
| **Display policy** `displaypolicy/` | one registry hive per user, a store of wallpapers | validate, fetch, commit, apply | one hive of several failing; users signing in and out |
| **Local users** `users/` | accounts and groups of the host | guards, lockout guard, lock, unlock, password | nested groups; a series of legal mutations; changes by others |
| **Backup manifest** `dataprotection/` | a file tree under change | root checks, walk, classify, count | links, renames between two calls on one name |
| **Inventory** `inventory/` | none, but dozens of sources that may fail | one block per subject, time limits, caps | a failure that reads like "none" |
| **Configuration, identity, files, logging, security, software list** | none | read, parse, redact | pure or read-only |
| **Windows platform** `internal/platform/windows` | operating system | service, certificate store, DPAPI, registry | external calls |

How they interact. `cmd/endpoint-agent` picks a mode and starts either the agent
runner (HMAC) or the auto-enroll runner; both poll for a command and give it to
the executor, which calls the self-update stager, winget, display policy, users
and the collectors. After a successful UPDATE_AGENT was reported the runner
calls the activation hook. Beside the runner, `app/remotebridge.go` starts the
harness; it reads the runner's identity through a function, so the two share
the identity and nothing else. The harness opens the CONTROL stream and starts a
goroutine per pushed operation; a screen permit goes through the device-bound
dispatcher, the operation gate and the screen-view dispatch, which owns a view
session and sends on the DATA stream; a PTY permit goes through its own cache
to the executor. A KILL on the CONTROL stream reaches a screen dispatch through
the registry of its cancel functions.

The behaviours that are hard to test are listed at their lines under "hazards"
in `PROJECT.json`, each with the properties aimed at it.

What makes each part correct: the gate never holds a frame while it is shut and
loses none without counting it; a stop ends the feed after at most the batch in
flight, and a fault never looks like a clean end; a permit is used once, for
what was signed; the control stream neither dies nor hangs; a KILL is
acknowledged after the stream it found has gone; the runner never reports a
credential as confirmed that is not on disk; an update either completes or
leaves a working binary; every command is answered, and what the answer says of
the host is so there; the mTLS agent speaks only under a certificate the backend
has confirmed, and settles on the one that ranks first.

## 2. Modules

| Module | Models | EXTENDS / INSTANCE |
|---|---|---|
| `ViewGate` | the state of ViewSession as a record, one operator per method | |
| `ViewSession` | the gate under any order of calls, with frames numbered at Submit | `ViewGate` |
| `ScreenView` | Handle, its watcher, its pump and the source | `ViewGate`; refines `LiveFeed` |
| `LiveFeed` | what a screen feed promises, without goroutines or queues | |
| `OperationGate` | verification, replay windows, device-bound caches, concurrent dispatches | refines `SeqWindow` |
| `SeqWindow` | one advancing number per session | |
| `SessionKill` | receive loop, dispatch goroutines, stream registry, KILL waiters | |
| `ControlStream` | Run and connectOnce with a clock | |
| `SelfUpdate` | staging, plans, the agent's hook and sweep, helper processes, the service manager, loss of power | |
| `AgentRunner` | the choice of mode, RunOnce and its loop, the credential on disk and in memory, the tracker, the installer and the backend | |
| `Commands` | the executor: a command is validated, handed to its part, and its verdict mapped to a status | `INSTANCE`s of the seven modules below |
| `Software` | install and uninstall through winget, with detection, the child process and its orphans | |
| `DisplayPolicy` | screensaver and wallpaper in the hives of the signed-in users | |
| `LocalUsers` | lock, unlock and password of local accounts, with the guards | |
| `UpdateStaging` | an UPDATE_AGENT command up to its plan; `SelfUpdate` continues | |
| `BackupManifest` | the walk over the managed roots | |
| `Inventory` | twelve blocks of COLLECT_INVENTORY, their sources and time limits | |
| `TpmRenewal` | the renewal child and the parent that judges it | |
| `AutoEnroll` | the mTLS runner, the certificate store, the record on disk | |
| `*Proofs` | the theorems about the module of the same name; `ScreenViewProofs` has those about the gate and the session as well, `ControlStreamProofs` those about `SessionKill`, `CommandsProofs` and `CollectorsProofs` those about the parts of `Commands` | `TLAPS` |
| `MC*` | constants of the model-checked instances | |

**ViewGate / ViewSession.** A gate is one record; `Submit`, `Drain`, `Abort` and
the other methods are operators from a record to a record, so that
`ViewSession` (any caller, any order) and `ScreenView` (the real caller) use the
same definitions. The lock of the code makes each method one action.

**ScreenView.** Three goroutines. Handle waits in its select, pulls a batch,
sends it frame by frame, finishes; the watcher waits for the context and closes
the producer; the pump calls Next and Submit. Each send is an action, so that a
cancel can fall between two frames of one batch. The random choice of select is
a disjunction. The context check at the head of a case is part of that case.

**OperationGate.** A dispatch reads the identity, then takes the Authorizer from
the caches, then decides: three actions, because the code holds no lock over
them. A decision is atomic: only the window is shared and its lock is held from
the comparison to the advance. A command hash is the command it binds, a
signature one of four verdicts, times a few integers around the boundaries. A
command line is what it is once it is canonicalised, and whether it exceeds
`MaxCommandLine`; a VIEW_ONLY permit comes without one. `accepted` is a history of
the permits allowed, with the Authorizer and the reading of the clock of each.

**SessionKill.** The receive loop takes one envelope at a time; a KILL starts a
goroutine that cancels the stream it finds and waits for it to return. A
dispatch goroutine starts, registers, waits for a predecessor of its session,
runs, drains, reports. CONTROL streams have numbers, so that a dispatch of an
earlier one can outlive it.

**ControlStream.** A clock in ticks; the interval the broker announces is
wrapped to the width of int64 (a small modulus here) before it is clamped, as
in the code. The watchdog is a timer whose tick may already lie in its channel
when it is reset, and a reset that removes it.

**SelfUpdate.** The state is what lies on the disk (staged files, plans,
helper copies, temporaries, backups, the service's binary, outcomes, the
high-water mark), the service as the service manager sees it, the agent between
two polls, and the helper processes with a program counter each. A binary is the
number of its version, `None`, or `Torn` for a copy that was cut off. The agent
stages, writes the plan, reports, and starts a helper (hook), or a sweep finds
the newest plan that is pending and starts one (retry); an operator may start
one too. A helper verifies, backs the installed binary up, stops the service,
copies, removes, renames, starts, marks, and on any error rolls back along the
same kind of steps; every file operation and every service call is an action
that may fail, and the power may go between any two. Abstracted: reading and
hashing a file and creating its copy are one step (`CopyBegin`) and the copy is
torn until it is complete; a rename is durable; a running binary cannot be
removed, as on Windows; starting a running service does nothing; the service
manager restarts a failed service (installers/windows/install.ps1, lines
1095-1109); `SelfUpdateAutoActivate` is on; staging is one action up to its
commit; plans are numbered in the order they are staged. `stray` marks the one
case in which a service stops after the helper had given up waiting for it. Nothing
in the code keeps helpers apart, so two histories say what did happen: `meddled`
holds the helpers between whose removal of the binary and whose report another one
stopped the service or replaced the binary, and `astray` tells that helpers have
overlapped at all, or that somebody activated a plan older than the mark.

**AgentRunner.** The process is a record: where it is in its iteration, the
credential it signs with, the token it read from its environment, whether it
wrote this credential itself. Around it are the blob, the service's
environment, a registry hint left by an earlier auto-enroll installation, and
the backend, which numbers the credentials it issues and may revoke any. One
action per request and per write, and the process may die before each. A read of
the blob yields a valid credential or an error; a write fails before its rename
or after it. Assumed: no credential comes from the environment, the HMAC URL is
set and the auto-enroll URL is not, a stale hint without token and credential
leads to a mode that finds no certificate and hangs (the comment on `decideMode`
describes the incident), a successful enrollment names a new credential, and a
command, whatever it does, yields one result. The update hook at the end of an
iteration is in `SelfUpdate`.

**Commands and its parts.** The executor runs one command at a time, so a
behaviour of `Commands` is about one theme: the commands of one part and a host
for it, chosen in Init; the other parts stand still. The parts share no state,
and composing them this way checks what each promises and what the executor
makes of it together: the payload check in front, the status mapping behind, the
command that must be answered. Inside a part every call that reads or changes
the host is an action, and between two of them the host may change.

* `Software`: requests, detection rules and registry entries are records of what
  the checks tell apart; a version is a sequence of tokens, compared as
  `compareVersions` does. A child runs, exits, is killed or is left behind as an
  orphan that finishes later. `fresh` tells whether the host is still as the
  probe that decided the verdict read it.
* `DisplayPolicy`: a hive holds the group of values of the screensaver and of the
  wallpaper, each wanted, absent, or mixed after a failed write.
* `LocalUsers`: the group expansion is written as the bounded search the code
  makes; `TrueAdmins`, which the property uses, is its least fixed point.
* `UpdateStaging`: versions are compared identifier by identifier. A URL, a
  signature and a version resource are records of verdicts; redirects are chains.
  What `SelfUpdate` has in detail goes on around it in three steps per plan
  (`Prepare`, `Activate`, `Mark`): the helper copies the binary aside, replaces it or
  rolls back with the service stopped, and writes the mark later or never. As in
  the code none of them compares versions, and the staging that the restarted
  service has begun meanwhile is under way when the mark is written. An installer
  may replace the binary by any version and leaves the mark (`Reinstall`).
* `BackupManifest`: a tree is a function from paths to nodes; links are followed
  by the system at every access, wherever on the path they are and up to the
  number Windows allows (`RealPath`), which is why a name can mean two files in
  two calls. Names are members of the sets the deny rules distinguish.
* `Inventory`: a source is a pair of a kind and an item, and answers with one of
  read, absent, none, odd, more, denied, with counts. The fold over the sources is
  one action per source, in the order of the code: `left` holds the positions not
  read yet, and a reader that gives up on a source takes positions out. The time of
  a block may run out between any two. Counts are kept per list and capped there.
* `TpmRenewal`: child and parent in turn, as the parent waits for the child. The
  certificate file is truncated and written in two steps.

**AutoEnroll.** The process is a record with a program counter along RunOnce and
iterate. The certificate store is the set of certificates it holds, with the
attributes the filter, the ranking and the signer look at; the record names a
certificate by its identifier. A call is answered by what the backend does now;
a lost answer to an enrollment may have been carried out. `signers` counts the
key handles that are open, `refs` the references to the context of the loaded
certificate. The executor is one action here and `Commands` elsewhere, the
helper of an update is `SelfUpdate`.

## 3. Runs

| Run | Shows |
|---|---|
| `view_session` | every frame counted once, a shut gate is empty, oldest evicted first |
| `screen_view` | EndStream only for a clean end, a fault shuts the gate, dispatch returns, capture is released, refinement of `LiveFeed` (which bounds what leaves after a stop by one batch) |
| `gate` | re-enrollment, restart and a clock set back at any point: each Authorizer implements `SeqWindow`; one device and no restart: single use; otherwise two uses of a permit lie within its validity cap and the skew (`ReplayIsBounded`) |
| `session_kill` | `KillReaches`: a running stream is the one its KILL finds, and the acknowledgement follows its end; every KILL resolves |
| `control_stream` | `StreamDiscipline`: watchdog patient and bounded, frames increase; silence ends a stream; `Reconnects`: backoff measures failures, retries never end |
| `update_crash` | two helpers, one of them started by hand, one failing operation, one loss of power: a whole binary survives, only verified binaries are installed, the agent starts one helper per plan |
| `update_service` | two helpers, one failing operation: the service returns unless they overlap; `UpdatesForward`: the outcome of a helper whose swap was left alone tells which binary runs, launches go forward, the high-water mark does not fall before an overlap |
| `agent_runner` | what the installer is told is on disk, the host stays an HMAC agent, the blob only moves on to later credentials, the agent comes back to polling while the blob holds a credential that is honoured |
| `commands` | two commands in each part: every one is answered (`EveryCommandAnswered`), none that is called unsupported has touched the machine, and each verdict is true of the host (`VerdictHolds`, `PolicyHolds`, `AccountsKept`, `UpdatePlans`, `ManifestHonest`, `InventoryHonest`, `RenewalHonest`); a redelivered command starts nothing twice (`RedeliveryIdle`) |
| `auto_enroll` | calls only under a confirmed certificate (`IdentityBound`), one key handle (`HandlesBounded`), the record comes to name the certificate that ranks first (`Reconciles`) |
| `context_retained` | finding: no reference to a certificate context survives the load, since the loop that marks the eligible ones marks its own copies |
| `pending_is_swept` | finding: a plan staged after the first iteration and not launched waits for the next start of the process |

Where a property is a conjunction (`KillReaches`, `StreamDiscipline`,
`Reconnects`, `UpdatesForward` and those of `commands`), its parts are defined
next to it under names of their own. The type invariants of the modules before
`Commands` are theorems and no properties of the runs.

A finding is a run that ends in a violation of what a comment or a document of
the repository says; `PROJECT.json` quotes it. The models show more disagreements,
smaller or in rarer orders, for which no run is kept. Five of them are stated as
definitions beside the properties, and TLC refutes each when it is put in the
place of the properties of the configuration named:

* `NoFrameAfterAck` (`MCSessionKill.cfg`): `harness/harness.go:788` finds only
  streams that have registered, so a dispatch whose goroutine was started and has
  not reached registerScreenCancel streams after the KILL was acknowledged,
  against "no screen frame may egress after a kill" at lines 781-783.
* `RetryReachesHelper` (`MCUpdateService.cfg`): `selfupdate/activation_plan.go:88`
  refuses when the helper's file exists, and a helper the policy refused to start
  leaves that file, so no retry ever starts one, against
  `activation_pending.go:16-19` ("the retry deliberately never gives up").
* `ActivationWasReported` (`MCUpdateService.cfg`): `app/runner.go:185` runs the
  hook although the backend took the FAILED fallback of the result, against
  lines 44-45.
* `DegradesAfterThree` (`MCAgentRunner.cfg`): `app/runner.go:399` records a success
  before the heartbeat is sent, so failing heartbeats never bring the count to
  three, against `docs/COMMAND-CONTRACT.md:534-535`.
* `PlanIsBeyondMark` (`MCCommands.cfg`, in the place of `PlanIsNewer` in
  `UpdatePlans`): `selfupdate/stager.go:147` reads the mark once, before the
  download, and the helper that restarted the service writes it afterwards
  (`activation_execute.go:64-71`). When an installer has brought an older version
  back in between, a plan is written for a version that is not above the mark,
  against `docs/AG-029-self-update-threat-model.md:82-83`. `PlanIsNewer` says what is
  left: the plan is newer than what runs, and than a mark that stood when the
  staging read it.

Three promises of `SelfUpdate` hold as long as helpers do not overlap, and the
properties name that condition; TLC refutes each in `MCUpdateService.cfg` when the
condition is left out:

* `HighWaterAdvances` without `astray`: `selfupdate/state.go:65` renames its version
  over the mark without reading it, so a helper that is slow between its start of
  the service and its mark writes the older version over the newer one.
  `docs/AG-029-self-update-threat-model.md:82-83` speaks of a persisted monotonic
  mark, `activation_pending.go:35` of the highest version ever activated.
* `OutcomeTruth` without `meddled`: another helper swaps the binary between this
  one's start of the service and its report, which claims the binary it installed.
* `ServiceReturns` without `astray`: the rollback of one helper removes the binary the
  other is about to start, the other's own rollback finds the name of its temporary
  file taken and gives up, and then one failing rename leaves nobody to start it.

The others were met on the way:

* `screenview/dispatcher.go:144` sends the rest of a batch after a cancel
  (`LateBounded` bounds it); lines 5-6 and 195-197 promise no frame at all.
* `dispatcher.go:169` checks the context once before the final drain and
  EndStream; a cancel in between does not stop them, against lines 173-174.
* `dispatcher.go:188` drains one batch of a possibly longer queue, against "drain
  whatever the gate still holds" two lines above.
* `app/remotebridge.go:439` may build an Authorizer for a device id read before
  a re-enrollment and replace the current one, so that two callers of one device
  hold different ones, against lines 436-438. With one device it cannot happen
  (`SharedAuthorizer` in `gate`).
* The replay window of `operation/gate.go:65` is in memory: after a restart, or
  after another device was served, a permit that is still fresh is accepted again.
  `permit.go:33-34` says that the validity cap and the seq guard keep an operation
  single-use; `SingleUse` in `gate` therefore excludes the two cases, and
  `ReplayIsBounded` says what the cap still guarantees in them.
* `selfupdate/activation_execute.go:219` removes the service's binary before it
  renames the new one into place; `docs/AG-029-self-update-threat-model.md:110`
  speaks of an atomic replace. Nothing is lost (`NeverLost`), but a machine that
  loses power there has no binary to start.
* An older plan activated by hand lowers the high-water mark too, which is the
  other thing `astray` records.
* The hook's helper does write the mark, as `--high-water-path` has a default;
  the comment at `cmd/endpoint-agent/selfupdate_activation.go:120` says none
  exists.
* A blob that cannot be read is overwritten by the enrollment of the same
  iteration when there is a token, against `app/runner.go:306-311`, by which the
  operator can inspect it; `hmacstore`'s Invalidate, meant for that, is never called.
* `autoenroll/runner.go:456` drops the certificate the wait found without closing
  its key handle: one per start of the loop, counted as `waited` in `AutoEnroll`.
* `autoenroll/runner.go:460` ends RunLoop for any store error but "none found",
  which the list of terminating returns at 267-270 does not name. Of the Config,
  CertRenewalWindow, HeartbeatInterval and NoCertBackoff are never read.
* `tpmenroll/tpmdevice_windows.go:57-88` reports a key that cannot be created
  inside "open TPM device", so the codes for the three keys in
  `commands/tpm_renewal.go:68-76` are never produced (`After` in `TpmRenewal`).
* `winget/install_winget_windows.go:113-142`: a command cancelled while its child
  is not reaped in time takes exit code 0; what saves the verdict is the
  detection behind it, so a WINGET_PACKAGE rule may report an installation as
  done that is not (`VerdictHolds` is about the rules the code calls authoritative).
* `winget/install_winget.go:983-1001` compares numeric tokens as numbers and
  others as text, which is no order: a number may be below a text that is below a
  smaller number.
* `displaypolicy/apply_windows.go:261-266` counts the clearing of a value in a hive
  that was unloaded as done; `PolicyHolds` is about hives that stay loaded.
* `dataprotection/backupmanifest.go:304` classifies by the name in the directory
  and the path it resolves to; a link with another name lists a file that is
  denied by its own (`EntriesInside` asks for denied directories only).
* `inventory/hotfix_posture_windows.go:58` cuts a longer history silently, a
  firewall profile that is missing counts as disabled, and the PowerShell
  fallback of the Administrators list drops the error that led to it.
* `commands/executor.go` dispatches COLLECT_BACKUP_DRYRUN, yet nothing sets
  EnableBackupDryRun, so no build advertises it.
* RE_ENROLL_REQUIRED of `docs/COMMAND-CONTRACT.md:543` is never entered: a 401
  without a token fails the iteration, and a 403 is like any other error.

### Bounds

* `ViewSession`, `ScreenView`: a queue of two or three frames, a batch smaller
  than the queue, four or five frames from the source. Evictions, a batch
  that empties the queue and one that does not, and a stop between two frames of
  a batch all occur; a further frame repeats them.
* `OperationGate`: two devices, one session, two goroutines, three Authorizers,
  one restart; two instants of the clock, in any order, at which each permit is at an
  edge of its window with the skew; a permit for the terminal and one for the screen,
  valid as long as the cap allows, and one for the other device with an over-long
  validity; a command line and one that is too long. Three Authorizers are what it
  takes to leave a device and return. Two goroutines suffice since a call shares
  only the caches and the window with others.
* `SessionKill`: two screen dispatches and one PTY dispatch on one session, two
  KILLs, two CONTROL streams: a KILL against a first stream, against a second
  one waiting for it, and against one left over from the previous connection.
* `ControlStream`: three failed attempts reach the backoff cap, intervals on
  both sides of the clamps and around the wrap, enough ticks for two watchdog
  periods.
* `SelfUpdate`: two plans, two helper processes (interchangeable, hence
  symmetric), one failing operation and one loss of power. Two helpers are what
  shares the names of temporaries and backups; a third adds no new pair. In
  `update_crash` the same version is staged twice, so that both plans can be in
  progress; in `update_service` the second version is newer, so that the agent launches a
  second helper while the first is still between its start of the service and its
  report.
  A second crash during recovery is not explored by TLC; the theorems have no
  such bound.
* `AgentRunner`: three credentials (the one on disk, the one in memory, the next),
  two deaths, two failing reads or writes. When the credentials are used up
  every further enrollment is refused, as with a spent token; `Recovers` holds
  then too. The failure counter stops at ten, its last threshold.

* `Commands`: two commands one after the other (one for the manifest and the
  inventory, which keep nothing), since a redelivery, a second lock and a second
  staging are pairs; one change of the host by others (two for accounts, a
  removal and a return), one fault where the code writes. The tree has three
  levels with links to a file, a denied file and a directory beside the root; the
  inventory changes one source out of fifty at any point, the Administrators
  group has two pages. Every status of both winget pipelines that the probes can
  lead to occurs.
* `AutoEnroll`: three certificates of the machine that follow one another, one of
  which has a key that cannot be opened, and one of a server that the filter
  excludes; three instants, so that the first runs out; two changes of the store
  or the backend, one failing read, write or load, two starts. An older record
  with a token that is about to expire, a tokenless one of another certificate, a
  corrupt one and none are where it begins.

### Fairness

Weak fairness is assumed of each goroutine that is ready to run (the Go
scheduler is fair to runnable goroutines) and of a timer that is due. Nothing is
assumed of the broker, the source, the operator or the network: they may fall
silent for ever. Two assumptions are about the environment: a send on a stream
returns (gRPC flow control can hold it for as long as the stream's context
lives; section 5 says so), and a producer that was closed returns from
Next, as its interface demands. For `SelfUpdate` fairness covers the agent's
own work, its sweep, the retry timer, the service manager and each helper, and
nothing of the backend, the operator or the policy. Its configurations turn off
the deadlock check, as the machine is at rest when all plans are consumed.
For `AgentRunner` the service manager restarts the process and the process keeps
going; of the backend, strong fairness asks that a heartbeat sent again and
again is once answered by what its credential is, accepted or, if revoked, 401.
Its configurations turn off the deadlock check too: a stranded host stops.
For `Commands` fairness covers the agent's own steps and the deadline of a
command; nothing is asked of winget, whose child may hang and outlive its
killing, nor of the host. For `AutoEnroll` it covers the runner alone: the ticker
is due again after each iteration. `Reconciles` therefore supposes in its
premise what the environment must do: a backend that answers from some point on
and a usable certificate. Both turn off the deadlock check, as their counts of
commands, turns and starts are bounded. `MCSessionKill.cfg` turns off the deadlock check,
as the numbers of KILLs and CONTROL streams are bounded and the agent may be
shut down: the system then stops.

## 4. Proofs

All proofs are complete. They hold for every value of the constants, subject to
the named ASSUMEs of the modules; a theorem that needs more says so in an ASSUME of
its own. The shape is always the same: an inductive invariant, a lemma that
Init implies it, one lemma or step per action that it is preserved, and the
properties read off it. What each invariant adds to its property is why the
property holds, so it is named here.

**`ScreenViewProofs`**, for any capacity, batch and number of frames.

* The gate: the lemmas on `Submit`, `Drain`, `Abort` and the others give queue
  length, counters and emptiness once, and both modules use them.
* `ViewSession`: `SessionTypeCorrect`, `FrameAccounting`, `ShutGateIsEmpty`,
  `FreshestFirst`, `LocalAbortIsFinal`. Accounting needs types and the emptiness
  of a shut gate, as a flush counts the queue. That the queue is the newest
  unbroken run of admitted frames needs to know the number of the last one.
* `ScreenView`: `TypeCorrect`, `AtMostOneBatchLate`, `EndStreamIsTrue`,
  `FaultsShutTheGate`. The invariant ties the frames sent after a stop to what is
  left of the batch in flight, and the phase of Handle to the state of the gate.
* `Refinement`: Handle, its watcher, its pump and the queue implement `LiveFeed`.
  The frames of the source, the queue, the batch and the wire are one sequence
  of increasing numbers, cut at three places; each action moves one cut, or is a
  stutter of the feed.

**`OperationGateProofs`**, for any permits, devices, sessions, goroutines and
restarts: `TypeCorrect`, `ReplaysAreBounded`, `UsedOnce`, `SharedAlways`, `Refinement`.
`SingleUse` is about two uses far apart. The invariant says of every Authorizer
that its window covers what it allowed (`Covered`) in increasing order (`Ordered`),
that whoever holds one holds one of the right device (`Bindings`), and that a
process that never restarted caches the Authorizer it built last and builds one
only for another device (`Newest`): so with one device there is one window.
`ReplayIsBounded` follows from `Ordered`, by which one Authorizer never allows a
permit twice, and from the window each decision was made in: its two readings of
the clock lie in the window of one and the same permit.
`Refinement` maps the pair of Authorizer and session to a window of `SeqWindow`.

**`ControlStreamProofs`**, for whatever a broker announces and numbers, and for any
sessions, streams and KILLs:

* The stream: `WatchdogIsPatient`, `DeadlinesAreBounded`, `FramesAreOrdered`,
  together `StreamsAreDisciplined`, and `TypeCorrect`. The invariant relates the
  timer, its pending tick, the last heartbeat and the clock.
* `BackoffIsMeasured`, the safety half of `Reconnects`: the delay is the shortest
  one doubled once per failure, up to the cap. `DoubledIs` shows that the recursive
  function denotes, `DoubledGrows` and `MaxFailsIs` that it reaches the cap.
* `SessionKill`: `StreamsAreReachable`, `AckFollowsStop`, together `KillReachesStreams`,
  and `WaitingKillCancelled`. The invariant has two parts: `Registry` (who is in
  the map is exactly who is registered) and `Kills` (what a waiter holds, and that
  what was acknowledged is gone).

**`SelfUpdateProofs`**, for any numbers of plans, helpers, faults, crashes and runs
by hand where nothing else is said:

* `TypeCorrect`, `BinaryIsNeverLost`, `InstalledIsVerified`. `NeverLost` is not
  inductive: that a removed binary is still in a backup depends on what its
  helper had completed and on no other helper having written there since. The
  invariant adds `BackupsHold` (past its backup step a helper's backup is a whole
  copy of what was installed), `OneWriterEach` (no two helpers write one file),
  `TempsOwned` (a temporary about to be renamed holds the verified copy of its
  helper's plan) and `OnlyVerified` itself.
* `LaunchesOnce`: the file of a plan's helper is the lock of its launch
  (`LockHeld`). `LaunchesGoForward`: the agent's work on a plan ends with the
  process that began it, so the version compared is still the one that runs
  (`WorksForward`).
* `EvidenceIsTrue`, `MarkAdvances`, `UpdatesGoForward`: the outcome of a helper tells
  the truth since it saw the swap and the service itself (`SwapSeen`), and what
  others do in between is recorded in `meddled`; the mark is below whatever may still
  be installed as long as no two helpers have worked at a time (`MarkLow`). The
  conditions are histories of the behaviour and no assumptions on the constants:
  the theorems are about any number of helpers, with runs by hand, and say
  exactly how far an overlap spoils the evidence and the mark.

**`AgentRunnerProofs`**: `TypeCorrect`, `ConfirmedCredentialStored`, `NeverStranded`,
`BlobRenewed`, for any number of credentials, deaths and faults. The invariant
adds `Vouched` (a credential marked as persisted is the one on disk; one not yet
written is later than the blob, as the last one issued) and `TokenOrSentinel` (a
token is missing only after a confirmation), which with `ConfirmedIsStored` gives
the host its credential when the token is gone.

**`AutoEnrollProofs`**: `TypeCorrect`, `SpeaksAsEnrolled`, `HandlesStayBounded`, for
any certificates, records and bounds. Who speaks is a question of what was
established many steps before, so `Vouched` says per place in the program which
of record, certificate and backend agree; the record vouches only for enrolled
certificates. `Handles` counts the handles with the one the wait left behind.
That there is a best certificate (the CHOOSE in `LoadEligibleCert` denotes) is
`HasFirst`: in a finite set that a relation orders totally, every part has a
first element. `Outranks` is such an order as no two certificates share a rank
(`AutoEnrollAssumption`; the code breaks its ties by the thumbprint).

**`CommandsProofs`**, for any commands, machine, host and tree:

* `PartsImplemented`: the executor with the machine around it implements the
  specification of each part. The others follow by carrying an invariant of one
  part through the steps of the composition, all but a few of which leave it alone.
* `TypeCorrect`, `UnsupportedIsUntouched` (`CInv`): who owns the part that is at
  work, and that a status that claims innocence is given before the first step
  that touches the machine.
* `VerdictsHold`, `RedeliveryStaysIdle` (`SInv`): a verdict is about the host at the
  moment of a probe; the invariant says what a job knows of the file it looked
  at while `fresh`, and that a verified request has its rule satisfied until the
  host changes. The lemmas on probes say what each found or missed.
* `RenewalsHonest` (`RInv`): per step of the child, what the file is and which keys
  are loaded, also for a child that is killed there.
* `PoliciesHold` (`DInv`): which hives are written so far, and that a wallpaper is
  in the store before the first hive names it.
* `UpdatesArePlanned` (`PInv`): what each check established stays true until the
  plan, or the staging ends with the service that ran it: a swap and an installer
  stop it, and a helper that is still about to write its mark does not. `BoundSays` and `SameRelease` read a version resource against a semantic
  version; `Compare` is shown to be an order on the way.
* `AccountsAreKept` (`UInv`): the walk of the code (`AdminUsers`, by level, up to a
  depth) is compared with the least fixed point (`TrueAdmins`): `WithinIs` gives
  the equations of the recursive function, `WalkMeets` and `AllAreCounted` that a
  walk that was not cut off has reached everybody. While nobody else changes
  accounts, what the guard computed is still so at the write, and another
  enabled administrator remains.

**`CollectorsProofs`**, for any host, tree, links and changes under the reader:

* `ManifestsHonest` (`BInv`). That a listed file is inside its root is about the
  resolution of links: what `RealPath` returns has no link on the way (`RealPath`
  stops only there, or gives up), so the path a comparison was made with is the one
  a later read by name ends at, as long as nobody edits in between. That nothing is
  skipped is about the walk: `NoneMissed` says of every eligible file not yet listed
  that it lies below a root still to come, below a name still on the stack, or
  below the path in hand, as long as nothing was counted as unresolved.
* `InventoriesHonest` (`IInv`). `ToldIsRead`: what a block tells of a source is what
  the reader of that source makes of its answer, kept as a history. `Covered`: a
  source that a verdict rests on is told, still to be read, or has left an error
  that no later source makes good (`Lasting`). `OneSource`: members of the
  Administrators group come from its pages or from PowerShell, never from both. One
  lemma per reader says which of the three its outcome respects; the counts agree
  with what was read since two sums with the same terms are the same sum.

Induction. The library's induction theorems take an operator as a parameter,
which the installed provers cannot instantiate. Where it is needed (`HasFirst`,
and `NoLeast` for the levels of the group expansion, the doublings of the delay and
the directories above a file), it is replaced by the well-foundedness of the
natural numbers, `NatLessThanWellFounded` with `WFMin`: a set of counterexamples is
a set, not an operator, and has a least member. Recursion is written as recursive
functions, and no module declares a RECURSIVE operator.

Form. Where a property needed it, a model was put into a form that can be
reasoned about, with the same behaviours: checks in the order of the code as a
chain of IFs that names the first failing one, the checks of the operation gate
as predicates, the levels of the group expansion as a function of the depth, the
resolution of links as a function of how many may be followed, the delay after n
failures as a function of n, the sources of a block as positions in a list.
Assumptions that the proofs added are on data only and hold of every value the
decoders produce: versions have three numbers and identifiers that are numbers
or text, a stamp has fields that are numbers, a registry entry lies under one of
the two roots, an account of the host has its four attributes, the certificates
and records have the fields the code reads, what exists in a file tree lies in a
directory (`TreeSound`), a managed root is a path and not empty, no service and no
drive is listed twice, counts are natural numbers, and the group has a page.

**Checked by TLC only.** Liveness (`StopEndsDispatch`, `CaptureReleased`,
`KillResolved`, `SilentStreamEnds`, `Reconnects`, `ServiceReturns`, `Recovers`,
`EveryCommandAnswered`, `Reconciles`): TLAPS has neither fairness rules nor
ENABLED here. Every invariant and every action property of the runs is stated
by a theorem, and so is the safety half of `Reconnects`.

## 5. Not modelled

* gRPC flow control and TLS; pixel capture and encoding; cryptography and the
  byte layout of TPM structures (a verdict stands for it); generated code; wording
  of logs and reports; scripts and installers, but for what the service manager and
  the installer do to the agent.
* The constrained PTY executor with its ConPTY, the frame IPC with its helper,
  banner and consent, and the device-key session of the remote bridge: the next
  candidates. `SessionKill` has the PTY dispatch as something that runs and ends.
* The parsing half of the collectors (software list, hardware fields, WMI and
  PowerShell output): they keep no state, and a field that has no way to fail has
  nothing to be checked.
* Concurrency between a renewal child that outlives its agent and a later
  renewal: `TpmRenewal` kills the child with the command.
* Hazards that no property covers, besides those in `PROJECT.json`: a broker that
  stops reading the DATA stream (`harness/dispatch.go:308`), a permit that is past
  its expiry but within the skew, whose number is spent for nothing
  (`screenview/dispatcher.go:109`), a permit pushed after the KILL of its session
  (`harness.go:779`), a session KILL that does not reach a running PTY operation
  (`dispatch.go:170`), the identity that is read once per attempt
  (`harness.go:297`), a temporary file left by a crash that makes every later copy
  fail (`activation_execute.go:57`), and a service that stops after the helper
  gave up waiting for it (`service_windows.go:223`, `stray` in `SelfUpdate`).

## 6. Plan

What is modelled is proved, but for liveness. The next modules: `PtyExec`, one
operation with output cap, timeout, kill and one terminal frame; `FrameIPC`, with
helper, pipe, frame reader and teardown.
