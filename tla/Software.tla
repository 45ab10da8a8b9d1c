------------------------------ MODULE Software ------------------------------
(* internal/winget: the INSTALL_SOFTWARE and UNINSTALL_SOFTWARE pipelines,   *)
(* their detection probes, the egress preflight and the child process, on a  *)
(* host that a user, and a winget nobody could kill, change meanwhile.       *)
EXTENDS Integers, Sequences, FiniteSets, FiniteSetsExt

CONSTANTS Requests,      \* the requests the backend sends
          InitialHosts,  \* the hosts a behaviour starts from
          Entries,       \* entries the uninstall registry may hold
          MaxCommands,   \* bound: commands in a behaviour
          MaxOthers      \* bound: changes of the host by somebody else

\* The registry has two views; a command is one of the two.
SoftwareAssumption ==
  /\ MaxCommands \in Nat /\ MaxOthers \in Nat /\ IsFiniteSet(Entries)
  /\ \A e \in Entries : e.root \in {1, 2}
  /\ \A h \in InitialHosts : /\ h = [arp |-> h.arp, file |-> h.file, content |-> h.content]
                            /\ h.arp \subseteq Entries /\ h.file \in {"none", "regular", "damaged", "odd"}
  /\ \A req \in Requests : req.op \in {"INSTALL", "UNINSTALL"}

VARIABLES host,      \* [arp, file]: the registry entries and the file a rule names
          proc,      \* the winget child of the command: [st, req, exit]
          orphans,   \* the requests whose children outlived their command
          job,       \* the command under way
          last,      \* the last result, with the request it answers
          ctx,       \* [own, parent]: the command's context and the agent's
          fresh,     \* the host is as the deciding probe of last read it
          nCommands, nOthers

software == <<host, proc, orphans, job, last, ctx, fresh, nCommands, nOthers>>
-----------------------------------------------------------------------------
(* Versions: sequences of tokens [num, val, lex], where num says that the    *)
(* token is a number, val is that number and lex ranks the tokens as text.   *)
NoVersion == <<>>
NoToken == [num |-> FALSE, val |-> 0, lex |-> 0]
Token(v, i) == IF i <= Len(v) THEN v[i] ELSE NoToken
SameToken(a, b) == IF a.num /\ b.num THEN a.val = b.val ELSE a = b
Below(a, b) == IF a.num /\ b.num THEN a.val < b.val ELSE a.lex < b.lex

CompareVersions(a, b) ==
  LET differ == {i \in 1..Max({Len(a), Len(b)}) : ~SameToken(Token(a, i), Token(b, i))}
  IN  IF differ = {} THEN 0
      ELSE LET i == Min(differ) IN IF Below(Token(a, i), Token(b, i)) THEN -1 ELSE 1

RangeSatisfied(v, r) ==
  /\ r.brackets
  /\ r.lower # NoVersion => CompareVersions(v, r.lower) >= (IF r.lowerIncl THEN 0 ELSE 1)
  /\ r.upper # NoVersion => CompareVersions(v, r.upper) <= (IF r.upperIncl THEN 0 ELSE -1)

Satisfies(pred, target, v) ==
  \/ pred.type = "LATEST"
  \/ /\ v # NoVersion
     /\ \/ pred.type = "EXACT" /\ CompareVersions(v, target) = 0
        \/ pred.type = "MINIMUM" /\ CompareVersions(v, target) >= 0
        \/ pred.type = "RANGE" /\ RangeSatisfied(v, pred.range)

\* The version the catalog resolved goes before the predicate's own.
VersionPredicateSatisfied(req, v) ==
  Satisfies(req.pred, IF req.resolved # NoVersion THEN req.resolved ELSE req.pred.spec, v)
MatchesFileVersion(pred, v) == v # NoVersion /\ Satisfies(pred, pred.spec, v)
RequiresVersionProof(pred) == pred.type \in {"EXACT", "MINIMUM", "RANGE"}
-----------------------------------------------------------------------------
(* Detection rules.                                                          *)
FileRules == {"FILE_EXISTS", "FILE_SHA256", "FILE_VERSION"}
Authoritative(type) == type \in FileRules \cup {"REGISTRY_UNINSTALL"}

RegistryRuleValid(rule) ==
  \/ rule.code = "guid"
  \/ /\ rule.code = "" /\ rule.name # ""
     /\ rule.nameMatch \in {"EXACT", "PREFIX", "CONTAINS", "GLOB"}
     /\ IF rule.publisher = "" THEN rule.allowNoPublisher /\ rule.nameMatch = "EXACT"
                               ELSE rule.publisherMatch \in {"EXACT", "CONTAINS"}

\* A path is absolute on a drive, with no device, share, stream, variable,
\* forward slash, control character or relative segment in it.
PathSafe(path) == path = "absolute"
PredicateComplete(pred) ==
  CASE pred.type = "LATEST"               -> TRUE
    [] pred.type \in {"EXACT", "MINIMUM"} -> pred.spec # NoVersion
    [] pred.type = "RANGE"                -> pred.range.brackets
    [] OTHER                              -> FALSE
FileRuleValid(rule) ==
  /\ PathSafe(rule.path)
  /\ rule.type = "FILE_SHA256" => rule.digest # NoVersion
  /\ rule.type = "FILE_VERSION" => PredicateComplete(rule.pred)

RuleValid(rule) ==
  CASE rule.type = "WINGET_PACKAGE"     -> rule.package # ""
    [] rule.type = "REGISTRY_UNINSTALL" -> RegistryRuleValid(rule)
    [] rule.type \in FileRules          -> FileRuleValid(rule)
    [] OTHER                            -> FALSE

\* How a name of the registry stands to the one in the rule.
MatchString(mode, rel) ==
  CASE mode = "EXACT"    -> rel = "equal"
    [] mode = "PREFIX"   -> rel \in {"equal", "prefix"}
    [] mode = "CONTAINS" -> rel \in {"equal", "prefix", "inside"}
    [] mode = "GLOB"     -> rel \in {"equal", "prefix", "glob"}
    [] OTHER             -> FALSE
EntryMatches(rule, e) ==
  /\ MatchString(rule.nameMatch, e.name)
  /\ rule.publisher # "" => MatchString(rule.publisherMatch, e.publisher)
\* The two views of the registry may show one product twice.
Deduped(es) == {[name |-> e.name, publisher |-> e.publisher, version |-> e.version] : e \in es}

Found(v) == [sat |-> TRUE, version |-> v, err |-> ""]
Missed   == [sat |-> FALSE, version |-> NoVersion, err |-> ""]
Failed(why) == [sat |-> FALSE, version |-> NoVersion, err |-> why]

ByProductCode(h) ==
  LET ours(root) == {e \in h.arp : e.guid /\ e.root = root}
  IN  IF ours(1) # {} THEN {Found(e.version) : e \in ours(1)}
      ELSE IF ours(2) # {} THEN {Found(e.version) : e \in ours(2)} ELSE {Missed}

\* A registry that cannot be read, or holds too many entries, is an error,
\* and so is a context that is over; neither is ever an absence.
Enumerate(h, live) == IF live THEN {h.arp} ELSE {}
OneMatch(ms) ==
  IF ms = {} THEN Missed
  ELSE IF Cardinality(ms) = 1 THEN Found((CHOOSE m \in ms : TRUE).version)
  ELSE Failed("ambiguous")
ProbeViaRegistry(rule, h, live) ==
  {Failed("error")} \cup
  (IF rule.code # "" THEN (IF live THEN ByProductCode(h) ELSE {})
   ELSE {OneMatch(Deduped({e \in es : EntryMatches(rule, e)})) : es \in Enumerate(h, live)})

\* A directory, a link or a device where a file should be is an error.
OnFile(h, regular) ==
  {Failed("error")} \cup
  (CASE h.file = "none" -> {Missed} [] h.file = "odd" -> {} [] OTHER -> regular)
ProbeFileExists(h) == OnFile(h, {Found(NoVersion)})
ProbeFileSha256(rule, h, live) ==
  OnFile(h, IF ~live \/ rule.cap = "below" THEN {}
            ELSE IF h.file = "damaged" \/ h.content # rule.digest THEN {Missed} ELSE {Found(NoVersion)})
\* The version resource of the file, in its own translation or the default one.
ReadPeVersion(h) == IF h.file = "damaged" THEN {} ELSE {h.content}
ProbeFileVersion(rule, h) ==
  OnFile(h, {[sat |-> MatchesFileVersion(rule.pred, v), version |-> v, err |-> ""] : v \in ReadPeVersion(h)})
ProbeViaFile(rule, h, live) ==
  IF ~FileRuleValid(rule) THEN {Failed("error")}
  ELSE CASE rule.type = "FILE_EXISTS" -> ProbeFileExists(h)
         [] rule.type = "FILE_SHA256" -> ProbeFileSha256(rule, h, live)
         [] OTHER                     -> ProbeFileVersion(rule, h)

\* One `winget list`: it may miss what is installed (session 0), it never
\* lists what is not, and it cannot run under a context that is over.
ListedVersions(h) == {e.version : e \in {x \in h.arp : x.name = "equal"}}
WingetListAttempt(h, live) ==
  {Failed("error")} \cup (IF live THEN {Missed} \cup {Found(v) : v \in ListedVersions(h)} ELSE {})
\* With the source first, without it on a miss; a failure stops there.
ProbeViaWingetList(h, live) ==
  LET src == WingetListAttempt(h, live)
  IN  {r \in src : r.sat \/ r.err # ""} \cup
      (IF \E r \in src : ~r.sat /\ r.err = "" THEN WingetListAttempt(h, live) ELSE {})

DetectionProbe(rule, h, live) ==
  CASE rule.type = "REGISTRY_UNINSTALL" -> ProbeViaRegistry(rule, h, live)
    [] rule.type \in FileRules          -> ProbeViaFile(rule, h, live)
    [] OTHER                            -> ProbeViaWingetList(h, live)

\* The uninstaller's view of the same probes; stat is the earlier look at
\* the file that a digest or a version rule takes.
UninstallProbe(rule, h, live, stat) ==
  {IF r.err = "ambiguous" THEN "AMBIGUOUS"
   ELSE IF r.err # "" \/ stat = "error" THEN "ERROR"
   ELSE IF rule.type \in {"REGISTRY_UNINSTALL", "FILE_EXISTS"} THEN IF r.sat THEN "MATCHED" ELSE "ABSENT"
   ELSE IF stat = "none" THEN "ABSENT"
   ELSE IF r.sat THEN "MATCHED" ELSE "PRESENT_MISMATCH" :
   r \in DetectionProbe(rule, h, live)}
NeedsStat(rule) == rule.type \in {"FILE_SHA256", "FILE_VERSION"}
-----------------------------------------------------------------------------
(* The state machine.                                                        *)
Idle == [pc |-> "idle"]
NoResult == [status |-> "none"]
NoChild == [st |-> "none"]
Running(op) == job.pc # "idle" /\ job.req.op = op

Init ==
  /\ host \in InitialHosts
  /\ proc = NoChild /\ orphans = {}
  /\ job = Idle /\ last = NoResult /\ fresh = FALSE
  /\ ctx = [own |-> "live", parent |-> "live"]
  /\ nCommands = 0 /\ nOthers = 0

Finish(status, isFresh) ==
  /\ last' = [status |-> status, req |-> job.req]
  /\ job' = Idle /\ fresh' = isFresh
  /\ ctx' = [ctx EXCEPT !.own = IF ctx.parent = "live" THEN "live" ELSE "cancelled"]
  /\ UNCHANGED <<host, nCommands, nOthers>>
Answer(status, isFresh) == Finish(status, isFresh) /\ UNCHANGED <<proc, orphans>>
Move(pc) == job' = [job EXCEPT !.pc = pc] /\ UNCHANGED <<host, orphans, last, ctx, fresh, nCommands, nOthers>>
Goto(pc) == Move(pc) /\ UNCHANGED proc

IsKnownArgsPreset(req) == req.preset = (IF req.op = "INSTALL" THEN "DEFAULT" ELSE "UNINSTALL_DEFAULT")
InstallRefusal(req) ==
  IF ~RuleValid(req.rule) THEN "FAILED_UNSUPPORTED_DETECTION_RULE"
  ELSE IF req.provider # "WINGET" THEN "FAILED_UNSUPPORTED_ARGS_POLICY"
  ELSE IF req.rule.type = "WINGET_PACKAGE" /\ req.package # req.rule.package THEN "FAILED_UNSUPPORTED_DETECTION_RULE"
  ELSE IF ~IsKnownArgsPreset(req) THEN "FAILED_UNSUPPORTED_ARGS_POLICY"
  ELSE IF req.package = "" THEN "FAILED_INTERNAL"
  ELSE ""
UninstallRefusal(req) ==
  IF \/ ~RuleValid(req.rule) \/ ~Authoritative(req.rule.type) \/ req.provider # "WINGET"
     \/ req.package = "" \/ req.requestId = "" \/ ~IsKnownArgsPreset(req)
  THEN "FAILED_UNSUPPORTED_VERIFICATION" ELSE ""
Refusal(req) == IF req.op = "INSTALL" THEN InstallRefusal(req) ELSE UninstallRefusal(req)

\* A command arrives; nothing of it runs before the request is found sound.
Begin(req) ==
  /\ job.pc = "idle" /\ nCommands < MaxCommands /\ ctx.parent = "live"
  /\ nCommands' = nCommands + 1
  /\ job' = [pc |-> IF Refusal(req) = "" THEN "locate" ELSE "refuse", req |-> req, stat |-> "file",
             base |-> "", clean |-> FALSE, timedOut |-> FALSE, fresh |-> FALSE]
  /\ UNCHANGED <<host, proc, orphans, last, ctx, fresh, nOthers>>
Refuse == job.pc = "refuse" /\ Answer(Refusal(job.req), FALSE)

\* On the PATH, in the user's or in the machine's WindowsApps; or nowhere.
LocateExecutable ==
  /\ job.pc = "locate"
  /\ \/ Goto(IF Running("INSTALL") THEN "egress" ELSE IF NeedsStat(job.req.rule) THEN "preStat" ELSE "pre")
     \/ Answer("FAILED_UNSUPPORTED_PLATFORM", FALSE)

(* The egress preflight: the source list, a query for one fixed package and  *)
(* name, connection and request checks, on shares of one deadline.           *)
SourceList == {"listed", "unparseable", "failed", "timeout"}
PackageQuery == {"found", "missing", "failed", "timeout"}
NetworkChecks == {"ok", "failed", "timeout"}
EgressReady(list, query, checks) == "timeout" \notin {list, query, checks} /\ query = "found"
EgressVerify ==
  /\ job.pc = "egress"
  /\ \E list \in SourceList, query \in PackageQuery, checks \in NetworkChecks :
       IF EgressReady(list, query, checks) THEN Goto("pre") ELSE Answer("FAILED_EGRESS", FALSE)

PreDetect ==
  /\ job.pc = "pre" /\ Running("INSTALL")
  /\ \E r \in DetectionProbe(job.req.rule, host, ctx.own = "live") :
       IF r.err # "" /\ Authoritative(job.req.rule.type) THEN Answer("FAILED_VERIFICATION", FALSE)
       ELSE IF ~r.sat THEN Goto("launch")
       ELSE IF VersionPredicateSatisfied(job.req, r.version) THEN Answer("SUCCEEDED_NOOP", TRUE)
       ELSE Answer("FAILED_PREEXISTING_VERSION_CONFLICT", FALSE)

\* The digest and version rules look at the file twice.
Stat ==
  /\ job.pc \in {"preStat", "postStat"} /\ UNCHANGED <<host, proc, orphans, last, ctx, fresh, nCommands, nOthers>>
  /\ \E stat \in {IF host.file = "none" THEN "none" ELSE "file", "error"} :
       job' = [job EXCEPT !.pc = IF @ = "preStat" THEN "pre" ELSE "post", !.stat = stat, !.fresh = TRUE]

FreshNow == NeedsStat(job.req.rule) => job.fresh
\* A removal that does not look first.
PreProbeAlwaysRemoves == job.pc = "pre" /\ Running("UNINSTALL") /\ Goto("launch")
PreProbe ==
  /\ job.pc = "pre" /\ Running("UNINSTALL")
  /\ \E state \in UninstallProbe(job.req.rule, host, ctx.own = "live", job.stat) :
       CASE state = "ABSENT"                   -> Answer("SKIP_ALREADY_ABSENT", FreshNow)
         [] state \in {"AMBIGUOUS", "ERROR"}   -> Answer("FAILED_PRECHECK_INCONCLUSIVE", FALSE)
         [] OTHER                              -> Goto("launch")

\* What an exit code says of an installation.
ExitStatus(exit, reboot) ==
  CASE exit = "0"              -> IF reboot THEN "SUCCEEDED_REBOOT_REQUIRED" ELSE "SUCCEEDED"
    [] exit = "3010"           -> "SUCCEEDED_REBOOT_REQUIRED"
    [] exit = "not_applicable" -> "SUCCEEDED_NOOP"
    [] OTHER                   -> "FAILED_INSTALL"

\* The pipelines after the child: a deadline ends an installation at once and
\* sends an uninstallation to its last probe, as every exit does.
AfterChild(exit, timedOut, reboot) ==
  LET base == ExitStatus(exit, reboot)
      next == IF NeedsStat(job.req.rule) /\ Running("UNINSTALL") THEN "postStat" ELSE "post"
  IN  IF Running("INSTALL") /\ (timedOut \/ base = "FAILED_INSTALL")
      THEN Finish(IF timedOut THEN "FAILED_TIMEOUT" ELSE base, FALSE)
      ELSE /\ job' = [job EXCEPT !.pc = next, !.base = IF Running("INSTALL") THEN base ELSE "",
                                 !.clean = exit = "0", !.timedOut = timedOut, !.fresh = FALSE]
           /\ UNCHANGED <<host, last, ctx, fresh, nCommands, nOthers>>

Launch ==
  /\ job.pc = "launch"
  /\ \/ Move("wait") /\ proc' = [st |-> "running", req |-> job.req]
     \/ AfterChild("-1", FALSE, FALSE) /\ UNCHANGED <<proc, orphans>>

\* The child's exit is received.
Reap ==
  /\ job.pc = "wait" /\ proc.st = "exited"
  /\ \E reboot \in BOOLEAN : AfterChild(proc.exit, FALSE, reboot)
  /\ proc' = NoChild /\ UNCHANGED orphans

\* The context is over before the exit is received: the tree is killed, then
\* the exit is waited for five seconds more. What was not received counts as 0.
KillOutcomes ==
  IF proc.st = "running"
  THEN {[left |-> {}, got |-> "other"], [left |-> {}, got |-> "none"], [left |-> {proc.req}, got |-> "none"]}
  ELSE {[left |-> {}, got |-> proc.exit]}
\* A runner that kills and then waits for the exit, however long it takes.
GiveUpDrains ==
  /\ job.pc = "wait" /\ ctx.own # "live" /\ proc.st = "exited"
  /\ proc' = NoChild /\ AfterChild("-1", TRUE, FALSE) /\ UNCHANGED orphans
GiveUp ==
  /\ job.pc = "wait" /\ ctx.own # "live"
  /\ LET timedOut == ctx.own = "expired"
     IN  \E o \in KillOutcomes :
           /\ proc' = NoChild /\ orphans' = orphans \cup o.left
           /\ AfterChild(IF o.got # "none" THEN (IF o.got = "0" /\ timedOut THEN "-1" ELSE o.got)
                         ELSE IF timedOut THEN "-1" ELSE "0", timedOut, FALSE)

PostDetect ==
  /\ job.pc = "post" /\ Running("INSTALL")
  /\ \E r \in DetectionProbe(job.req.rule, host, ctx.own = "live") :
       Answer(IF IF r.sat THEN VersionPredicateSatisfied(job.req, r.version)
                 ELSE ~Authoritative(job.req.rule.type) /\ ~RequiresVersionProof(job.req.pred)
              THEN job.base ELSE "FAILED_VERIFICATION", r.sat)

\* The last probe has the agent's context, not the one that ran out.
\* The exit code believed before the probe.
UninstallStatusByExit(state) == IF job.clean \/ state = "ABSENT" THEN "SUCCEEDED_VERIFIED" ELSE "FAILED_EXIT"
UninstallStatus(state) ==
  IF state = "ABSENT" THEN "SUCCEEDED_VERIFIED"
  ELSE IF job.timedOut THEN "PARTIAL_INCONCLUSIVE"
  ELSE CASE state = "MATCHED"          -> IF job.clean THEN "FAILED_VERIFY_GHOST" ELSE "FAILED_EXIT"
         [] state = "PRESENT_MISMATCH" -> "PARTIAL_RESIDUE"
         [] OTHER                      -> "PARTIAL_INCONCLUSIVE"
PostProbe ==
  /\ job.pc = "post" /\ Running("UNINSTALL")
  /\ \E state \in IF job.timedOut /\ ctx.parent # "live" THEN {"ERROR"}
                  ELSE UninstallProbe(job.req.rule, host, ctx.parent = "live", job.stat) :
       Answer(UninstallStatus(state), FreshNow)
-----------------------------------------------------------------------------
(* What surrounds the agent: time, the service manager, winget, the user.    *)
Changed(h) ==
  /\ h # host /\ host' = h
  /\ fresh' = FALSE
  /\ job' = IF job.pc = "idle" THEN job ELSE [job EXCEPT !.fresh = FALSE]
  /\ UNCHANGED <<proc, orphans, last, ctx, nCommands>>
Ours == {e \in Entries : e.name = "equal"}
\* winget registers a product, or removes it, and writes or removes its file,
\* in either order; it may do neither and exit as it likes.
Children == orphans \cup (IF proc.st = "running" THEN {proc.req} ELSE {})
ChildWorks ==
  /\ UNCHANGED nOthers
  /\ \E req \in Children :
     IF req.op = "INSTALL"
     THEN \/ \E e \in Ours : e.version = req.target /\ Changed([host EXCEPT !.arp = (@ \ Ours) \cup {e}])
          \/ Changed([host EXCEPT !.file = "regular", !.content = req.target])
     ELSE \/ Changed([host EXCEPT !.arp = @ \ Ours])
          \/ Changed([host EXCEPT !.file = "none", !.content = NoVersion])
ChildExits ==
  /\ proc.st = "running"
  /\ \E exit \in {"0", "3010", "not_applicable", "other"} : proc' = [st |-> "exited", req |-> proc.req, exit |-> exit]
  /\ UNCHANGED <<host, orphans, job, last, ctx, fresh, nCommands, nOthers>>
OrphanEnds ==
  /\ \E req \in orphans : orphans' = orphans \ {req}
  /\ UNCHANGED <<host, proc, job, last, ctx, fresh, nCommands, nOthers>>
Others ==
  /\ nOthers < MaxOthers /\ nOthers' = nOthers + 1
  /\ \/ \E e \in Entries : Changed([host EXCEPT !.arp = IF e \in @ THEN @ \ {e} ELSE @ \cup {e}])
     \/ Changed([host EXCEPT !.file = "none", !.content = NoVersion])
     \/ host.file = "regular" /\ \E f \in {"damaged", "odd"} : Changed([host EXCEPT !.file = f])
Deadline ==
  /\ ctx.own = "live" /\ (job.pc = "wait" \/ (job.pc = "post" /\ Running("INSTALL")))
  /\ ctx' = [ctx EXCEPT !.own = "expired"]
  /\ UNCHANGED <<host, proc, orphans, job, last, fresh, nCommands, nOthers>>
ServiceStops ==
  /\ ctx.parent = "live" /\ job.pc # "idle"
  /\ ctx' = [parent |-> "cancelled", own |-> IF ctx.own = "live" THEN "cancelled" ELSE ctx.own]
  /\ UNCHANGED <<host, proc, orphans, job, last, fresh, nCommands, nOthers>>

Agent ==
  \/ Refuse \/ LocateExecutable \/ EgressVerify \/ PreDetect \/ Stat \/ PreProbe
  \/ Launch \/ Reap \/ GiveUp \/ PostDetect \/ PostProbe
Next ==
  \/ \E req \in Requests : Begin(req)
  \/ Agent \/ ChildWorks \/ ChildExits \/ OrphanEnds \/ Others \/ Deadline \/ ServiceStops

Spec == Init /\ [][Next]_software /\ WF_software(Agent) /\ WF_software(Deadline)
-----------------------------------------------------------------------------
(* What a verdict must mean, said of the host itself and not of a probe.     *)
Names(rule, e) == IF rule.code # "" THEN e.guid ELSE EntryMatches(rule, e)
Holds(req, h) ==
  IF req.rule.type = "REGISTRY_UNINSTALL"
  THEN \E e \in h.arp : Names(req.rule, e) /\ VersionPredicateSatisfied(req, e.version)
  ELSE /\ h.file \in {"regular", "damaged"}
       /\ req.rule.type = "FILE_SHA256" => h.file = "regular" /\ h.content = req.rule.digest
       /\ req.rule.type = "FILE_VERSION" => VersionPredicateSatisfied(req, h.content)
Gone(rule, h) ==
  IF rule.type = "REGISTRY_UNINSTALL" THEN \A e \in h.arp : ~Names(rule, e) ELSE h.file = "none"
Succeeded == {"SUCCEEDED", "SUCCEEDED_NOOP", "SUCCEEDED_REBOOT_REQUIRED", "SUCCEEDED_VERIFIED", "SKIP_ALREADY_ABSENT"}
Verified(r) == r.status \in Succeeded /\ Authoritative(r.req.rule.type)

(* An installation or a removal reported as done, under a rule that is an    *)
(* authority, is so on the host until something changes the host: whatever   *)
(* the exit code, the deadline, the cancellation or a failed probe said.     *)
VerdictHolds ==
  Verified(last) /\ fresh => IF last.req.op = "INSTALL" THEN Holds(last.req, host) ELSE Gone(last.req.rule, host)

(* A command whose result was lost is sent again: once it was verified, no   *)
(* second winget is started for it while the host stays as it was verified.  *)
RedeliveryIdle ==
  [][proc.st = "none" /\ proc'.st = "running" /\ Verified(last) /\ fresh => last.req # job.req]_software
=============================================================================
