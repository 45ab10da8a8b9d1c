------------------------------ MODULE Inventory ------------------------------
(* internal/inventory: the blocks of COLLECT_INVENTORY. A block reads sources *)
(* of the host one after the other, each of which may answer, be missing, be  *)
(* denied or make no sense; the host changes meanwhile, and the time given to *)
(* the block may run out. What could not be read is to make it incomplete.    *)
EXTENDS Integers, Sequences, Functions, FiniteSets

CONSTANTS Asked,       \* lists of blocks a command may ask for
          Hosts,       \* source -> answer [how, n, odd]: hosts to start from
          Turns,       \* [source, answer]: what may change on a host
          Allowlist,   \* the services that are looked at, in order
          Volumes,     \* drive letters
          MaxPages,    \* of the member list of the Administrators group
          Cap,         \* the largest list a block carries
          MaxTurns, MaxAsked  \* bounds


VARIABLES machine,   \* source -> answer
          block,     \* the block being collected, with those left to collect
          sheet,     \* the last block
          nAsked, nTurns

inventory == <<machine, block, sheet, nAsked, nTurns>>
-----------------------------------------------------------------------------
\* The sources of a block in the order the code reads them: <<kind, item>>.
ServiceSources ==
  [i \in 1..3 * Len(Allowlist) |-> <<<<"open", "config", "status">>[1 + ((i - 1) % 3)], Allowlist[1 + ((i - 1) \div 3)]>>]
Sources(f) ==
  CASE f = "hardware"        -> <<<<"class", "cs">>, <<"class", "os">>, <<"class", "cpu">>, <<"class", "bios">>, <<"class", "disks">>, <<"class", "nics">>>>
    [] f = "outdated"        -> <<<<"upgrade", "">>>>
    [] f = "securityPosture" -> <<<<"defender", "">>, <<"securityCenter", "">>, <<"firewall", "">>, <<"bitlocker", "">>>>
    [] f = "localAdmins"     -> <<<<"alias", "">>, <<"machineSid", "">>, <<"aliasName", "">>>> \o [i \in 1..MaxPages |-> <<"page", i>>]
                         \o <<<<"powershell", "">>, <<"wmi", "">>>>
    [] f = "pendingReboot"   -> <<<<"key", "cbs">>, <<"key", "windowsUpdate">>, <<"value", "renames">>, <<"computerName", "">>,
                         <<"value", "updateExe">>, <<"value", "netlogon">>>>
    [] f = "deviceHealth"    -> <<<<"drives", "">>>> \o [i \in 1..Len(Volumes) |-> <<"volume", Volumes[i]>>] \o <<<<"memory", "">>, <<"uptime", "">>>>
    [] f = "diagnostics"     -> <<<<"backend", "">>, <<"dns", "">>, <<"tls", "">>>>
    [] f = "services"        -> <<<<"manager", "">>>> \o ServiceSources
    [] f = "hotfix"          -> <<<<"history", "">>, <<"getHotfix", "">>, <<"search", "">>, <<"service", "wuauserv">>, <<"service", "bits">>, <<"policy", "">>>>
    [] f = "startup"         -> <<<<"run", "HKLM">>, <<"run", "HKLM_ONCE">>, <<"run", "WOW6432">>, <<"run", "HKCU">>, <<"run", "HKCU_ONCE">>,
                         <<"folder", "common">>, <<"folder", "user">>, <<"tasks", "">>, <<"rdp", "">>, <<"firewallLog", "">>>>
    [] f = "appControl"      -> <<<<"ci", "Policy">>, <<"ci", "Config">>, <<"deviceGuard", "">>, <<"cip", "">>, <<"sipolicy", "">>, <<"srp", "">>,
                         <<"collection", "Exe">>, <<"collection", "Dll">>, <<"collection", "Script">>, <<"collection", "Msi">>,
                         <<"collection", "Appx">>, <<"appIdSvc", "">>>>
    [] f = "securityNetwork" -> <<<<"events", "">>>>
Blocks == {"hardware", "outdated", "securityPosture", "localAdmins", "pendingReboot", "deviceHealth",
           "diagnostics", "services", "hotfix", "startup", "appControl", "securityNetwork"}

IsAnswer(a) == a.n \in Nat /\ a.odd \in Nat
\* No service and no drive is listed twice.
InventoryAssumption ==
  /\ MaxPages \in Nat \ {0} /\ {Cap, MaxTurns, MaxAsked} \subseteq Nat
  /\ Asked \subseteq Seq(Blocks)
  /\ {Allowlist, Volumes} \subseteq Seq(STRING) /\ IsInjective(Allowlist) /\ IsInjective(Volumes)
  /\ \A h \in Hosts : \A s \in DOMAIN h : IsAnswer(h[s])
  /\ \A t \in Turns : IsAnswer(t.answer)

With(f, s, v) == [t \in DOMAIN f \cup {s} |-> IF t = s THEN v ELSE f[t]]
\* What a source says to whoever reads it.
Says(s) == IF s \in DOMAIN machine THEN machine[s] ELSE [how |-> "read", n |-> 0, odd |-> 0]
-----------------------------------------------------------------------------
Tell(b, s, v) == [b EXCEPT !.told = With(@, s, v)]
Fail(b, s)    == [b EXCEPT !.errors = @ \cup {s}]
Without(b, kinds) == [b EXCEPT !.left = {i \in @ : Sources(b.of)[i][1] \notin kinds}]
SumOf(f) == FoldFunction(LAMBDA n, t : n + t, 0, f)
Total(b, kinds) == SumOf([s \in {t \in DOMAIN b.told : t[1] \in kinds} |-> b.told[s]])

\* pending_reboot: a key or a value that is not there is no signal; a name
\* that is not there is an error.
TakeKey(b, s, a) ==
  CASE a.how = "read"   -> Tell(b, s, 1)
    [] a.how = "absent" -> Tell(b, s, 0)
    [] OTHER            -> Fail(b, s)
TakeValue(b, s, a) ==
  CASE a.how = "read"   -> Tell(b, s, a.n)
    [] a.how = "absent" -> Tell(b, s, 0)
    [] OTHER            -> Fail(b, s)
TakeName(b, s, a) == IF a.how = "read" THEN Tell(b, s, a.n) ELSE Fail(b, s)

\* device_health: n is what is free, odd the size, in GiB. A volume that is
\* not fixed or has no size does not count.
LowDisk(free, total) == (free * 100) \div total < 10 \/ free < 2
TakeDrives(b, s, a) == IF a.how = "read" THEN Tell(b, s, 0) ELSE Without(Fail(b, s), {"volume"})
TakeVolume(b, s, a) ==
  CASE a.how = "absent"                  -> b
    [] a.how = "read" /\ a.odd = 0       -> b
    [] a.how = "read" /\ a.odd # 0       -> Tell(b, s, IF LowDisk(a.n, a.odd) THEN 1 ELSE 0)
    [] OTHER                             -> Fail(b, s)
\* No memory at all, or no second since the boot, is an error as well.
TakeMemory(b, s, a) == IF a.how = "read" /\ a.odd = 0 /\ a.n > 0 THEN Tell(b, s, a.n) ELSE Fail(b, s)
TakeUptime(b, s, a) == IF a.how = "read" /\ a.odd = 0 /\ a.n > 0 THEN Tell(b, s, a.n) ELSE Fail(b, s)

\* services: an open that fails for another reason than "does not exist"
\* leaves the service present, of unknown state.
TakeManager(b, s, a) ==
  IF a.how = "read" THEN Tell(b, s, 0) ELSE Without(Fail(b, s), {"open", "config", "status"})
PastService(b, s) == [b EXCEPT !.left = {i \in @ : Sources(b.of)[i] \notin {<<"config", s[2]>>, <<"status", s[2]>>}}]
TakeOpenLoosely(b, s, a) == IF a.how = "read" THEN Tell(b, s, 1) ELSE PastService(Tell(b, s, 0), s)
TakeOpen(b, s, a) ==
  CASE a.how = "read"   -> Tell(b, s, 1)
    [] a.how = "absent" -> PastService(Tell(b, s, 0), s)
    [] OTHER            -> PastService(Fail(Tell(b, s, 1), s), s)
TakeServiceState(b, s, a) == IF a.how = "read" THEN Tell(b, s, a.n) ELSE Fail(b, s)
-----------------------------------------------------------------------------
\* startup_exposure: n names, and odd more that are redacted; the redaction of
\* a location is an error of its own.
TakeRunKey(b, s, a) ==
  CASE a.how = "read"   -> Tell(IF a.odd > 0 THEN Fail(b, s) ELSE b, s, a.n)
    [] a.how = "absent" -> Tell(b, s, 0)
    [] OTHER            -> Fail(b, s)
TakeFolder(b, s, a) == TakeRunKey(b, s, a)
TakeTasks(b, s, a) ==
  IF a.how = "read" THEN Tell(IF a.odd > 0 THEN Fail(b, s) ELSE b, s, a.n) ELSE Fail(b, s)
TakeRdp(b, s, a) == IF a.how = "read" THEN Tell(b, s, a.n) ELSE Fail(b, s)
TakeFirewallLog(b, s, a) == TakeValue(b, s, a)

\* app_control: only the keys of code integrity and of AppLocker are critical.
TakeCi(b, s, a) == IF a.how \in {"read", "absent"} THEN Tell(b, s, 0) ELSE Fail(b, s)
TakeDeviceGuard(b, s, a) ==
  CASE a.how = "read" /\ a.odd = 0 -> Tell(b, s, a.n)
    [] a.how = "denied"            -> Fail(b, s)
    [] OTHER                       -> b
TakeCip(b, s, a) == TakeValue(b, s, a)
TakeSipolicy(b, s, a) == TakeValue(b, s, a)
TakeSrp(b, s, a) ==
  CASE a.how = "read"   -> Tell(b, s, 1)
    [] a.how = "absent" -> Without(Tell(b, s, 0), {"collection"})
    [] OTHER            -> Without(Fail(b, s), {"collection"})
MapAppLockerDword(b, s, a) ==
  CASE a.how = "read" /\ a.n \in 0..2 -> Tell(b, s, a.n)
    [] a.how = "absent"               -> Tell(b, s, 0)
    [] OTHER                          -> Fail(b, s)
TakeAppIdSvc(b, s, a) ==
  CASE a.how = "read" /\ a.odd = 0 -> Tell(b, s, 1)
    [] a.how = "absent"            -> Tell(b, s, 0)
    [] OTHER                       -> Fail(b, s)
WdacOff(b) ==
  /\ b.errors \cap {<<"ci", "Policy">>, <<"ci", "Config">>} = {}
  /\ \A s \in {<<"cip", "">>, <<"sipolicy", "">>} : s \in DOMAIN b.told /\ b.told[s] = 0

\* local_admin_group: the members come from NetAPI, page by page, else from
\* PowerShell, else from WMI, which is not there yet. The errors of a source
\* that was replaced are forgotten.
Refusals == {"aliasName", "page", "powershell", "wmi"}
Done(b) == [b EXCEPT !.left = {}, !.errors = {s \in @ : s[1] \notin Refusals}]
NetApiFailed(b, s) == Without([Fail(b, s) EXCEPT !.told = [t \in {u \in DOMAIN @ : u[1] # "page"} |-> @[t]]], {"aliasName", "page"})
TakeAlias(b, s, a) == IF a.how = "read" THEN Tell(b, s, 0) ELSE [Fail(b, s) EXCEPT !.left = {}]
TakeMachineSid(b, s, a) == IF a.how = "read" THEN Tell(b, s, 0) ELSE Fail(b, s)
TakeAliasName(b, s, a) == IF a.how = "read" THEN Tell(b, s, 0) ELSE NetApiFailed(b, s)
TakePage(b, s, a) ==
  CASE a.how = "read"                                 -> Done(Tell(b, s, a.n))
    [] a.how = "more" /\ a.n > 0 /\ s # <<"page", MaxPages>> -> Tell(b, s, a.n)
    [] OTHER                                          -> NetApiFailed(b, s)
TakePowerShell(b, s, a) == IF a.how = "read" THEN Done(Tell(b, s, a.n)) ELSE Fail(b, s)
TakeWmi(b, s, a) == Fail(b, s)
-----------------------------------------------------------------------------
\* outdated_software: rows that do not parse (odd) are passed over; the text
\* that says "nothing" wins over any table.
TakeUpgrade(b, s, a) ==
  CASE a.how = "none" -> Tell(b, s, 0)
    [] a.how = "read" -> Tell(b, s, a.n)
    [] OTHER          -> Fail(b, s)

\* hotfix_posture, one script: the history; Get-HotFix where it has nothing,
\* which leaves what was told as it is when it has nothing either; then the search, the services and the policy.
TakeHistory(b, s, a) ==
  IF a.how # "read" THEN Fail(b, s)
  ELSE IF a.n > 0 THEN Without(Tell(b, s, a.n), {"getHotfix"}) ELSE Tell(b, s, 0)
TakeGetHotfix(b, s, a) ==
  IF a.how # "read" THEN Fail(b, s)
  ELSE IF a.n > 0 THEN Tell(b, s, a.n) ELSE b
TakeSearch(b, s, a) == IF a.how = "read" THEN Tell(b, s, a.n) ELSE Fail(b, s)
TakeUpdateService(b, s, a) == IF a.how = "read" THEN Tell(b, s, a.n) ELSE Fail(b, s)
TakePolicy(b, s, a) == IF a.how = "read" THEN Tell(b, s, a.n) ELSE Fail(b, s)

\* security_posture, one script: of the firewall, n profiles are on and odd
\* ones were not returned; these count as off.
TakeDefender(b, s, a) == IF a.how = "read" THEN Tell(b, s, a.n) ELSE Fail(b, s)
TakeSecurityCenter(b, s, a) ==
  CASE a.how = "read"   -> Tell(b, s, a.n)
    [] a.how = "none"   -> Tell(b, s, 0)
    [] OTHER            -> Fail(b, s)
TakeFirewall(b, s, a) == IF a.how = "read" THEN Tell(b, s, a.n) ELSE Fail(b, s)
TakeBitlocker(b, s, a) == IF a.how = "read" THEN Tell(b, s, a.n) ELSE Fail(b, s)

\* hardware: a class that cannot be queried is left out, without an error.
TakeClass(b, s, a) == IF a.how = "read" /\ a.n > 0 THEN Tell(b, s, a.n) ELSE b
\* diagnostics: what cannot be reached is an answer; an address that cannot be
\* parsed is an error.
TakeBackend(b, s, a) == IF a.how = "read" THEN Tell(b, s, 1) ELSE Without(Fail(b, s), {"dns", "tls"})
TakeReach(b, s, a) == Tell(b, s, IF a.how = "read" THEN a.n ELSE 0)
\* security_network: the newest events; odd ones cannot be projected.
TakeEvents(b, s, a) == IF a.how = "read" THEN Tell(b, s, a.n) ELSE Fail(b, s)

Take(b, s, a) ==
  LET kind == s[1] IN
  CASE kind = "key" -> TakeKey(b, s, a)            [] kind = "value" -> TakeValue(b, s, a)
    [] kind = "computerName" -> TakeName(b, s, a)  [] kind = "drives" -> TakeDrives(b, s, a)
    [] kind = "volume" -> TakeVolume(b, s, a)      [] kind = "memory" -> TakeMemory(b, s, a)
    [] kind = "uptime" -> TakeUptime(b, s, a)      [] kind = "manager" -> TakeManager(b, s, a)
    [] kind = "open" -> TakeOpen(b, s, a)          [] kind \in {"config", "status"} -> TakeServiceState(b, s, a)
    [] kind = "run" -> TakeRunKey(b, s, a)         [] kind = "folder" -> TakeFolder(b, s, a)
    [] kind = "tasks" -> TakeTasks(b, s, a)        [] kind = "rdp" -> TakeRdp(b, s, a)
    [] kind = "firewallLog" -> TakeFirewallLog(b, s, a) [] kind = "ci" -> TakeCi(b, s, a)
    [] kind = "deviceGuard" -> TakeDeviceGuard(b, s, a) [] kind = "cip" -> TakeCip(b, s, a)
    [] kind = "sipolicy" -> TakeSipolicy(b, s, a)  [] kind = "srp" -> TakeSrp(b, s, a)
    [] kind = "collection" -> MapAppLockerDword(b, s, a) [] kind = "appIdSvc" -> TakeAppIdSvc(b, s, a)
    [] kind = "alias" -> TakeAlias(b, s, a)        [] kind = "machineSid" -> TakeMachineSid(b, s, a)
    [] kind = "aliasName" -> TakeAliasName(b, s, a) [] kind = "page" -> TakePage(b, s, a)
    [] kind = "powershell" -> TakePowerShell(b, s, a) [] kind = "wmi" -> TakeWmi(b, s, a)
    [] kind = "upgrade" -> TakeUpgrade(b, s, a)    [] kind = "history" -> TakeHistory(b, s, a)
    [] kind = "getHotfix" -> TakeGetHotfix(b, s, a) [] kind = "search" -> TakeSearch(b, s, a)
    [] kind = "service" -> TakeUpdateService(b, s, a) [] kind = "policy" -> TakePolicy(b, s, a)
    [] kind = "defender" -> TakeDefender(b, s, a)  [] kind = "securityCenter" -> TakeSecurityCenter(b, s, a)
    [] kind = "firewall" -> TakeFirewall(b, s, a)  [] kind = "bitlocker" -> TakeBitlocker(b, s, a)
    [] kind = "class" -> TakeClass(b, s, a)        [] kind = "backend" -> TakeBackend(b, s, a)
    [] kind \in {"dns", "tls"} -> TakeReach(b, s, a) [] kind = "events" -> TakeEvents(b, s, a)
-----------------------------------------------------------------------------
\* What each block makes of its readings in the end.
OutOfTime == <<"late", "">>
NoEvidence(b) ==
  CASE b.of = "deviceHealth" -> {s[1] : s \in DOMAIN b.told} \cap {"volume", "memory", "uptime"} = {}
    [] b.of = "hardware"     -> DOMAIN b.told = {}
    [] OTHER                 -> FALSE
Lists(f) ==
  CASE f = "startup"         -> {{"run", "folder", "tasks"}}
    [] f = "localAdmins"     -> {{"page", "powershell"}}
    [] f = "hotfix"          -> {{"history", "getHotfix"}, {"search"}}
    [] f = "outdated"        -> {{"upgrade"}}
    [] f = "securityNetwork" -> {{"events"}}
    [] OTHER                 -> {}
Overflows(b) == {l \in Lists(b.of) : Total(b, l) > Cap}
Shown(b) == [l \in Lists(b.of) |-> IF Total(b, l) > Cap THEN Cap ELSE Total(b, l)]
\* The cut is an error of the block only among the autostart entries.
Finalize(b) ==
  [b EXCEPT !.errors = @ \cup (IF NoEvidence(b) THEN {<<"evidence", "">>} ELSE {})
                        \cup (IF b.of = "startup" /\ Overflows(b) # {} THEN {<<"cap", "">>} ELSE {})]
Critical(b) ==
  IF b.of = "appControl" THEN {<<"ci", "Policy">>, <<"ci", "Config">>, <<"srp", "">>} \cap b.errors ELSE b.errors
ServicesListed(b) == b.of = "services" => \A i \in 1..Len(Allowlist) : <<"open", Allowlist[i]>> \in DOMAIN b.told
ProbeComplete(b) == Critical(b) = {} /\ ServicesListed(b)

NoBlock == [of |-> "none", rest |-> <<>>]
NoSheet == [done |-> FALSE]
Fresh(asked) ==
  IF asked = <<>> THEN NoBlock
  ELSE [of |-> Head(asked), rest |-> Tail(asked), left |-> 1..Len(Sources(Head(asked))), told |-> <<>>, seen |-> <<>>, errors |-> {}]

Init == machine \in Hosts /\ block = NoBlock /\ sheet = NoSheet /\ nAsked = 0 /\ nTurns = 0

Begin(asked) ==
  /\ block = NoBlock /\ nAsked < MaxAsked /\ nAsked' = nAsked + 1
  /\ block' = Fresh(asked) /\ UNCHANGED <<machine, sheet, nTurns>>
\* The source that is next.
Read ==
  /\ block # NoBlock /\ UNCHANGED <<machine, sheet, nAsked, nTurns>>
  /\ \E i \in block.left :
       LET s == Sources(block.of)[i] IN
       /\ \A j \in block.left : i <= j
       /\ block' = Take([block EXCEPT !.left = @ \ {i}, !.seen = With(@, s, Says(s))], s, Says(s))
\* The blocks with a time of their own give up everything they have read.
Timed == {"hardware", "outdated", "securityPosture", "hotfix", "services", "startup", "securityNetwork"}
RunOut ==
  /\ block.of \in Timed /\ block.errors # {OutOfTime} /\ UNCHANGED <<machine, sheet, nAsked, nTurns>>
  /\ block' = [block EXCEPT !.left = {}, !.told = <<>>, !.errors = {OutOfTime}]
Conclude ==
  /\ block # NoBlock /\ block.left = {} /\ UNCHANGED <<machine, nAsked, nTurns>>
  /\ LET b == Finalize(block) IN
     /\ sheet' = [done |-> TRUE, of |-> b.of, told |-> b.told, seen |-> b.seen, errors |-> b.errors,
                  complete |-> ProbeComplete(b), shown |-> Shown(b), cut |-> Overflows(b) # {}]
     /\ block' = Fresh(b.rest)
Agent == Read \/ Conclude
\* Somebody works on the host; the service is stopped.
Turn ==
  /\ nTurns < MaxTurns /\ nTurns' = nTurns + 1 /\ UNCHANGED <<block, sheet, nAsked>>
  /\ \E t \in Turns : Says(t.source) # t.answer /\ machine' = With(machine, t.source, t.answer)
Abandon == block # NoBlock /\ block' = NoBlock /\ UNCHANGED <<machine, sheet, nAsked, nTurns>>

Next == Agent \/ RunOut \/ Turn \/ Abandon \/ \E asked \in Asked : Begin(asked)
Spec == Init /\ [][Next]_inventory /\ WF_inventory(Agent)
-----------------------------------------------------------------------------
\* What a source must have answered for a block to tell nothing of it.
Innocent(s, a) ==
  CASE s[1] = "key"    -> a.how = "absent"
    [] s[1] = "open"   -> a.how = "absent"
    [] s[1] = "volume" -> a.how = "read" /\ a.odd > 0 /\ ~LowDisk(a.n, a.odd)
    [] s[1] \in {"dns", "tls", "drives", "manager", "alias", "aliasName", "machineSid"} -> TRUE
    [] OTHER           -> a.how = "absent" \/ a.how = "none" \/ a.n = 0 \/ s[1] = "ci"
\* Sources that a complete block may do without.
Dispensable ==
  {"volume", "config", "status", "aliasName", "page", "powershell", "wmi", "history", "getHotfix", "class", "dns", "tls",
   "deviceGuard", "cip", "sipolicy", "collection", "appIdSvc"}
(* "Not there" and "none" are readings and never failures to read: whatever a *)
(* block says is absent or zero, its source said so when it was read. A block *)
(* that calls itself complete has had such a reading of every source its      *)
(* verdict rests on, and an AppControl mode of OFF of the policies on disk.   *)
CleanIsRead ==
  sheet.done =>
    /\ \A s \in DOMAIN sheet.told : sheet.told[s] = 0 => Innocent(s, sheet.seen[s])
    /\ sheet.complete =>
         \A i \in 1..Len(Sources(sheet.of)) :
           LET s == Sources(sheet.of)[i] IN s[1] \notin Dispensable => s \in DOMAIN sheet.told
    /\ (sheet.of = "appControl" /\ WdacOff(sheet)) =>
         \A s \in {<<"cip", "">>, <<"sipolicy", "">>} : sheet.seen[s].how = "absent" \/ sheet.seen[s].n = 0
\* How many items an answer held.
Held(a) == IF a.how \in {"read", "more"} THEN a.n ELSE 0
(* A list holds what its one source returned, each item once, through pages,  *)
(* fallbacks and caps; where it was cut short the block says so.              *)
CountsAreWhole ==
  sheet.done /\ ~sheet.cut =>
    /\ \A l \in Lists(sheet.of) :
         sheet.shown[l] = SumOf([s \in {t \in DOMAIN sheet.told : t[1] \in l} |-> Held(sheet.seen[s])])
    /\ {s[1] : s \in DOMAIN sheet.told} \cap {"page", "powershell"} # {"page", "powershell"}
=============================================================================
