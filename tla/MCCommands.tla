----------------------------- MODULE MCCommands -----------------------------
(* An instance of Commands: themes of commands, each with a small host for   *)
(* the part of the agent it is about, and one build.                         *)
EXTENDS Commands, TLC

Num(n) == [num |-> TRUE, val |-> n, lex |-> n]
V1 == <<Num(9)>>
V2 == <<Num(9), Num(1)>>
Entry(root, name, v) == [root |-> root, name |-> name, publisher |-> "equal", version |-> v, guid |-> name = "equal"]
MCEntries == {Entry(1, "equal", V1), Entry(2, "equal", V1), Entry(1, "equal", V2), Entry(2, "prefix", V1)}
NoRange == [brackets |-> FALSE]
Latest == [type |-> "LATEST", spec |-> <<>>, range |-> NoRange]
Exact(v) == [type |-> "EXACT", spec |-> v, range |-> NoRange]
Above(v) == [type |-> "RANGE", spec |-> <<>>, range |-> [brackets |-> TRUE, lower |-> v, lowerIncl |-> FALSE, upper |-> <<>>, upperIncl |-> TRUE]]
Rule(type) == [type |-> type, package |-> "pkg", code |-> "", name |-> "product", nameMatch |-> "PREFIX", publisher |-> "maker",
  publisherMatch |-> "EXACT", allowNoPublisher |-> FALSE, path |-> "absolute", digest |-> V2, cap |-> "above", pred |-> Latest]
Req(op, rule, pred) == [op |-> op, provider |-> "WINGET", package |-> "pkg", requestId |-> "id", preset |-> IF op = "INSTALL" THEN "DEFAULT" ELSE "UNINSTALL_DEFAULT",
   rule |-> rule, pred |-> pred, resolved |-> <<>>, target |-> V2]
ByName == Rule("REGISTRY_UNINSTALL")
ByCode == [ByName EXCEPT !.code = "guid"]
MCRequests == {Req("INSTALL", Rule("WINGET_PACKAGE"), Latest), Req("INSTALL", ByName, Exact(V2)), 
  Req("INSTALL", Rule("FILE_SHA256"), Latest), Req("INSTALL", [ByName EXCEPT !.publisher=""], Latest), 
  Req("UNINSTALL", ByCode, Latest),  Req("UNINSTALL", [Rule("FILE_VERSION") EXCEPT !.pred = Exact(V2)], Latest)}
MCInitialHosts == {[arp |-> {Entry(2, "prefix", V1)}, file |-> "none", content |-> <<>>]}

Ssv(state, t) == [state |-> state, timeout |-> t, path |-> "system32"]
Wal(state, managed, sum) == [state |-> state, managed |-> managed, ref |-> IF managed THEN sum ELSE "drive", sum |-> sum, type |-> "image/png", style |-> "FIT", locked |-> FALSE]
Order(op, s, w) == [op |-> op, screensaver |-> s, wallpaper |-> w]
No == [state |-> "absent"]
MCOrders == {Order("CLEAR", No, No), Order("ENFORCE", Ssv("enabled", 60), Wal("enabled", TRUE, "a")),
 Order("ENFORCE", Ssv("disabled", 0), Wal("enabled", FALSE, "b")), Order("ENFORCE", Ssv("enabled", 59), No)}
Sid(n, u, c) == [n |-> n, user |-> u, classes |-> c]
MCSids == {Sid(1,TRUE,FALSE), Sid(2,TRUE,FALSE), Sid(3,TRUE,TRUE)}
MCContents == {[sum |-> "a", magic |-> "image/png", size |-> 2], [sum |-> "b", magic |-> "image/png", size |-> 2],[sum |-> "a", magic |-> "image/png", size |-> 3]}

Acc(s, d) == [sid |-> s, disabled |-> d, lockout |-> FALSE, password |-> "old"]
MCInitialSam == [root |-> Acc("500", TRUE), ann |-> Acc("1001", FALSE), bob |-> Acc("1002", FALSE)]
MCGroups == {"Administrators", "Ops"}
MCInitialGroups == [Administrators |-> {"500", "Ops", "domain"}, Ops |-> {"1001", "1002", "Administrators"}]
Mut(a, n, s) == [action |-> a, name |-> n, secret |-> s]
MCMutations == {Mut("LOCK", "ann", "none"), Mut("LOCK", "bob", "none"), Mut("UNLOCK", "root", "none"), Mut("PASSWORD", "root", "fits"),  Mut("LOCK", "Guest", "none")}

MutType(a) == CASE a = "LOCK" -> "LOCK_USER_LOGIN" [] a = "UNLOCK" -> "UNLOCK_USER_LOGIN" [] OTHER -> "CHANGE_LOCAL_PASSWORD"
Sem(a, b) == [core |-> <<1, a, 0>>, pre |-> b]
Url(h) == [scheme |-> "https", user |-> FALSE, kind |-> "name", port |-> "", host |-> h]
Pay(v, tier) == [target |-> v, url |-> Url("hub"), claimed |-> "x", tier |-> tier, maxBytes |-> 0]
Rc(n) == <<[num |-> TRUE, val |-> n]>>
MCPayloads == {Pay(Sem(0, <<>>), "TRUSTED"), Pay(Sem(1, Rc(2)), "LAB_ONLY_EVIDENCE"), Pay(Sem(1, <<>>), "TRUSTED"), Pay(Sem(2, <<>>), "UNKNOWN")}
MCChains == {<<>>, <<Url("cdn")>>, <<Url("else")>>, <<Url("cdn"), Url("cdn")>>}
Bin(signer, status, msg, ver, fields) == [signer |-> signer, status |-> status, message |-> msg, eku |-> TRUE, inTime |-> TRUE, size |-> 1, stamp |-> [version |-> ver, fields |-> fields]]
Unstamped == [core |-> <<>>, pre |-> <<>>]
MCBinaries == {Bin("ours", "valid", "", Unstamped, <<1,1,0,0>>), Bin("ours", "nottrusted", "chain", Sem(1, Rc(2)), <<>>), Bin("ours", "valid", "", Unstamped, <<1,1,0,5>>), Bin("ours", "valid", "", Unstamped, <<1, 0>>), Bin("theirs", "valid", "", Unstamped, <<1,1,0,0>>)}
MCInitialVersion == Sem(0, Rc(1))
MCReinstalls == {Sem(0, <<>>)}
MCTier == [lab |-> TRUE, joined |-> FALSE]

Dir == [kind |-> "dir"]
File == [kind |-> "file"]
Absent == [kind |-> "none"]
Link(p) == [kind |-> "link", to |-> p]
Root(p) == [ref |-> "managed_root:id", class |-> "managed/it-folder", ads |-> FALSE, path |-> p]
MCRoots == {<<>>, <<Root(<<"data">>)>>, <<[Root(<<"data">>) EXCEPT !.class = "other"], Root(<<"data">>)>>}
MCTrees == {(<<>> :> Dir) @@ (<<"data">> :> Dir) @@ (<<"data2">> :> Dir) @@ (<<"data2", "f">> :> File) @@ (<<"data","a">> :> Dir)
  @@ (<<"data","l">> :> l) @@ (<<"data","a","f">> :> File) @@ (<<"data","a","key">> :> File) @@ (<<"data","a","b">> :> b) @@ (<<"data","a","b","f">> :> IF b = Dir THEN File ELSE Absent) @@ (<<"data","ssh">> :> Dir) @@ (<<"data","ssh","f">> :> File) :
  l \in {File, Link(<<"data2","f">>), Link(<<"data","a","key">>), Link(<<"data","a","f">>), Link(<<"data2">>)}, b \in {Dir, Absent}}
Ed(p, n) == [path |-> p, node |-> n]
MCEdits == {Ed(<<"data">>, Link(<<"data2">>)), Ed(<<"data","a">>, Link(<<"data2">>)), Ed(<<"data","a">>, Link(<<"data","ssh">>)), Ed(<<"data","a">>, Dir), Ed(<<"data", "a","f">>, Absent)}
MCSiblings == {<<"data", "data2">>}

Ans(how, n, odd) == [how |-> how, n |-> n, odd |-> odd]
At(k, i) == <<k, i>>
Plain == (At("memory","") :> Ans("read", 16, 0)) @@ (At("uptime","") :> Ans("read", 1, 0)) @@ (At("backend","") :> Ans("read", 1, 0)) @@ (At("volume","C") :> Ans("read", 20, 100))
  @@ (At("volume","D") :> Ans("absent", 0, 0)) @@ (At("key","cbs") :> Ans("absent", 0, 0)) @@ (At("key","windowsUpdate") :> Ans("absent", 0, 0))
Tells(s, a) == [source |-> s, answer |-> a]
NotThere == Ans("absent", 0, 0)
Refused == Ans("denied", 0, 0)
MCTurns == {Tells(At("key","cbs"), Ans("read",1,0)), Tells(At("value","renames"), Ans("odd",0,0)), Tells(At("computerName",""), NotThere),
  Tells(At("volume","C"), Ans("read", 9, 100)), Tells(At("volume","C"), Ans("read", 1, 5)), Tells(At("volume","D"), Refused), Tells(At("drives",""), Refused),
  Tells(At("open","wuauserv"), NotThere), Tells(At("open","wuauserv"), Refused), Tells(At("status","wuauserv"), Refused), Tells(At("manager",""), Refused),
  Tells(At("run","HKLM"), Ans("read",2,0)), Tells(At("run","HKLM"), Ans("read",1,1)), Tells(At("tasks",""), Ans("read", 1, 0)), Tells(At("rdp",""), NotThere),
  Tells(At("ci","Policy"), NotThere), Tells(At("ci","Config"), Refused), Tells(At("cip",""), Ans("read",1,0)), Tells(At("cip",""), Refused), Tells(At("sipolicy",""), NotThere), Tells(At("srp",""), NotThere), Tells(At("srp",""), Refused), Tells(At("collection","Exe"), Ans("read",3,0)),
  Tells(At("page",1), Ans("more",1,0)), Tells(At("page",2), Ans("read",1,0)), Tells(At("page",2), Refused), Tells(At("powershell",""), Ans("read",2,0)), Tells(At("powershell",""), Refused), Tells(At("machineSid",""), Refused), Tells(At("alias",""), Refused),
  Tells(At("upgrade",""), Ans("read",3,1)), Tells(At("upgrade",""), Ans("none",0,0)), Tells(At("upgrade",""), Ans("odd",0,0)),
  Tells(At("history",""), Ans("read",3,0)), Tells(At("history",""), Refused), Tells(At("getHotfix",""), Ans("read",1,0)), Tells(At("getHotfix",""), Refused), Tells(At("search",""), Ans("read",1,0)), Tells(At("search",""), Refused),
  Tells(At("defender",""), Refused), Tells(At("securityCenter",""), Ans("none",0,0)), Tells(At("securityCenter",""), Refused), Tells(At("firewall",""), Ans("read",2,1)), Tells(At("bitlocker",""), Ans("read",1,0)),
  Tells(At("backend",""), Ans("odd",0,0)), Tells(At("tls",""), Ans("read",1,0)), Tells(At("class","cs"), Ans("read",1,0)), Tells(At("class","disks"), Ans("read",1,0)), Tells(At("events",""), Ans("read",3,1)), Tells(At("events",""), Refused)}
MCMachines == {Plain} \cup {(p.source :> p.answer) @@ Plain : p \in {t \in MCTurns : t.source \in {At("page",1), At("page",2), At("history",""), At("backend","")}}}
  \cup {(At("page",1) :> Ans("more",1,0)) @@ (At("page",2) :> Refused) @@ Plain}
Blocks == {"hardware", "outdated", "securityPosture", "localAdmins", "pendingReboot", "deviceHealth",
           "diagnostics", "services", "hotfix", "startup", "appControl", "securityNetwork"}
MCAsked == {<<f>> : f \in Blocks} \cup {<<>>, <<"pendingReboot", "localAdmins">>}
MCAllowlist == <<"EventLog", "wuauserv">>
MCVolumes == <<"C", "D">>

Renewal(token) == [fields |-> "known", id |-> "uuid", reason |-> "why", token |-> token, bound |-> TRUE, life |-> "within the hour"]
MCRenewals == {Renewal("t1"), Renewal("t2"), [Renewal("t1") EXCEPT !.bound = FALSE]}
MCOldFiles == {[state |-> "whole", id |-> 0, current |-> TRUE]}

Cmd(type, body) == [type |-> type, sound |-> TRUE, expired |-> FALSE, reason |-> "why", malformed |-> FALSE, body |-> body]
Plainly == Cmd("GET_LOGGED_IN_USER", <<>>)
MCSent ==
  {Cmd(r.op \o "_SOFTWARE", r) : r \in MCRequests} \cup {Cmd("SET_DISPLAY_POLICY", o) : o \in MCOrders}
  \cup {Cmd(MutType(o.action), o) : o \in MCMutations} \cup {Cmd("UPDATE_AGENT", p) : p \in MCPayloads}
  \cup {Cmd("COLLECT_BACKUP_DRYRUN", r) : r \in MCRoots} \cup {Cmd("COLLECT_INVENTORY", a) : a \in MCAsked}
  \cup {Cmd("RENEW_TPM_CERTIFICATE", r) : r \in MCRenewals}
  \cup {Plainly, [Plainly EXCEPT !.sound = FALSE], [Plainly EXCEPT !.expired = TRUE], Cmd("SET_DISPLAY_POLICY_MANAGED_ASSET", <<>>),
        [Cmd("UPDATE_AGENT", <<>>) EXCEPT !.malformed = TRUE], [Cmd("RENEW_TPM_CERTIFICATE", Renewal("t1")) EXCEPT !.reason = ""]}
Bare == <<>> :> Dir
Theme(types) == [types |-> types, tree |-> Bare, machine |-> <<>>]
MCAllTrees == MCTrees \cup {Bare}
MCAllMachines == MCMachines \cup {<<>>}
MCThemes ==
  {Theme({"INSTALL_SOFTWARE", "UNINSTALL_SOFTWARE"}), Theme({"SET_DISPLAY_POLICY"}), Theme({"UPDATE_AGENT"}),
   Theme({"LOCK_USER_LOGIN", "UNLOCK_USER_LOGIN", "CHANGE_LOCAL_PASSWORD"}),
   Theme({"RENEW_TPM_CERTIFICATE"}), Theme({"GET_LOGGED_IN_USER", "SET_DISPLAY_POLICY_MANAGED_ASSET"})}
  \cup {[Theme({"COLLECT_BACKUP_DRYRUN"}) EXCEPT !.tree = t] : t \in MCTrees}
  \cup {[Theme({"COLLECT_INVENTORY"}) EXCEPT !.machine = m] : m \in MCMachines}
MCBuilds == {[windows |-> TRUE, updates |-> TRUE, backups |-> TRUE, renewal |-> TRUE, store |-> TRUE]}
=============================================================================
