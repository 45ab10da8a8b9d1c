---------------------------- MODULE DisplayPolicy ----------------------------
(* internal/displaypolicy: SET_DISPLAY_POLICY writes the screensaver and the *)
(* wallpaper policy into the hives of the users signed in, after a managed   *)
(* wallpaper was fetched, verified and committed to the store; users sign in *)
(* and out, and the service may be stopped, at any point.                    *)
EXTENDS Integers, FiniteSets

CONSTANTS Orders,       \* the orders the backend sends
          Sids,         \* the subkeys of HKEY_USERS there may be
          Contents,     \* what a fetch may return: [sum, magic, size]
          MaxAssetBytes,
          MaxOrders, MaxSignIns  \* bounds

\* A digest stands for one content.
DisplayAssumption ==
  /\ MaxAssetBytes \in Nat /\ MaxOrders \in Nat /\ MaxSignIns \in Nat
  /\ \A c, d \in Contents : c.sum = d.sum => c.magic = d.magic

VARIABLES hive,      \* [sid -> [loaded, screensaver, wallpaper]]
          store,     \* the wallpapers in the store, each named by its digest
          order,     \* the order under way
          report,    \* the last report, with what it is about
          nOrders, nSignIns

display == <<hive, store, order, report, nOrders, nSignIns>>
-----------------------------------------------------------------------------
MinTimeout == 60
MaxTimeout == 86400
ImageTypes == {"image/png", "image/jpeg", "image/bmp"}
Styles == {"CENTER", "STRETCH", "FIT", "FILL", "SPAN"}

ScreensaverValid(s) ==
  s.state = "enabled" => s.timeout \in MinTimeout..MaxTimeout /\ s.path = "system32"
\* A managed reference names its digest twice; a local path is on a drive.
ManagedRefValid(w) == w.ref = w.sum /\ w.type \in ImageTypes
WallpaperValid(w) ==
  w.state = "enabled" =>
    /\ w.style \in Styles
    /\ IF w.managed THEN ManagedRefValid(w) ELSE w.ref = "drive"
Validate(o) ==
  \/ o.op = "CLEAR"
  \/ /\ o.op = "ENFORCE"
     /\ "absent" # o.screensaver.state \/ "absent" # o.wallpaper.state
     /\ ScreensaverValid(o.screensaver) /\ WallpaperValid(o.wallpaper)

VerifyAsset(w, c) == c.size <= MaxAssetBytes /\ c.sum = w.sum /\ c.magic = w.type
NeedsAsset(o) == o.wallpaper.state = "enabled" /\ o.wallpaper.managed
\* Hives of local and domain users, their _Classes and the services' left out.
IsTargetUserSID(sid) == sid.user /\ ~sid.classes
-----------------------------------------------------------------------------
Unset == [state |-> "unset"]
Mixed == [state |-> "mixed"]
NoOrder == [pc |-> "idle"]

Init ==
  /\ hive = [s \in Sids |-> [loaded |-> TRUE, screensaver |-> Unset, wallpaper |-> Unset]]
  /\ store = {} /\ order = NoOrder /\ report = [status |-> "none"]
  /\ nOrders = 0 /\ nSignIns = 0

Report(status, sids) ==
  /\ report' = [status |-> status, order |-> order.of, sids |-> sids, at |-> order.at, n |-> nOrders]
  /\ order' = NoOrder /\ UNCHANGED <<nOrders, nSignIns>>
Step(pc) == order' = [order EXCEPT !.pc = pc] /\ UNCHANGED <<report, nOrders, nSignIns>>

Begin(o) ==
  /\ order.pc = "idle" /\ nOrders < MaxOrders /\ nOrders' = nOrders + 1
  /\ order' = [pc |-> IF ~Validate(o) THEN "refuse" ELSE IF NeedsAsset(o) THEN "fetch" ELSE "enumerate",
               of |-> o, got |-> [sum |-> ""], sids |-> {}, left |-> {}, part |-> "screensaver",
               hadErr |-> FALSE, failures |-> 0, at |-> nSignIns]
  /\ UNCHANGED <<hive, store, report, nSignIns>>
Refuse == order.pc = "refuse" /\ Report("FAILED_INVALID", {}) /\ UNCHANGED <<hive, store>>

\* The wallpaper is fetched and verified before anything is written.
Fetch ==
  /\ order.pc = "fetch" /\ UNCHANGED <<hive, store>>
  /\ \/ Report("FAILED_ASSET", {})
     \/ \E c \in Contents :
          IF VerifyAsset(order.of.wallpaper, c)
          THEN order' = [order EXCEPT !.pc = "commit", !.got = c] /\ UNCHANGED <<report, nOrders, nSignIns>>
          ELSE Report("FAILED_ASSET", {})

\* A rename in place of the old file; hardening it may fail afterwards.
Commit ==
  /\ order.pc = "commit" /\ UNCHANGED hive
  /\ \/ store' = store /\ Report("FAILED_ASSET", {})
     \/ store' = {c \in store : c.sum # order.got.sum} \cup {order.got}
        /\ (Step("enumerate") \/ Report("FAILED_ASSET", {}))

NoTarget == IF order.of.op = "CLEAR" THEN "SUCCEEDED" ELSE "FAILED_NO_TARGET_HIVE"
Enumerate ==
  LET sids == {s \in Sids : hive[s].loaded /\ IsTargetUserSID(s)}
  IN  /\ order.pc = "enumerate" /\ UNCHANGED <<hive, store>>
      /\ \/ Report("FAILED_REGISTRY", {})
         \/ sids = {} /\ Report(NoTarget, {})
         \/ /\ sids # {} /\ UNCHANGED <<report, nOrders, nSignIns>>
            /\ order' = [order EXCEPT !.pc = "stat", !.sids = sids, !.left = sids, !.at = nSignIns]

\* A file that is not there, or is a directory, ends the order before a write.
StatAsset ==
  /\ order.pc = "stat" /\ UNCHANGED <<hive, store>>
  /\ \/ Step("write")
     \/ order.of.op = "ENFORCE" /\ order.of.wallpaper.state = "enabled" /\ Report("FAILED_INVALID", {})

\* What an order wants of a group of values: the policy, none of it, or no change.
Wanted(o, part) ==
  IF o.op = "CLEAR" \/ o[part].state = "disabled" THEN Unset
  ELSE IF o[part].state = "enabled" THEN o[part]
  ELSE [state |-> "as it was"]

\* Each value of a group is written on its own and a failure stops none of
\* the others. In a hive that is gone a value cannot be set, and a value to be
\* deleted counts as deleted.
WriteGroup(h, part, want) ==
  IF want.state = "as it was" THEN {[now |-> h[part], err |-> FALSE]}
  ELSE IF ~h.loaded THEN {[now |-> h[part], err |-> want # Unset]}
  ELSE {[now |-> want, err |-> FALSE], [now |-> h[part], err |-> TRUE],
        [now |-> IF h[part] = want THEN want ELSE Mixed, err |-> TRUE]}

Write ==
  /\ order.pc = "write" /\ UNCHANGED <<store, report, nOrders, nSignIns>>
  /\ LET s == CHOOSE x \in order.left : TRUE IN
     \E w \in WriteGroup(hive[s], order.part, Wanted(order.of, order.part)) :
       /\ hive' = [hive EXCEPT ![s][order.part] = w.now]
       /\ IF order.part = "screensaver"
          THEN order' = [order EXCEPT !.part = "wallpaper", !.hadErr = w.err]
          ELSE order' = [order EXCEPT !.part = "screensaver", !.hadErr = FALSE, !.left = @ \ {s},
                                      !.failures = @ + (IF w.err \/ order.hadErr THEN 1 ELSE 0),
                                      !.pc = IF order.left = {s} THEN "done" ELSE "write"]

\* A verdict that one hive is enough for.
FinalStatusOfAny(failures, n) == IF failures < n THEN "SUCCEEDED" ELSE "FAILED_REGISTRY"
FinalStatus(failures, n) ==
  IF failures = 0 THEN "SUCCEEDED" ELSE IF failures = n THEN "FAILED_REGISTRY" ELSE "PARTIAL"
Done ==
  /\ order.pc = "done" /\ UNCHANGED <<hive, store>>
  /\ Report(FinalStatus(order.failures, Cardinality(order.sids)), order.sids)

Apply == Refuse \/ Fetch \/ Commit \/ Enumerate \/ StatAsset \/ Write \/ Done
-----------------------------------------------------------------------------
\* The service is stopped; what the order wrote stays.
Crash == order.pc # "idle" /\ order' = NoOrder /\ UNCHANGED <<hive, store, report, nOrders, nSignIns>>

\* A hive is loaded when its user signs in and unloaded when he signs out.
SignInOrOut(s) ==
  /\ nSignIns < MaxSignIns /\ nSignIns' = nSignIns + 1
  /\ hive' = [hive EXCEPT ![s].loaded = ~@]
  /\ UNCHANGED <<store, order, report, nOrders>>

Next == Apply \/ Crash \/ (\E o \in Orders : Begin(o)) \/ (\E s \in Sids : SignInOrOut(s))
Spec == Init /\ [][Next]_display
-----------------------------------------------------------------------------
(* A policy reported as applied is what every hive it names holds, whole, as *)
(* long as nobody has signed in or out since the hives were listed and no    *)
(* later order has begun: a failed value is never lost in the counting.      *)
Holds(o, h) == \A part \in {"screensaver", "wallpaper"} :
  Wanted(o, part).state # "as it was" => h[part] = Wanted(o, part)
PolicyHolds ==
  (report.status = "SUCCEEDED" /\ report.at = nSignIns /\ report.n = nOrders) =>
    \A s \in report.sids : Holds(report.order, hive[s])

(* A hive that names a managed wallpaper finds the verified file behind the  *)
(* name, whatever was fetched, failed to be hardened, or was cut short.      *)
WallpaperVerified ==
  \A s \in Sids :
    LET w == hive[s].wallpaper
    IN  (w.state = "enabled" /\ w.managed) => \E c \in store : c.sum = w.sum /\ c.magic = w.type
=============================================================================
