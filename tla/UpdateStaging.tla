---------------------------- MODULE UpdateStaging ----------------------------
(* internal/selfupdate, up to the activation plan: an UPDATE_AGENT command is*)
(* judged, its binary downloaded over a chain of redirects, verified, bound  *)
(* to the version it claims, and staged. SelfUpdate continues from the plan. *)
EXTENDS Integers, Sequences, FiniteSets, FiniteSetsExt

CONSTANTS Payloads,      \* UPDATE_AGENT payloads
          Chains,        \* chains of redirects a download may follow
          Binaries,      \* what a download may bring
          Hosts, Signers,\* the local allowlists
          Tier,          \* [lab, joined]: the local opt-in, and the domain
          HardMaxBytes, MaxRedirects,
          InitialVersion, Reinstalls,  \* the versions an installer puts in
          MaxStagings, MaxFaults       \* bounds

NoSemver == [core |-> <<>>, pre |-> <<>>]
\* Semantic versions: an identifier is a number, or ranked as text by val.
IsVersion(v) == v = NoSemver \/ v \in [core : [1..3 -> Nat], pre : Seq([num : BOOLEAN, val : Int])]
StagingAssumption ==
  /\ {HardMaxBytes, MaxRedirects, MaxStagings, MaxFaults} \subseteq Nat
  /\ \A v \in Reinstalls \cup {InitialVersion} \cup {p.target : p \in Payloads} : IsVersion(v)
  /\ \A b \in Binaries : IsVersion(b.stamp.version) /\ b.stamp.fields \in Seq(Nat)

VARIABLES installed,  \* [current, highWater]: what runs, and the version last marked as activated
          helpers,    \* plan -> [pc, backup]: its activation helper, and the version it backed up
          staged,     \* id -> [binary, via]: the files in the staging directory
          plans,      \* the activation plans on disk: [id, target]
          update,     \* the staging under way
          stage,      \* the last result
          nStagings, nFaults

staging == <<installed, helpers, staged, plans, update, stage, nStagings, nFaults>>
-----------------------------------------------------------------------------
(* The precedence of versions, in which build metadata has no part.          *)
Sign(n) == IF n < 0 THEN -1 ELSE IF n > 0 THEN 1 ELSE 0
CompareIdent(a, b) ==
  IF a.num = b.num THEN Sign(a.val - b.val) ELSE IF a.num THEN -1 ELSE 1
\* A release is above each of its prereleases; a shorter one below a longer.
ComparePrerelease(a, b) ==
  LET common == 1..Min({Len(a), Len(b)})
      differ == {i \in common : CompareIdent(a[i], b[i]) # 0}
  IN  IF a = <<>> \/ b = <<>> THEN Sign(Len(b) - Len(a))
      ELSE IF differ = {} THEN Sign(Len(a) - Len(b))
      ELSE CompareIdent(a[Min(differ)], b[Min(differ)])
Compare(a, b) ==
  LET differ == {i \in 1..3 : a.core[i] # b.core[i]}
  IN  IF differ = {} THEN ComparePrerelease(a.pre, b.pre)
      ELSE Sign(a.core[Min(differ)] - b.core[Min(differ)])
Parses(v) == v # NoSemver
Newer(a, b) == Parses(b) => Compare(a, b) > 0

\* A policy that compares with what runs alone.
PolicyByCurrent(current, target, maxSeen) ==
  CASE Compare(target, current) = 0 -> "noop"
    [] Compare(target, current) < 0 -> "VERSION_DOWNGRADE"
    [] OTHER                        -> ""
\* Anti-replay before anti-downgrade; the current version is a no-op, unless a
\* newer one was activated before.
VersionPolicy(current, target, maxSeen) ==
  IF ~Parses(current) \/ ~Parses(target) THEN "VERSION_UNPARSEABLE"
  ELSE IF Compare(target, current) = 0
  THEN IF Parses(maxSeen) /\ Compare(target, maxSeen) < 0 THEN "VERSION_REPLAY" ELSE "noop"
  ELSE IF ~Newer(target, maxSeen) THEN "VERSION_REPLAY"
  ELSE IF Compare(target, current) < 0 THEN "VERSION_DOWNGRADE"
  ELSE ""

Tiers == {"TRUSTED", "LAB_ONLY_EVIDENCE"}
ShapeError(p) == ~Parses(p.target) \/ p.url.host = "" \/ p.claimed = "" \/ p.tier \notin Tiers
TierAllowed(tier) == tier = "TRUSTED" \/ (tier = "LAB_ONLY_EVIDENCE" /\ Tier.lab /\ ~Tier.joined)
CheckURL(u) == u.scheme = "https" /\ ~u.user /\ u.kind = "name" /\ u.port \in {"", "443"} /\ u.host \in Hosts
Preflight(p, current, maxSeen) ==
  IF ShapeError(p) THEN "SHAPE"
  ELSE IF ~TierAllowed(p.tier) THEN "LAB_TIER_REFUSED"
  ELSE IF VersionPolicy(current, p.target, maxSeen) # "" THEN VersionPolicy(current, p.target, maxSeen)
  ELSE IF ~CheckURL(p.url) THEN "URL_REJECTED"
  ELSE ""

\* Every hop is judged as the first one was.
ChainAllowed(u, hops) ==
  Len(hops) <= MaxRedirects /\ CheckURL(u) /\ \A i \in 1..Len(hops) : CheckURL(hops[i])
EffectiveMaxBytes(max) == IF max > 0 /\ max < HardMaxBytes THEN max ELSE HardMaxBytes

\* A signature whose only flaw is its chain is reported with an invalid chain.
ClassifyStatus(b) ==
  CASE b.status = "valid"                              -> "chain"
    [] b.status = "nottrusted" /\ b.message = "chain"  -> "no chain"
    [] OTHER                                           -> "error"
AuthenticodeAllowed(b, tier) ==
  /\ ClassifyStatus(b) # "error"
  /\ tier = "TRUSTED" => ClassifyStatus(b) = "chain"
  /\ b.eku /\ b.inTime
SignerAllowed(b) == b.signer # "" /\ b.signer \in Signers

\* A version resource is a semantic version, or up to four numbers whose fourth is 0.
NormalizePE(stamp) ==
  LET f == stamp.fields
  IN  IF stamp.version # NoSemver THEN stamp.version
      ELSE IF Len(f) \in 1..3 \/ (Len(f) = 4 /\ f[4] = 0)
      THEN [core |-> [i \in 1..3 |-> IF i <= Len(f) THEN f[i] ELSE 0], pre |-> <<>>]
      ELSE NoSemver
Bound(stamp, target) == NormalizePE(stamp) # NoSemver /\ Compare(NormalizePE(stamp), target) = 0
-----------------------------------------------------------------------------
NoJob == [pc |-> "idle"]
Init ==
  /\ installed = [current |-> InitialVersion, highWater |-> NoSemver]
  /\ helpers = <<>> /\ staged = <<>> /\ plans = {} /\ update = NoJob /\ stage = "none" /\ nStagings = 0 /\ nFaults = 0

Keep == UNCHANGED <<installed, helpers, staged, plans, nStagings>>
Conclude(status) == stage' = status /\ update' = NoJob
Advance(pc) == update' = [update EXCEPT !.pc = pc] /\ UNCHANGED <<stage, nFaults>> /\ Keep
Fault == nFaults < MaxFaults /\ nFaults' = nFaults + 1 /\ Conclude("FAILED_STAGE")
Refused == Conclude("FAILED_STAGE") /\ UNCHANGED nFaults /\ Keep

Begin(p) ==
  /\ update.pc = "idle" /\ nStagings < MaxStagings /\ nStagings' = nStagings + 1
  /\ update' = [pc |-> "preflight", p |-> p, binary |-> [signer |-> ""], via |-> {}, id |-> nStagings + 1, maxSeen |-> NoSemver]
  /\ UNCHANGED <<installed, helpers, staged, plans, stage, nFaults>>
\* The mark is read here and not again; one that cannot be read refuses the update.
Judge ==
  LET verdict == Preflight(update.p, installed.current, installed.highWater)
  IN  /\ update.pc = "preflight"
      /\ CASE verdict = ""     -> /\ update' = [update EXCEPT !.pc = "download", !.maxSeen = installed.highWater]
                                  /\ UNCHANGED <<stage, nFaults>> /\ Keep
           [] verdict = "noop" -> Conclude("NOOP_ALREADY_CURRENT") /\ UNCHANGED nFaults /\ Keep
           [] OTHER            -> Refused
Unreadable == update.pc = "preflight" /\ Fault /\ Keep

\* The temporary file is removed whatever comes of it.
Download ==
  /\ update.pc = "download"
  /\ \/ Fault /\ Keep
     \/ \E hops \in Chains, b \in Binaries :
          IF ChainAllowed(update.p.url, hops) /\ b.size <= EffectiveMaxBytes(update.p.maxBytes)
          THEN /\ update' = [update EXCEPT !.pc = "verify", !.binary = b, !.via = {update.p.url} \cup {hops[i] : i \in 1..Len(hops)}]
               /\ UNCHANGED <<stage, nFaults>> /\ Keep
          ELSE Refused
Verify ==
  /\ update.pc = "verify"
  /\ IF /\ AuthenticodeAllowed(update.binary, update.p.tier) /\ SignerAllowed(update.binary)
        /\ Bound(update.binary.stamp, update.p.target)
     THEN Advance("commit") ELSE Refused

\* After the move a failed check or hardening leaves the file where it is.
Commit ==
  /\ update.pc = "commit" /\ UNCHANGED <<installed, helpers, plans, nStagings>>
  /\ \/ staged' = staged /\ Fault
     \/ /\ staged' = [i \in DOMAIN staged \cup {update.id} |->
                        IF i = update.id THEN [binary |-> update.binary, via |-> update.via] ELSE staged[i]]
        /\ \/ Fault
           \/ update' = [update EXCEPT !.pc = "plan"] /\ UNCHANGED <<stage, nFaults>>
WritePlan ==
  /\ update.pc = "plan" /\ UNCHANGED <<installed, helpers, staged, nStagings>>
  /\ \/ plans' = plans /\ Fault
     \/ /\ plans' = plans \cup {[id |-> update.id, target |-> update.p.target, tier |-> update.p.tier]}
        /\ \/ Fault
           \/ Conclude("STAGED_ACTIVATION_READY") /\ UNCHANGED nFaults

Stage == Judge \/ Unreadable \/ Download \/ Verify \/ Commit \/ WritePlan
-----------------------------------------------------------------------------
(* Activation, as SelfUpdate has it in detail. The hook, the sweep or a hand *)
(* may start the helper of any plan at any time, and it compares no versions.*)
Job(x) == helpers[x.id]
Set(x, job) == helpers' = [i \in DOMAIN helpers \cup {x.id} |-> IF i = x.id THEN job ELSE helpers[i]]
InPlace == UNCHANGED <<staged, plans, stage, nStagings, nFaults>>

\* It copies the binary aside, which only the first helper of a plan can.
Prepare(x) ==
  /\ x.id \notin DOMAIN helpers
  /\ Set(x, [pc |-> "ready", backup |-> installed.current])
  /\ UNCHANGED <<installed, update>> /\ InPlace
\* The service stops, and the staging under way with it; it comes back on the plan's
\* binary, or on what was copied, or, when nothing could be moved, on the one it had.
Activate(x) ==
  /\ x.id \in DOMAIN helpers /\ Job(x).pc = "ready"
  /\ \/ /\ installed' = [installed EXCEPT !.current = x.target]
        /\ Set(x, [Job(x) EXCEPT !.pc = "started"])
     \/ \E v \in {Job(x).backup, installed.current} :
          /\ installed' = [installed EXCEPT !.current = v]
          /\ Set(x, [Job(x) EXCEPT !.pc = "done"])
  /\ update' = NoJob /\ InPlace
\* The service runs again by now, and may be staging. Nothing compares the mark with
\* the one that is there. A helper that fails, or has no path for it, never marks.
Mark(x) ==
  /\ x.id \in DOMAIN helpers /\ Job(x).pc = "started"
  /\ installed' = [installed EXCEPT !.highWater = x.target]
  /\ Set(x, [Job(x) EXCEPT !.pc = "done"])
  /\ UNCHANGED update /\ InPlace
\* An installer stops the service too, and moves no mark.
Reinstall(v) ==
  /\ installed' = [installed EXCEPT !.current = v]
  /\ update' = NoJob /\ UNCHANGED helpers /\ InPlace

Aside == \E x \in plans : Prepare(x) \/ Mark(x)
Swap == (\E x \in plans : Activate(x)) \/ (\E v \in Reinstalls : Reinstall(v))
Next == Stage \/ (\E p \in Payloads : Begin(p)) \/ Aside \/ Swap
Spec == Init /\ [][Next]_staging
-----------------------------------------------------------------------------
(* A plan names a staged file that came over allowed hosts only, is signed   *)
(* for its tier by an allowed signer, and is the version the plan announces: *)
(* whatever was redirected, misreported, or failed half way.                 *)
PlanIsVerified ==
  \A x \in plans :
    /\ x.id \in DOMAIN staged
    /\ LET f == staged[x.id]
       IN  /\ \A u \in f.via : u.host \in Hosts /\ u.scheme = "https"
           /\ f.binary.signer \in Signers /\ (x.tier = "TRUSTED" => f.binary.status = "valid")
           /\ \/ f.binary.stamp.version # NoSemver /\ Compare(f.binary.stamp.version, x.target) = 0
              \/ /\ f.binary.stamp.version = NoSemver /\ x.target.pre = <<>>
                 /\ \A i \in 1..Len(f.binary.stamp.fields) :
                      f.binary.stamp.fields[i] = IF i = 4 THEN 0 ELSE x.target.core[i]

(* A plan is only written for a version newer than the one that runs, though *)
(* helpers and installers replace that at any time, and newer than the mark, *)
(* though the mark is read before the download: unless a helper whose binary *)
(* was replaced meanwhile has set it only then, behind the staging's back.   *)
PlanIsNewer ==
  [][\A x \in plans' \ plans :
       /\ Newer(x.target, installed.current)
       /\ \/ Newer(x.target, installed.highWater)
          \/ installed.highWater # update.maxSeen /\ installed.highWater # installed.current]_staging

(* The whole promise of the high-water mark, which the late mark refutes.    *)
PlanIsBeyondMark == [][\A x \in plans' \ plans : Newer(x.target, installed.highWater)]_staging
=============================================================================
