--------------------------- MODULE CommandsProofs ---------------------------
(***************************************************************************)
(* The executor of the commands and its parts, for any commands, builds,   *)
(* hosts and bounds. First each part by itself, then the executor that     *)
(* runs them.                                                              *)
(***************************************************************************)
EXTENDS Commands, WellFoundedInduction, TLAPS

-----------------------------------------------------------------------------
(* RENEW_TPM_CERTIFICATE. The child keeps the file as it found it until it *)
(* opens it, and from the answer on it has a certificate for its token.    *)
IssuedFor(id, token) == \E c \in issued : c.id = id /\ c.token = token

RenewalChild(c) ==
  /\ DOMAIN c = {"pc", "token", "keys", "tries", "got", "found", "reason"}
  /\ c.pc \in {"tbs", "endorsement", "attestation", "device", "nonce", "prove", "attest", "open",
               "write", "exited"}

RInv ==
  /\ child = R!NoChild \/ RenewalChild(child)
  /\ child.pc \notin {"none", "write", "exited"} => file = child.found
  /\ child.pc \in {"open", "write"} => IssuedFor(child.got, child.token)
  /\ child.pc = "exited" =>
       /\ child.keys = {}
       /\ child.reason \notin {"", "CERT_PERSIST_FAILED"} => file = child.found
       /\ child.reason = "" => file.state = "whole" /\ IssuedFor(file.id, child.token)
  /\ child.pc = "none" /\ renewed.status = "renewed" =>
       file.state = "whole" /\ file.current /\ IssuedFor(file.id, renewed.token)

LEMMA NoChildIs == R!NoChild.pc = "none" /\ R!NoResult.status = "none"
BY DEF R!NoChild, R!NoResult

LEMMA FinishGives ==
  ASSUME NEW status, NEW reason, R!Finish(status, reason)
  PROVE  child' = R!NoChild /\ file' = file /\ issued' = issued
         /\ renewed'.status = status /\ renewed'.token = child.token
BY DEF R!Finish

LEMMA RenewalInit == R!Init => RInv
BY NoChildIs DEF R!Init, RInv

LEMMA ChildMoves ==
  ASSUME RenewalChild(child), NEW pc, NEW reason
  PROVE  /\ R!To(pc).pc = pc /\ R!To(pc).found = child.found /\ R!To(pc).got = child.got
         /\ R!To(pc).token = child.token
         /\ pc \in {"endorsement", "attestation", "device", "nonce", "prove", "attest", "open", "write"}
              => RenewalChild(R!To(pc))
         /\ RenewalChild(R!Exit(reason)) /\ R!Exit(reason).pc = "exited"
         /\ R!Exit(reason).keys = {} /\ R!Exit(reason).reason = reason
         /\ R!Exit(reason).token = child.token /\ R!Exit(reason).found = child.found
BY DEF RenewalChild, R!To, R!Exit, R!KeysFlushed

LEMMA ExitsWell ==
  ASSUME RenewalChild(child), NEW reason, child' = R!Exit(reason), reason # "", file' = file,
         reason # "CERT_PERSIST_FAILED" => file = child.found
  PROVE  RInv'
<1>1. RenewalChild(child') /\ child'.pc = "exited" /\ child'.keys = {} /\ child'.reason = reason
      /\ child'.found = child.found
  BY ChildMoves
<1> QED BY <1>1 DEF RInv

LEMMA GoesWell ==
  ASSUME RenewalChild(child), file' = file, file = child.found,
         NEW pc \in {"endorsement", "attestation", "device", "nonce", "prove", "attest"},
         \/ child' = R!To(pc)
         \/ RenewalChild(child') /\ child'.pc = pc /\ child'.found = child.found
  PROVE  RInv'
<1>1. RenewalChild(child') /\ child'.pc = pc /\ child'.found = child.found
  BY ChildMoves
<1> QED BY <1>1 DEF RInv

LEMMA RenewalStep ==
  ASSUME RInv, [R!Next]_(R!renewals)
  PROVE  RInv'
<1>1. CASE UNCHANGED R!renewals
  BY <1>1 DEF R!renewals, RInv, IssuedFor
<1>2. ASSUME NEW r \in Renewals, R!Begin(r) PROVE RInv'
  <2>1. UNCHANGED << file, issued >> /\ child = R!NoChild
    BY <1>2 DEF R!Begin
  <2>2. CASE child' = R!NoChild /\ renewed' = [status |-> "failed", reason |-> R!PayloadError(r)]
    <3>1. renewed'.status = "failed"
      BY <2>2
    <3> QED BY <2>2, <3>1, NoChildIs DEF RInv
  <2>3. CASE child' = [pc |-> "tbs", token |-> r.token, keys |-> {}, tries |-> 0, got |-> 0,
                       found |-> file, reason |-> ""]
    <3>1. child'.pc = "tbs" /\ RenewalChild(child') /\ child'.found = file
      BY <2>3 DEF RenewalChild
    <3> QED BY <2>1, <3>1 DEF RInv
  <2> QED BY <1>2, <2>2, <2>3 DEF R!Begin
<1>3. ASSUME R!Agent PROVE RInv'
  <2>1. RenewalChild(child)
    <3>1. child.pc # "none"
      BY <1>3 DEF R!Agent, R!OpenDevice, R!Keys, R!PostNonce, R!Prove, R!PostAttest, R!OpenFile,
                  R!WriteFile, R!Classify, R!Judge
    <3> QED BY <3>1, NoChildIs DEF RInv
  <2>2. CASE R!OpenDevice
    <3>1. file' = file /\ file = child.found
      BY <2>2 DEF R!OpenDevice, R!Still, R!Keys, RInv
    <3>2. CASE child' = [R!To(R!After(child.pc)) EXCEPT !.keys = @ \cup ({child.pc} \ {"tbs"})]
      <4> DEFINE next == R!After(child.pc)
      <4>1. next \in {"endorsement", "attestation", "device", "nonce"}
        BY <2>2 DEF R!OpenDevice, R!Keys, R!After
      <4> HIDE DEF next
      <4>2. RenewalChild(R!To(next)) /\ R!To(next).pc = next /\ R!To(next).found = child.found
        BY <2>1, <4>1, ChildMoves
      <4>3. RenewalChild(child') /\ child'.pc = next /\ child'.found = child.found
        BY <3>2, <4>2 DEF RenewalChild, next
      <4> QED BY <2>1, <3>1, <4>1, <4>3, GoesWell
    <3>3. CASE child' = R!Exit("TPM_OPEN_FAILED")
      BY <2>1, <3>1, <3>3, ExitsWell
    <3> QED BY <2>2, <3>2, <3>3 DEF R!OpenDevice
  <2>3. CASE R!PostNonce
    <3>1. file' = file /\ file = child.found
      BY <2>3 DEF R!PostNonce, R!Still, RInv
    <3>2. CASE child' = R!To("prove")
      BY <2>1, <3>1, <3>2, GoesWell
    <3>3. CASE \E reason : reason \notin {"", "CERT_PERSIST_FAILED"} /\ child' = R!Exit(reason)
      BY <2>1, <3>1, <3>3, ExitsWell
    <3>4. CASE child' = [child EXCEPT !.tries = @ + 1]
      <4>1. RenewalChild(child') /\ child'.pc = "nonce" /\ child'.found = child.found
        BY <2>1, <2>3, <3>4 DEF RenewalChild, R!PostNonce
      <4> QED BY <2>1, <3>1, <4>1, GoesWell
    <3>5. \A status : R!NonceError(status) \notin {"", "CERT_PERSIST_FAILED"}
      BY DEF R!NonceError
    <3> QED BY <2>3, <3>2, <3>3, <3>4, <3>5 DEF R!PostNonce
  <2>4. CASE R!Prove
    <3>1. file' = file /\ file = child.found
      BY <2>4 DEF R!Prove, R!Still, RInv
    <3> QED BY <2>1, <2>4, <3>1, GoesWell, ExitsWell DEF R!Prove
  <2>5. CASE R!PostAttest
    <3>1. PICK answer, current :
            LET id == R!Cardinality(issued) + 1 IN
            /\ issued' = IF answer \in {"issued", "lost"}
                         THEN issued \cup {[id |-> id, token |-> child.token, current |-> current]} ELSE issued
            /\ child' = IF answer = "issued" THEN [R!To("open") EXCEPT !.got = id]
                        ELSE R!Exit(IF answer = "lost" THEN "NETWORK_FAILED" ELSE "PROCESS_FAILED")
      BY <2>5 DEF R!PostAttest
    <3>2. file' = file /\ file = child.found
      BY <2>5 DEF R!PostAttest, RInv
    <3>3. CASE answer = "issued"
      <4>1. RenewalChild(R!To("open")) /\ R!To("open").pc = "open"
            /\ R!To("open").found = child.found /\ R!To("open").token = child.token
        BY <2>1, ChildMoves
      <4>2. RenewalChild(child') /\ child'.pc = "open" /\ child'.found = child.found
            /\ child'.token = child.token /\ child'.got = R!Cardinality(issued) + 1
        BY <3>1, <3>3, <4>1 DEF RenewalChild
      <4>3. \E c \in issued' : c.id = child'.got /\ c.token = child'.token
        <5> DEFINE c == [id |-> R!Cardinality(issued) + 1, token |-> child.token, current |-> current]
        <5>1. c.id = R!Cardinality(issued) + 1 /\ c.token = child.token
          OBVIOUS
        <5>2. c \in issued'
          BY <3>1, <3>3
        <5> QED BY <4>2, <5>1, <5>2
      <4> QED BY <3>2, <4>2, <4>3 DEF RInv, IssuedFor
    <3>4. CASE answer # "issued"
      <4>1. \E reason \in {"NETWORK_FAILED", "PROCESS_FAILED"} : child' = R!Exit(reason)
        BY <3>1, <3>4
      <4> QED BY <2>1, <3>2, <4>1, ExitsWell
    <3> QED BY <3>3, <3>4
  <2>6. CASE R!OpenFile
    <3>1. issued' = issued /\ IssuedFor(child.got, child.token) /\ file = child.found
      BY <2>6 DEF R!OpenFile, RInv
    <3>2. CASE child' = R!To("write")
      <4>1. RenewalChild(child') /\ child'.pc = "write" /\ child'.got = child.got
            /\ child'.token = child.token
        BY <2>1, <3>2, ChildMoves
      <4> QED BY <3>1, <4>1 DEF RInv, IssuedFor
    <3>3. CASE file' = file /\ child' = R!Exit("CERT_PERSIST_FAILED")
      BY <2>1, <3>1, <3>3, ExitsWell
    <3> QED BY <2>6, <3>2, <3>3 DEF R!OpenFile
  <2>7. CASE R!WriteFile
    <3>1. issued' = issued /\ IssuedFor(child.got, child.token)
      BY <2>7 DEF R!WriteFile, RInv
    <3>2. CASE /\ child' = R!Exit("")
               /\ file' = [state |-> "whole", id |-> child.got, current |-> R!Certificate(child.got).current]
      <4>1. file'.state = "whole" /\ file'.id = child.got
        BY <3>2
      <4>2. RenewalChild(child') /\ child'.pc = "exited" /\ child'.keys = {} /\ child'.reason = ""
            /\ child'.token = child.token
        BY <2>1, <3>2, ChildMoves
      <4> QED BY <3>1, <4>1, <4>2 DEF RInv, IssuedFor
    <3>3. CASE file' = file /\ child' = R!Exit("CERT_PERSIST_FAILED")
      BY <2>1, <3>3, ExitsWell
    <3> QED BY <2>7, <3>2, <3>3 DEF R!WriteFile
  <2>8. CASE R!Classify \/ R!Judge
    <3>1. \/ \E reason : R!Finish("failed", reason)
          \/ R!Finish("renewed", "") /\ child.pc = "exited" /\ child.reason = "" /\ file.current
      BY <2>8 DEF R!Classify, R!Judge, R!ChildFailed
    <3>2. CASE \E reason : R!Finish("failed", reason)
      <4>1. child' = R!NoChild /\ renewed'.status = "failed"
        BY <3>2, FinishGives
      <4> QED BY <4>1, NoChildIs DEF RInv
    <3>3. CASE R!Finish("renewed", "") /\ child.pc = "exited" /\ child.reason = "" /\ file.current
      <4>1. child' = R!NoChild /\ file' = file /\ issued' = issued /\ renewed'.token = child.token
        BY <3>3, FinishGives
      <4> QED BY <3>3, <4>1, NoChildIs DEF RInv, IssuedFor
    <3> QED BY <3>1, <3>2, <3>3
  <2> QED BY <1>3, <2>2, <2>3, <2>4, <2>5, <2>6, <2>7, <2>8 DEF R!Agent
<1>4. ASSUME R!Expire PROVE RInv'
  <2>1. R!Finish("failed", "TIMEOUT")
    BY <1>4 DEF R!Expire
  <2>2. child' = R!NoChild /\ renewed'.status = "failed"
    BY <2>1, FinishGives
  <2> QED BY <2>2, NoChildIs DEF RInv
<1> QED BY <1>1, <1>2, <1>3, <1>4 DEF R!Next

LEMMA RenewalHonestHere == RInv => RenewalHonest
BY NoChildIs DEF RInv, RenewalHonest, R!RenewalTruth, R!FailureLeavesNothing, IssuedFor

-----------------------------------------------------------------------------
(* INSTALL_SOFTWARE and UNINSTALL_SOFTWARE. What a probe found or missed is  *)
(* so of the host it looked at.                                              *)
HostIs(h) ==
  /\ DOMAIN h = {"arp", "file", "content"}
  /\ h.arp \subseteq Entries /\ h.file \in {"none", "regular", "damaged", "odd"}

LEMMA ProbesGive ==
  ASSUME NEW v, NEW why
  PROVE  /\ S!Found(v).sat = TRUE /\ S!Found(v).version = v /\ S!Found(v).err = ""
         /\ S!Missed.sat = FALSE /\ S!Missed.err = ""
         /\ S!Failed(why).sat = FALSE /\ S!Failed(why).err = why
BY DEF S!Found, S!Missed, S!Failed

LEMMA Telling ==
  ASSUME NEW r
  PROVE  /\ r.sat => r # S!Missed /\ \A why : r # S!Failed(why)
         /\ ~r.sat => \A v : r # S!Found(v)
         /\ r.err = "" => \A why : why # "" => r # S!Failed(why)
<1>1. ASSUME r.sat, NEW why PROVE r # S!Missed /\ r # S!Failed(why)
  <2>1. ~S!Missed.sat /\ ~S!Failed(why).sat
    BY ProbesGive
  <2> QED BY <1>1, <2>1
<1>2. ASSUME ~r.sat, NEW v PROVE r # S!Found(v)
  <2>1. S!Found(v).sat
    BY ProbesGive
  <2> QED BY <1>2, <2>1
<1>3. ASSUME r.err = "", NEW why, why # "" PROVE r # S!Failed(why)
  <2>1. S!Failed(why).err = why
    BY ProbesGive
  <2> QED BY <1>3, <2>1
<1> QED BY <1>1, <1>2, <1>3

LEMMA RegistryFinds ==
  ASSUME NEW rule, NEW h, NEW live, NEW r \in S!ProbeViaRegistry(rule, h, live), r.sat
  PROVE  \E e \in h.arp : S!Names(rule, e) /\ e.version = r.version
<1>1. r # S!Failed("error")
  BY ProbesGive
<1>2. CASE rule.code # ""
  <2>1. PICK e \in h.arp : e.guid /\ r = S!Found(e.version)
    BY <1>1, <1>2, ProbesGive DEF S!ProbeViaRegistry, S!ByProductCode
  <2>2. r.version = e.version
    BY <2>1, ProbesGive
  <2> QED BY <1>2, <2>1, <2>2 DEF S!Names
<1>3. CASE rule.code = ""
  <2> DEFINE matching == {e \in h.arp : S!EntryMatches(rule, e)}
             ms == S!Deduped(matching)
  <2>1. r = S!OneMatch(ms)
    BY <1>1, <1>3 DEF S!ProbeViaRegistry, S!Enumerate
  <2> HIDE DEF ms
  <2>2. ms # {} /\ r = S!Found((CHOOSE m \in ms : TRUE).version)
    <3>1. r # S!Missed /\ r # S!Failed("ambiguous")
      BY ProbesGive
    <3>2. ms # {}
      BY <2>1, <3>1 DEF S!OneMatch
    <3> QED BY <2>1, <3>1, <3>2 DEF S!OneMatch
  <2>3. PICK m \in ms : r = S!Found(m.version)
    BY <2>2
  <2>4. PICK e \in matching : m.version = e.version
    BY <2>3 DEF ms, S!Deduped
  <2> QED BY <1>3, <2>3, <2>4, ProbesGive DEF S!Names
<1> QED BY <1>2, <1>3

LEMMA RegistryMisses ==
  ASSUME NEW rule, NEW h, NEW live, NEW r \in S!ProbeViaRegistry(rule, h, live), ~r.sat, r.err = "",
         \A e \in h.arp : e.root \in {1, 2}
  PROVE  \A e \in h.arp : ~S!Names(rule, e)
<1>1. r # S!Failed("error")
  BY Telling
<1>2. CASE rule.code # ""
  <2>1. r \in S!ByProductCode(h)
    BY <1>1, <1>2 DEF S!ProbeViaRegistry
  <2>2. \A e \in h.arp : r # S!Found(e.version)
    BY Telling
  <2>3. \A e \in h.arp : ~(e.guid /\ e.root = 1) /\ ~(e.guid /\ e.root = 2)
    BY <2>1, <2>2 DEF S!ByProductCode
  <2> QED BY <1>2, <2>3 DEF S!Names
<1>3. CASE rule.code = ""
  <2> DEFINE matching == {e \in h.arp : S!EntryMatches(rule, e)}
             ms == S!Deduped(matching)
  <2>1. r = S!OneMatch(ms)
    BY <1>1, <1>3 DEF S!ProbeViaRegistry, S!Enumerate
  <2>2. ms = {} \/ ms # {}
    OBVIOUS
  <2>3. ms # {} => r = S!Found((CHOOSE m \in ms : TRUE).version) \/ r = S!Failed("ambiguous")
    <3> HIDE DEF ms
    <3> QED BY <2>1 DEF S!OneMatch
  <2>4. ms = {}
    BY <2>3, Telling
  <2>5. matching = {}
    BY <2>4 DEF S!Deduped
  <2> QED BY <1>3, <2>5 DEF S!Names
<1> QED BY <1>2, <1>3

\* The file a rule names is as the probe found it.
FileFits(rule, h) ==
  /\ h.file \in {"regular", "damaged"}
  /\ rule.type = "FILE_SHA256" => h.file = "regular" /\ h.content = rule.digest
  /\ rule.type = "FILE_VERSION" => S!MatchesFileVersion(rule.pred, h.content)

LEMMA FileFinds ==
  ASSUME NEW rule, rule.type \in S!FileRules, NEW h, HostIs(h), NEW live,
         NEW r \in S!ProbeViaFile(rule, h, live), r.sat
  PROVE  FileFits(rule, h) /\ (rule.type = "FILE_VERSION" => r.version = h.content)
<1>1. r # S!Failed("error") /\ r # S!Missed
  BY Telling
<1>2. h.file \in {"regular", "damaged"}
  BY <1>1 DEF S!ProbeViaFile, S!ProbeFileExists, S!ProbeFileSha256, S!ProbeFileVersion, S!OnFile, HostIs
<1>3. CASE rule.type = "FILE_EXISTS"
  BY <1>2, <1>3 DEF FileFits
<1>4. CASE rule.type = "FILE_SHA256"
  <2>1. r \in S!ProbeFileSha256(rule, h, live)
    BY <1>1, <1>4 DEF S!ProbeViaFile
  <2> QED BY <1>1, <1>2, <1>4, <2>1 DEF FileFits, S!ProbeFileSha256, S!OnFile
<1>5. CASE rule.type = "FILE_VERSION"
  <2>1. r \in S!ProbeFileVersion(rule, h)
    BY <1>1, <1>5 DEF S!ProbeViaFile
  <2>2. r = [sat |-> S!MatchesFileVersion(rule.pred, h.content), version |-> h.content, err |-> ""]
    BY <1>1, <1>2, <2>1 DEF S!ProbeFileVersion, S!OnFile, S!ReadPeVersion
  <2>3. r.sat = S!MatchesFileVersion(rule.pred, h.content) /\ r.version = h.content
    BY <2>2
  <2> QED BY <1>2, <1>5, <2>3 DEF FileFits
<1> QED BY <1>3, <1>4, <1>5 DEF S!FileRules

LEMMA FileMisses ==
  ASSUME NEW rule, rule.type \in S!FileRules, NEW h, HostIs(h), NEW live,
         NEW r \in S!ProbeViaFile(rule, h, live), ~r.sat, r.err = ""
  PROVE  ~FileFits(rule, h) /\ (rule.type = "FILE_EXISTS" => h.file = "none")
<1>1. r # S!Failed("error") /\ \A v : r # S!Found(v)
  BY Telling
<1>2. CASE rule.type = "FILE_EXISTS"
  BY <1>1, <1>2 DEF S!ProbeViaFile, S!ProbeFileExists, S!OnFile, FileFits
<1>3. CASE rule.type = "FILE_SHA256"
  <2>1. r \in S!ProbeFileSha256(rule, h, live)
    BY <1>1, <1>3 DEF S!ProbeViaFile
  <2> QED BY <1>1, <1>3, <2>1 DEF FileFits, S!ProbeFileSha256, S!OnFile
<1>4. CASE rule.type = "FILE_VERSION"
  <2>1. r \in S!ProbeFileVersion(rule, h)
    BY <1>1, <1>4 DEF S!ProbeViaFile
  <2>2. CASE h.file = "none"
    BY <2>2 DEF FileFits
  <2>3. CASE h.file # "none"
    <3>1. r = [sat |-> S!MatchesFileVersion(rule.pred, h.content), version |-> h.content, err |-> ""]
      BY <1>1, <2>1, <2>3 DEF S!ProbeFileVersion, S!OnFile, S!ReadPeVersion
    <3>2. r.sat = S!MatchesFileVersion(rule.pred, h.content)
      BY <3>1
    <3> QED BY <1>4, <3>2 DEF FileFits
  <2> QED BY <2>2, <2>3
<1> QED BY <1>2, <1>3, <1>4 DEF S!FileRules

\* What the result of a verified command says of the host; for a file with a
\* version this is more than the verdict, for a later probe goes by the file.
Stands(req, h) ==
  IF req.op = "INSTALL"
  THEN S!Holds(req, h) /\ (req.rule.type \in S!FileRules => FileFits(req.rule, h))
  ELSE S!Gone(req.rule, h)

JobIs(j) ==
  /\ DOMAIN j = {"pc", "req", "stat", "base", "clean", "timedOut", "fresh"}
  /\ j.req \in Requests /\ j.fresh \in BOOLEAN /\ j.stat \in {"none", "file", "error"}
  /\ j.pc \in {"refuse", "locate", "egress", "preStat", "pre", "launch", "wait", "postStat", "post"}

StatFits(j, h) == (j.stat = "none" => h.file = "none") /\ (j.stat = "file" => h.file # "none")

\* A job whose look at the file is fresh knows whether the file is there, and
\* a command that was verified on this very host never comes to its launch.
SInv ==
  /\ HostIs(host)
  /\ job = S!Idle \/ JobIs(job)
  /\ fresh \in BOOLEAN
  /\ job.pc # "idle" /\ job.fresh => StatFits(job, host)
  /\ job.pc = "pre" /\ S!NeedsStat(job.req.rule) /\ job.req.op = "UNINSTALL" /\ fresh => job.fresh
  /\ S!Verified(last) /\ fresh => last.req \in Requests /\ Stands(last.req, host)
  /\ job.pc = "launch" /\ S!Verified(last) /\ fresh => last.req # job.req
  /\ job.pc = "egress" => job.req.op = "INSTALL"

LEMMA IdleIs == S!Idle.pc = "idle" /\ ~S!Verified(S!NoResult)
BY DEF S!Idle, S!NoResult, S!Verified, S!Succeeded

LEMMA SoftwareInit == S!Init => SInv
BY IdleIs, CommandsAssumption DEF S!Init, SInv, HostIs, S!SoftwareAssumption

\* A command that ends puts its own result in the place of the last.
LEMMA EndsWell ==
  ASSUME SInv, JobIs(job), NEW status, NEW isFresh \in BOOLEAN, S!Finish(status, isFresh),
         isFresh /\ status \in S!Succeeded /\ S!Authoritative(job.req.rule.type) => Stands(job.req, host)
  PROVE  SInv'
<1>1. last'.status = status /\ last'.req = job.req /\ job' = S!Idle /\ fresh' = isFresh /\ host' = host
  BY DEF S!Finish
<1> QED BY <1>1, IdleIs DEF SInv, JobIs, S!Verified

\* A command that goes on, and comes to no launch, changes no verdict.
LEMMA GoesOn ==
  ASSUME SInv, JobIs(job), JobIs(job'), UNCHANGED << host, last, fresh >>,
         job'.pc # "launch" \/ (S!Verified(last) /\ fresh => last.req # job'.req),
         job'.fresh => StatFits(job', host),
         job'.pc = "pre" /\ S!NeedsStat(job'.req.rule) /\ job'.req.op = "UNINSTALL" => job'.fresh \/ ~fresh,
         job'.pc = "egress" => job'.req.op = "INSTALL"
  PROVE  SInv'
BY IdleIs DEF SInv, JobIs, StatFits

LEMMA MovesWell ==
  ASSUME SInv, JobIs(job), NEW pc, S!Move(pc),
         pc \in {"egress", "preStat", "pre", "launch", "wait"},
         pc = "launch" /\ S!Verified(last) /\ fresh => last.req # job.req,
         pc = "pre" => ~(S!NeedsStat(job.req.rule) /\ job.req.op = "UNINSTALL"),
         pc = "egress" => job.req.op = "INSTALL"
  PROVE  SInv'
<1>1. JobIs(job') /\ job'.pc = pc /\ job'.fresh = job.fresh /\ job'.stat = job.stat /\ job'.req = job.req
  BY DEF S!Move, JobIs
<1>2. UNCHANGED << host, last, fresh >>
  BY DEF S!Move
<1> QED BY <1>1, <1>2, GoesOn DEF SInv, JobIs, StatFits

LEMMA AfterChildWell ==
  ASSUME SInv, JobIs(job), job.pc \in {"launch", "wait"}, NEW exit, NEW timedOut, NEW reboot,
         S!AfterChild(exit, timedOut, reboot)
  PROVE  SInv'
<1> DEFINE base == S!ExitStatus(exit, reboot)
           next == IF S!NeedsStat(job.req.rule) /\ S!Running("UNINSTALL") THEN "postStat" ELSE "post"
           status == IF timedOut THEN "FAILED_TIMEOUT" ELSE base
<1>1. CASE S!Running("INSTALL") /\ (timedOut \/ base = "FAILED_INSTALL")
  <2>1. S!Finish(status, FALSE)
    BY <1>1 DEF S!AfterChild
  <2> QED BY <2>1, EndsWell
<1>2. CASE ~(S!Running("INSTALL") /\ (timedOut \/ base = "FAILED_INSTALL"))
  <2>1. /\ job' = [job EXCEPT !.pc = next, !.base = IF S!Running("INSTALL") THEN base ELSE "",
                              !.clean = exit = "0", !.timedOut = timedOut, !.fresh = FALSE]
        /\ UNCHANGED << host, last, fresh >>
    BY <1>2 DEF S!AfterChild
  <2>2. next \in {"post", "postStat"}
    OBVIOUS
  <2> HIDE DEF next, base
  <2>3. JobIs(job') /\ job'.pc = next /\ ~job'.fresh
    BY <2>1, <2>2 DEF JobIs
  <2> QED BY <2>1, <2>2, <2>3, GoesOn
<1> QED BY <1>1, <1>2

\* A probe of the host a verdict stands on does not lead to a launch.
LEMMA StandingInstall ==
  ASSUME NEW req, req.op = "INSTALL", S!Authoritative(req.rule.type), HostIs(host), Stands(req, host),
         NEW live, NEW r \in S!DetectionProbe(req.rule, host, live), r.err = "", ~r.sat
  PROVE  FALSE
<1>1. CASE req.rule.type = "REGISTRY_UNINSTALL"
  <2>1. r \in S!ProbeViaRegistry(req.rule, host, live)
    BY <1>1 DEF S!DetectionProbe, S!FileRules
  <2>2. \A e \in host.arp : e.root \in {1, 2}
    BY CommandsAssumption DEF HostIs, S!SoftwareAssumption
  <2>3. \A e \in host.arp : ~S!Names(req.rule, e)
    BY <2>1, <2>2, RegistryMisses
  <2> QED BY <1>1, <2>3 DEF Stands, S!Holds
<1>2. CASE req.rule.type \in S!FileRules
  <2>1. r \in S!ProbeViaFile(req.rule, host, live)
    BY <1>2 DEF S!DetectionProbe, S!FileRules
  <2> QED BY <1>2, <2>1, FileMisses DEF Stands
<1> QED BY <1>1, <1>2 DEF S!Authoritative

LEMMA StandingUninstall ==
  ASSUME NEW req, req.op = "UNINSTALL", S!Authoritative(req.rule.type), HostIs(host), Stands(req, host),
         NEW live, NEW stat, S!NeedsStat(req.rule) => stat \in {"none", "error"},
         NEW state \in S!UninstallProbe(req.rule, host, live, stat)
  PROVE  state \in {"ABSENT", "AMBIGUOUS", "ERROR"}
<1>1. PICK r \in S!DetectionProbe(req.rule, host, live) :
        state = IF r.err = "ambiguous" THEN "AMBIGUOUS"
                ELSE IF r.err # "" \/ stat = "error" THEN "ERROR"
                ELSE IF req.rule.type \in {"REGISTRY_UNINSTALL", "FILE_EXISTS"}
                     THEN IF r.sat THEN "MATCHED" ELSE "ABSENT"
                ELSE IF stat = "none" THEN "ABSENT"
                ELSE IF r.sat THEN "MATCHED" ELSE "PRESENT_MISMATCH"
  BY DEF S!UninstallProbe
<1>2. CASE req.rule.type = "REGISTRY_UNINSTALL"
  <2>1. r \in S!ProbeViaRegistry(req.rule, host, live)
    BY <1>2 DEF S!DetectionProbe, S!FileRules
  <2>2. ~r.sat
    BY <1>2, <2>1, RegistryFinds DEF Stands, S!Gone
  <2> QED BY <1>1, <1>2, <2>2
<1>3. CASE req.rule.type = "FILE_EXISTS"
  <2>1. r \in S!ProbeViaFile(req.rule, host, live)
    BY <1>3 DEF S!DetectionProbe, S!FileRules
  <2>2. ~r.sat
    BY <1>3, <2>1, FileFinds DEF Stands, S!Gone, S!FileRules, FileFits
  <2> QED BY <1>1, <1>3, <2>2
<1>4. CASE S!NeedsStat(req.rule)
  BY <1>1, <1>4 DEF S!NeedsStat
<1> QED BY <1>2, <1>3, <1>4 DEF S!Authoritative, S!FileRules, S!NeedsStat

\* What an installer's probe found is what the verdict says.
LEMMA InstallStands ==
  ASSUME NEW req, req.op = "INSTALL", S!Authoritative(req.rule.type), HostIs(host), NEW live,
         NEW r \in S!DetectionProbe(req.rule, host, live), r.sat, S!VersionPredicateSatisfied(req, r.version)
  PROVE  Stands(req, host)
<1>1. CASE req.rule.type = "REGISTRY_UNINSTALL"
  <2>1. r \in S!ProbeViaRegistry(req.rule, host, live)
    BY <1>1 DEF S!DetectionProbe, S!FileRules
  <2> QED BY <1>1, <2>1, RegistryFinds DEF Stands, S!Holds, S!FileRules
<1>2. CASE req.rule.type \in S!FileRules
  <2>1. r \in S!ProbeViaFile(req.rule, host, live)
    BY <1>2 DEF S!DetectionProbe, S!FileRules
  <2> QED BY <1>2, <2>1, FileFinds DEF Stands, S!Holds, FileFits, S!FileRules
<1> QED BY <1>1, <1>2 DEF S!Authoritative

\* What the uninstaller's probe calls absent is gone.
LEMMA AbsentIsGone ==
  ASSUME NEW req, req.op = "UNINSTALL", S!Authoritative(req.rule.type), HostIs(host), NEW live, NEW stat,
         S!NeedsStat(req.rule) /\ stat = "none" => host.file = "none",
         "ABSENT" \in S!UninstallProbe(req.rule, host, live, stat)
  PROVE  Stands(req, host)
<1>1. PICK r \in S!DetectionProbe(req.rule, host, live) :
        "ABSENT" = IF r.err = "ambiguous" THEN "AMBIGUOUS"
                ELSE IF r.err # "" \/ stat = "error" THEN "ERROR"
                ELSE IF req.rule.type \in {"REGISTRY_UNINSTALL", "FILE_EXISTS"}
                     THEN IF r.sat THEN "MATCHED" ELSE "ABSENT"
                ELSE IF stat = "none" THEN "ABSENT"
                ELSE IF r.sat THEN "MATCHED" ELSE "PRESENT_MISMATCH"
  BY DEF S!UninstallProbe
<1>2. r.err = ""
  BY <1>1
<1>3. CASE req.rule.type = "REGISTRY_UNINSTALL"
  <2>1. r \in S!ProbeViaRegistry(req.rule, host, live)
    BY <1>3 DEF S!DetectionProbe, S!FileRules
  <2>2. \A e \in host.arp : e.root \in {1, 2}
    BY CommandsAssumption DEF HostIs, S!SoftwareAssumption
  <2>3. ~r.sat
    BY <1>1, <1>2, <1>3
  <2>4. \A e \in host.arp : ~S!Names(req.rule, e)
    BY <1>2, <2>1, <2>2, <2>3, RegistryMisses
  <2> QED BY <1>3, <2>4 DEF Stands, S!Gone
<1>4. CASE req.rule.type = "FILE_EXISTS"
  <2>1. r \in S!ProbeViaFile(req.rule, host, live)
    BY <1>4 DEF S!DetectionProbe, S!FileRules
  <2>2. ~r.sat
    BY <1>1, <1>2, <1>4
  <2>3. req.rule.type \in S!FileRules
    BY <1>4 DEF S!FileRules
  <2>4. host.file = "none"
    BY <1>2, <1>4, <2>1, <2>2, <2>3, FileMisses
  <2> QED BY <1>4, <2>4 DEF Stands, S!Gone
<1>5. CASE S!NeedsStat(req.rule)
  <2>1. stat = "none"
    BY <1>1, <1>2, <1>5 DEF S!NeedsStat
  <2> QED BY <1>5, <2>1 DEF S!NeedsStat, Stands, S!Gone
<1> QED BY <1>3, <1>4, <1>5 DEF S!Authoritative, S!FileRules, S!NeedsStat

LEMMA PlainAnswer ==
  ASSUME NEW r, r = S!Failed("error") \/ r = S!Missed \/ \E v : r = S!Found(v)
  PROVE  r.sat \in BOOLEAN
<1>1. CASE r = S!Failed("error")
  BY <1>1, ProbesGive
<1>2. CASE r = S!Missed
  BY <1>2, ProbesGive
<1>3. ASSUME NEW v, r = S!Found(v) PROVE r.sat \in BOOLEAN
  BY <1>3, ProbesGive
<1> QED BY <1>1, <1>2, <1>3

\* A probe answers yes or no.
LEMMA ProbeAnswers ==
  ASSUME NEW rule, NEW h, NEW live, NEW r \in S!DetectionProbe(rule, h, live)
  PROVE  r.sat \in BOOLEAN
<1>1. CASE rule.type = "REGISTRY_UNINSTALL"
  <2>1. r = S!Failed("error") \/ r \in S!ByProductCode(h) \/ \E ms : r = S!OneMatch(ms)
    BY <1>1 DEF S!DetectionProbe, S!FileRules, S!ProbeViaRegistry
  <2>2. \A ms : S!OneMatch(ms).sat \in BOOLEAN
    BY ProbesGive DEF S!OneMatch
  <2>3. r \in S!ByProductCode(h) => r = S!Missed \/ \E v : r = S!Found(v)
    BY DEF S!ByProductCode
  <2> QED BY <2>1, <2>2, <2>3, PlainAnswer
<1>2. CASE rule.type \in S!FileRules
  <2>1. r \in S!ProbeViaFile(rule, h, live)
    BY <1>2 DEF S!DetectionProbe, S!FileRules
  <2>2. \/ r = S!Failed("error") \/ r = S!Missed \/ \E v : r = S!Found(v)
        \/ \E v : r = [sat |-> S!MatchesFileVersion(rule.pred, v), version |-> v, err |-> ""]
    BY <2>1 DEF S!ProbeViaFile, S!ProbeFileExists, S!ProbeFileSha256, S!ProbeFileVersion, S!OnFile
  <2>3. ASSUME NEW v, r = [sat |-> S!MatchesFileVersion(rule.pred, v), version |-> v, err |-> ""]
        PROVE  r.sat \in BOOLEAN
    <3>1. r.sat = S!MatchesFileVersion(rule.pred, v)
      BY <2>3
    <3>2. S!MatchesFileVersion(rule.pred, v) \in BOOLEAN
      BY DEF S!MatchesFileVersion
    <3> QED BY <3>1, <3>2
  <2> QED BY <2>2, <2>3, PlainAnswer
<1>3. CASE rule.type \notin S!FileRules \cup {"REGISTRY_UNINSTALL"}
  <2>1. r \in S!ProbeViaWingetList(h, live)
    BY <1>3 DEF S!DetectionProbe, S!FileRules
  <2>2. r = S!Failed("error") \/ r = S!Missed \/ \E v : r = S!Found(v)
    BY <2>1 DEF S!ProbeViaWingetList, S!WingetListAttempt
  <2> QED BY <2>2, PlainAnswer
<1> QED BY <1>1, <1>2, <1>3

LEMMA FileTurns ==
  ASSUME NEW h, HostIs(h), NEW state \in {"none", "regular"}, NEW content
  PROVE  HostIs([h EXCEPT !.file = state, !.content = content])
<1> DEFINE g == [h EXCEPT !.file = state, !.content = content]
<1>1. DOMAIN g = DOMAIN h /\ g.arp = h.arp /\ g.file = state
  BY DEF HostIs
<1> QED BY <1>1 DEF HostIs

LEMMA ChangesWell ==
  ASSUME SInv, NEW h, S!Changed(h), HostIs(h)
  PROVE  SInv'
<1>1. host' = h /\ fresh' = FALSE /\ last' = last
  BY DEF S!Changed
<1>2. CASE job = S!Idle
  BY <1>1, <1>2, IdleIs DEF SInv, S!Changed
<1>3. CASE JobIs(job)
  <2>1. job' = [job EXCEPT !.fresh = FALSE]
    BY <1>3 DEF S!Changed, JobIs
  <2>2. JobIs(job') /\ ~job'.fresh /\ job'.pc = job.pc /\ job'.req = job.req
    BY <1>3, <2>1 DEF JobIs
  <2> QED BY <1>1, <2>2, IdleIs DEF SInv
<1> QED BY <1>2, <1>3 DEF SInv

LEMMA SoftwareStep ==
  ASSUME SInv, [S!Next]_(S!software)
  PROVE  SInv'
<1> USE DEF S!Running
<1>1. CASE UNCHANGED S!software
  BY <1>1 DEF S!software, SInv
<1>2. ASSUME NEW req \in Requests, S!Begin(req) PROVE SInv'
  <2>1. JobIs(job') /\ job'.pc \in {"locate", "refuse"} /\ ~job'.fresh
    BY <1>2 DEF S!Begin, JobIs
  <2> QED BY <1>2, <2>1, IdleIs DEF S!Begin, SInv
<1>3. ASSUME S!Agent PROVE SInv'
  <2>1. JobIs(job)
    <3>1. job.pc # "idle"
      BY <1>3 DEF S!Agent, S!Refuse, S!LocateExecutable, S!EgressVerify, S!PreDetect, S!Stat, S!PreProbe,
                  S!Launch, S!Reap, S!GiveUp, S!PostDetect, S!PostProbe
    <3> QED BY <3>1, IdleIs DEF SInv
  <2>2. job.req.op \in {"INSTALL", "UNINSTALL"} /\ HostIs(host)
    BY <2>1, CommandsAssumption DEF JobIs, S!SoftwareAssumption, SInv
  <2>3. CASE S!Refuse \/ S!LocateExecutable \/ S!EgressVerify
    <3>1. CASE \E status : S!Finish(status, FALSE)
      BY <2>1, <3>1, EndsWell
    <3>2. CASE S!LocateExecutable /\ ~\E status : S!Finish(status, FALSE)
      BY <2>1, <2>2, <3>2, MovesWell DEF S!LocateExecutable, S!Answer, S!Goto
    <3>3. CASE S!EgressVerify /\ ~\E status : S!Finish(status, FALSE)
      <4>1. S!Move("pre") /\ job.req.op = "INSTALL"
        BY <3>3 DEF S!EgressVerify, S!Answer, S!Goto, SInv
      <4> QED BY <2>1, <2>2, <4>1, MovesWell
    <3> QED BY <2>3, <3>1, <3>2, <3>3 DEF S!Refuse, S!Answer
  <2>4. CASE S!PreDetect
    <3>1. PICK r \in S!DetectionProbe(job.req.rule, host, ctx.own = "live") :
            IF r.err # "" /\ S!Authoritative(job.req.rule.type) THEN S!Answer("FAILED_VERIFICATION", FALSE)
            ELSE IF ~r.sat THEN S!Goto("launch")
            ELSE IF S!VersionPredicateSatisfied(job.req, r.version) THEN S!Answer("SUCCEEDED_NOOP", TRUE)
            ELSE S!Answer("FAILED_PREEXISTING_VERSION_CONFLICT", FALSE)
      BY <2>4 DEF S!PreDetect
    <3>2. job.req.op = "INSTALL"
      BY <2>4 DEF S!PreDetect
    <3>3. CASE S!Goto("launch") /\ ~r.sat /\ ~(r.err # "" /\ S!Authoritative(job.req.rule.type))
      <4>1. ASSUME S!Verified(last), fresh, last.req = job.req PROVE FALSE
        BY <2>2, <3>2, <3>3, <4>1, StandingInstall DEF SInv, S!Verified
      <4> QED BY <2>1, <3>3, <4>1, MovesWell DEF S!Goto
    <3>4. CASE S!Answer("SUCCEEDED_NOOP", TRUE) /\ r.sat /\ S!VersionPredicateSatisfied(job.req, r.version)
      BY <2>1, <2>2, <3>2, <3>4, InstallStands, EndsWell DEF S!Answer
    <3>5. CASE \E status : S!Answer(status, FALSE)
      BY <2>1, <3>5, EndsWell DEF S!Answer
    <3> QED BY <3>1, <3>3, <3>4, <3>5
  <2>5. CASE S!Stat
    <3> DEFINE pc == IF job.pc = "preStat" THEN "pre" ELSE "post"
    <3>1. PICK stat \in {IF host.file = "none" THEN "none" ELSE "file", "error"} :
            job' = [job EXCEPT !.pc = pc, !.stat = stat, !.fresh = TRUE]
      BY <2>1, <2>5 DEF S!Stat, JobIs
    <3>2. pc \in {"pre", "post"}
      OBVIOUS
    <3> HIDE DEF pc
    <3>3. JobIs(job') /\ job'.pc = pc /\ job'.stat = stat /\ job'.fresh
      BY <2>1, <3>1, <3>2 DEF JobIs
    <3>4. StatFits(job', host)
      BY <3>3 DEF StatFits
    <3> QED BY <2>1, <2>5, <3>2, <3>3, <3>4, GoesOn DEF S!Stat
  <2>6. CASE S!PreProbe
    <3>1. PICK state \in S!UninstallProbe(job.req.rule, host, ctx.own = "live", job.stat) :
            CASE state = "ABSENT" -> S!Answer("SKIP_ALREADY_ABSENT", S!FreshNow)
              [] state \in {"AMBIGUOUS", "ERROR"} -> S!Answer("FAILED_PRECHECK_INCONCLUSIVE", FALSE)
              [] OTHER -> S!Goto("launch")
      BY <2>6 DEF S!PreProbe
    <3>2. job.req.op = "UNINSTALL" /\ job.pc = "pre" /\ S!FreshNow \in BOOLEAN
      BY <2>6 DEF S!PreProbe, S!FreshNow
    <3>3. CASE state = "ABSENT"
      <4>1. S!Finish("SKIP_ALREADY_ABSENT", S!FreshNow)
        BY <3>1, <3>3 DEF S!Answer
      <4>2. S!FreshNow /\ S!NeedsStat(job.req.rule) /\ job.stat = "none" => host.file = "none"
        BY <2>1, <3>2 DEF S!FreshNow, SInv, StatFits
      <4> QED BY <2>1, <2>2, <3>2, <3>3, <4>1, <4>2, AbsentIsGone, EndsWell
    <3>4. CASE state \in {"AMBIGUOUS", "ERROR"}
      BY <2>1, <3>1, <3>4, EndsWell DEF S!Answer
    <3>5. CASE state \notin {"ABSENT", "AMBIGUOUS", "ERROR"}
      <4>1. S!Move("launch")
        BY <3>1, <3>5 DEF S!Goto
      <4>2. ASSUME S!Verified(last), fresh, last.req = job.req PROVE FALSE
        <5>1. Stands(job.req, host) /\ S!Authoritative(job.req.rule.type)
          BY <4>2 DEF SInv, S!Verified
        <5>2. S!NeedsStat(job.req.rule) => job.stat \in {"none", "error"}
          <6>1. S!NeedsStat(job.req.rule) => job.fresh /\ host.file = "none"
            BY <3>2, <4>2, <5>1 DEF SInv, Stands, S!Gone, S!NeedsStat
          <6> QED BY <2>1, <3>2, <6>1 DEF SInv, StatFits, JobIs
        <5> QED BY <2>2, <3>1, <3>2, <3>5, <5>1, <5>2, StandingUninstall
      <4> QED BY <2>1, <4>1, <4>2, MovesWell
    <3> QED BY <3>3, <3>4, <3>5
  <2>7. CASE S!Launch
    <3>1. CASE S!Move("wait")
      BY <2>1, <3>1, MovesWell
    <3>2. CASE S!AfterChild("-1", FALSE, FALSE)
      BY <2>1, <2>7, <3>2, AfterChildWell DEF S!Launch
    <3> QED BY <2>7, <3>1, <3>2 DEF S!Launch
  <2>8. CASE S!Reap
    BY <2>1, <2>8, AfterChildWell DEF S!Reap
  <2>9. CASE S!GiveUp
    <3>1. \E exit, timedOut : S!AfterChild(exit, timedOut, FALSE)
      BY <2>9 DEF S!GiveUp
    <3> QED BY <2>1, <2>9, <3>1, AfterChildWell DEF S!GiveUp
  <2>10. CASE S!PostDetect
    <3>1. PICK r \in S!DetectionProbe(job.req.rule, host, ctx.own = "live") :
            S!Answer(IF IF r.sat THEN S!VersionPredicateSatisfied(job.req, r.version)
                        ELSE ~S!Authoritative(job.req.rule.type) /\ ~S!RequiresVersionProof(job.req.pred)
                     THEN job.base ELSE "FAILED_VERIFICATION", r.sat)
      BY <2>10 DEF S!PostDetect
    <3> DEFINE status == IF IF r.sat THEN S!VersionPredicateSatisfied(job.req, r.version)
                            ELSE ~S!Authoritative(job.req.rule.type) /\ ~S!RequiresVersionProof(job.req.pred)
                         THEN job.base ELSE "FAILED_VERIFICATION"
    <3>2. S!Finish(status, r.sat) /\ job.req.op = "INSTALL"
      BY <2>10, <3>1 DEF S!Answer, S!PostDetect
    <3>3. r.sat /\ status \in S!Succeeded => S!VersionPredicateSatisfied(job.req, r.version)
      BY DEF S!Succeeded
    <3> HIDE DEF status
    <3>4. r.sat \in BOOLEAN
      BY ProbeAnswers, <3>1
    <3> QED BY <2>1, <2>2, <3>2, <3>3, <3>4, InstallStands, EndsWell
  <2>11. CASE S!PostProbe
    <3> DEFINE states == IF job.timedOut /\ ctx.parent # "live" THEN {"ERROR"}
                         ELSE S!UninstallProbe(job.req.rule, host, ctx.parent = "live", job.stat)
    <3>1. PICK state \in states : S!Answer(S!UninstallStatus(state), S!FreshNow)
      BY <2>11 DEF S!PostProbe
    <3>2. job.req.op = "UNINSTALL" /\ job.pc = "post" /\ S!FreshNow \in BOOLEAN
      BY <2>11 DEF S!PostProbe, S!FreshNow
    <3>3. S!UninstallStatus(state) \in S!Succeeded => state = "ABSENT"
      BY DEF S!UninstallStatus, S!Succeeded
    <3>4. state = "ABSENT" => "ABSENT" \in S!UninstallProbe(job.req.rule, host, ctx.parent = "live", job.stat)
      OBVIOUS
    <3>5. S!FreshNow /\ S!NeedsStat(job.req.rule) /\ job.stat = "none" => host.file = "none"
      BY <2>1, <3>2 DEF S!FreshNow, SInv, StatFits
    <3>6. S!Finish(S!UninstallStatus(state), S!FreshNow)
      BY <3>1 DEF S!Answer
    <3> QED BY <2>1, <2>2, <3>2, <3>3, <3>4, <3>5, <3>6, AbsentIsGone, EndsWell
  <2> QED BY <1>3, <2>3, <2>4, <2>5, <2>6, <2>7, <2>8, <2>9, <2>10, <2>11 DEF S!Agent
<1>4. CASE S!ChildWorks
  <2>1. \E h : S!Changed(h) /\ HostIs(h)
    <3>1. HostIs(host)
      BY DEF SInv
    <3>2. CASE \E req, e \in S!Ours : S!Changed([host EXCEPT !.arp = (@ \ S!Ours) \cup {e}])
      BY <3>1, <3>2 DEF HostIs, S!Ours
    <3>3. CASE \E req : S!Changed([host EXCEPT !.file = "regular", !.content = req.target])
      BY <3>1, <3>3, FileTurns
    <3>4. CASE S!Changed([host EXCEPT !.arp = @ \ S!Ours])
      BY <3>1, <3>4 DEF HostIs
    <3>5. CASE S!Changed([host EXCEPT !.file = "none", !.content = S!NoVersion])
      BY <3>1, <3>5, FileTurns
    <3> QED BY <1>4, <3>2, <3>3, <3>4, <3>5 DEF S!ChildWorks
  <2> QED BY <2>1, ChangesWell
<1>5. CASE S!Others
  <2>1. \E h : S!Changed(h) /\ HostIs(h)
    <3>1. HostIs(host)
      BY DEF SInv
    <3>2. CASE \E e \in Entries : S!Changed([host EXCEPT !.arp = IF e \in @ THEN @ \ {e} ELSE @ \cup {e}])
      BY <3>1, <3>2 DEF HostIs
    <3>3. CASE S!Changed([host EXCEPT !.file = "none", !.content = S!NoVersion])
      BY <3>1, <3>3, FileTurns
    <3>4. CASE \E f \in {"damaged", "odd"} : S!Changed([host EXCEPT !.file = f])
      BY <3>1, <3>4 DEF HostIs
    <3> QED BY <1>5, <3>2, <3>3, <3>4 DEF S!Others
  <2> QED BY <2>1, ChangesWell
<1>6. CASE S!ChildExits \/ S!OrphanEnds \/ S!Deadline \/ S!ServiceStops
  <2>1. UNCHANGED << host, job, last, fresh >>
    BY <1>6 DEF S!ChildExits, S!OrphanEnds, S!Deadline, S!ServiceStops
  <2> QED BY <2>1 DEF SInv
<1> QED BY <1>1, <1>2, <1>3, <1>4, <1>5, <1>6 DEF S!Next

-----------------------------------------------------------------------------
(* The executor. It gives each part the payloads made for it, and a step of  *)
(* the executor is a step of every part, or leaves the part alone.           *)
PartsMove ==
  /\ [S!Next]_software /\ [D!Next]_display /\ [U!Next]_users /\ [P!Next]_staging
  /\ [B!Next]_backup /\ [I!Next]_inventory /\ [R!Next]_renewals

LEMMA PartsMoveOn ==
  ASSUME [Next]_commands
  PROVE  PartsMove
<1>1. CASE UNCHANGED commands
  BY <1>1 DEF PartsMove, commands
<1>2. CASE AllStill
  BY <1>2 DEF PartsMove, AllStill
<1>3. ASSUME NEW c \in Sent, Execute(c) PROVE PartsMove
  <2>1. CASE Refusal(c) # "" \/ ctx.parent # "live"
    BY <1>2, <1>3, <2>1 DEF Execute
  <2>2. CASE Refusal(c) = "" /\ ctx.parent = "live"
    <3>1. Enter(c)
      BY <1>3, <2>2 DEF Execute
    <3>2. ~c.malformed
      BY <2>2 DEF Refusal, Dispatched
    <3>3. CASE c.type \in Installs /\ S!Begin(c.body) /\ OnlySoftware
      <4>1. c.body \in Requests
        BY <3>2, <3>3, BodiesAssumption DEF Installs
      <4> QED BY <3>3, <4>1 DEF PartsMove, OnlySoftware, S!Next
    <3>4. CASE c.type = "SET_DISPLAY_POLICY" /\ D!Begin(c.body) /\ OnlyDisplay
      <4>1. c.body \in Orders
        BY <3>2, <3>4, BodiesAssumption
      <4> QED BY <3>4, <4>1 DEF PartsMove, OnlyDisplay, D!Next
    <3>5. CASE c.type \in Mutates /\ U!Begin(c.body) /\ OnlyUsers
      <4>1. c.body \in Mutations
        BY <3>2, <3>5, BodiesAssumption DEF Mutates
      <4> QED BY <3>5, <4>1 DEF PartsMove, OnlyUsers, U!Next
    <3>6. CASE c.type = "UPDATE_AGENT" /\ P!Begin(c.body) /\ OnlyStaging
      <4>1. c.body \in Payloads
        BY <3>2, <3>6, BodiesAssumption
      <4> QED BY <3>6, <4>1 DEF PartsMove, OnlyStaging, P!Next
    <3>7. CASE c.type = "COLLECT_BACKUP_DRYRUN" /\ B!Begin(c.body) /\ OnlyBackup
      <4>1. c.body \in Roots
        BY <3>2, <3>7, BodiesAssumption
      <4> QED BY <3>7, <4>1 DEF PartsMove, OnlyBackup, B!Next
    <3>8. CASE c.type = "COLLECT_INVENTORY" /\ I!Begin(c.body) /\ OnlyInventory
      <4>1. c.body \in Asked
        BY <3>2, <3>8, BodiesAssumption
      <4> QED BY <3>8, <4>1 DEF PartsMove, OnlyInventory, I!Next
    <3>9. CASE c.type = "RENEW_TPM_CERTIFICATE" /\ R!Begin(c.body) /\ OnlyRenewals
      <4>1. c.body \in Renewals
        BY <3>2, <3>9, BodiesAssumption
      <4> QED BY <3>9, <4>1 DEF PartsMove, OnlyRenewals, R!Next
    <3> QED BY <1>2, <3>1, <3>3, <3>4, <3>5, <3>6, <3>7, <3>8, <3>9 DEF Enter
  <2> QED BY <2>1, <2>2
<1>4. CASE Report
  BY <1>2, <1>4 DEF Report, Answer
<1>5. CASE Agent
  <2>1. CASE S!Agent /\ OnlySoftware
    BY <2>1 DEF PartsMove, OnlySoftware, S!Next
  <2>2. CASE D!Apply /\ OnlyDisplay
    BY <2>2 DEF PartsMove, OnlyDisplay, D!Next
  <2>3. CASE U!Agent /\ OnlyUsers
    BY <2>3 DEF PartsMove, OnlyUsers, U!Next
  <2>4. CASE P!Stage /\ OnlyStaging
    BY <2>4 DEF PartsMove, OnlyStaging, P!Next
  <2>5. CASE B!Walk /\ OnlyBackup
    BY <2>5 DEF PartsMove, OnlyBackup, B!Next
  <2>6. CASE I!Agent /\ OnlyInventory
    BY <2>6 DEF PartsMove, OnlyInventory, I!Next
  <2>7. CASE R!Agent /\ OnlyRenewals
    BY <2>7 DEF PartsMove, OnlyRenewals, R!Next
  <2> QED BY <1>5, <2>1, <2>2, <2>3, <2>4, <2>5, <2>6, <2>7 DEF Agent
<1>6. CASE Host
  <2>1. CASE OnlySoftware /\ (S!ChildWorks \/ S!ChildExits \/ S!OrphanEnds \/ S!Others \/ S!ServiceStops)
    BY <2>1 DEF PartsMove, OnlySoftware, S!Next
  <2>2. CASE OnlyDisplay /\ \E s \in Sids : D!SignInOrOut(s)
    BY <2>2 DEF PartsMove, OnlyDisplay, D!Next
  <2>3. CASE U!Change /\ OnlyUsers
    BY <2>3 DEF PartsMove, OnlyUsers, U!Next
  <2>4. CASE B!Edit /\ OnlyBackup
    BY <2>4 DEF PartsMove, OnlyBackup, B!Next
  <2>5. CASE (I!RunOut \/ I!Turn) /\ OnlyInventory
    BY <2>5 DEF PartsMove, OnlyInventory, I!Next
  <2>6. CASE R!Expire /\ OnlyRenewals
    BY <2>6 DEF PartsMove, OnlyRenewals, R!Next
  <2>7. CASE P!Aside /\ OnlyStaging
    BY <2>7 DEF PartsMove, OnlyStaging, P!Next
  <2> QED BY <1>6, <2>1, <2>2, <2>3, <2>4, <2>5, <2>6, <2>7 DEF Host
<1>7. CASE Deadline
  BY <1>7 DEF Deadline, PartsMove, OnlySoftware, S!Next
<1>8. CASE Stopped
  <2>1. CASE D!Crash /\ OnlyDisplay
    BY <2>1 DEF PartsMove, OnlyDisplay, D!Next
  <2>2. CASE OnlyStaging /\ P!Swap
    BY <2>2 DEF PartsMove, OnlyStaging, P!Next
  <2>3. CASE B!Abandon /\ OnlyBackup
    BY <2>3 DEF PartsMove, OnlyBackup, B!Next
  <2>4. CASE I!Abandon /\ OnlyInventory
    BY <2>4 DEF PartsMove, OnlyInventory, I!Next
  <2> QED BY <1>8, <2>1, <2>2, <2>3, <2>4 DEF Stopped
<1> QED BY <1>1, <1>3, <1>4, <1>5, <1>6, <1>7, <1>8 DEF Next

\* Each part keeps its own variables in one tuple, here and in its own module.
LEMMA SameVariables ==
  /\ software = S!software /\ software' = S!software' /\ display = D!display /\ display' = D!display'
  /\ users = U!users /\ users' = U!users' /\ staging = P!staging /\ staging' = P!staging'
  /\ backup = B!backup /\ backup' = B!backup' /\ inventory = I!inventory /\ inventory' = I!inventory'
  /\ renewals = R!renewals /\ renewals' = R!renewals'
BY DEF software, S!software, display, D!display, users, U!users, staging, P!staging,
       backup, B!backup, inventory, I!inventory, renewals, R!renewals

LEMMA EachPartMoves ==
  ASSUME [Next]_commands
  PROVE  /\ [S!Next]_(S!software) /\ [D!Next]_(D!display) /\ [U!Next]_(U!users) /\ [P!Next]_(P!staging)
         /\ [B!Next]_(B!backup) /\ [I!Next]_(I!inventory) /\ [R!Next]_(R!renewals)
BY PartsMoveOn, SameVariables DEF PartsMove

LEMMA PartsBegin ==
  Init => S!Init /\ D!Init /\ U!Init /\ P!Init /\ B!Init /\ I!Init /\ R!Init
BY DEF Init

(* The executor with the machine around it implements the specification of   *)
(* every part: nothing the executor does reaches into a part but by the      *)
(* part's own steps, so what each part promises it promises here as well.    *)
THEOREM PartsImplemented ==
  Spec => /\ S!Init /\ [][S!Next]_(S!software)
          /\ D!Spec /\ U!Spec /\ P!Spec /\ B!Spec
          /\ I!Init /\ [][I!Next]_(I!inventory)
          /\ R!Init /\ [][R!Next]_(R!renewals)
BY PartsBegin, EachPartMoves, PTL DEF Spec, D!Spec, U!Spec, P!Spec, B!Spec

LEMMA SoftwareInvariant == Spec => []SInv
<1>1. Init => SInv
  BY PartsBegin, SoftwareInit
<1>2. SInv /\ [Next]_commands => SInv'
  BY EachPartMoves, SoftwareStep
<1> QED BY <1>1, <1>2, PTL DEF Spec

LEMMA RenewalInvariant == Spec => []RInv
<1>1. Init => RInv
  BY PartsBegin, RenewalInit
<1>2. RInv /\ [Next]_commands => RInv'
  BY EachPartMoves, RenewalStep
<1> QED BY <1>1, <1>2, PTL DEF Spec

(* A removal or an installation that is reported as done under a rule that   *)
(* is an authority is so on the host, until somebody changes the host.       *)
THEOREM VerdictsHold == Spec => []VerdictHolds
<1>1. SInv => VerdictHolds
  BY DEF SInv, VerdictHolds, S!VerdictHolds, Stands
<1> QED BY <1>1, SoftwareInvariant, PTL

(* A verified command that is delivered again starts no second winget: only  *)
(* the launch starts one, and the probe before it found the verdict to hold. *)
THEOREM RedeliveryStaysIdle == Spec => RedeliveryIdle
<1>1. ASSUME SInv, [S!Next]_(S!software),
             proc.st = "none", proc'.st = "running", S!Verified(last), fresh
      PROVE  last.req # job.req
  <2>1. proc'.st = "running" /\ proc' # proc
    BY <1>1
  <2>2. proc' # S!NoChild
    BY <2>1 DEF S!NoChild
  <2>3. ~S!ChildExits
    BY <2>1 DEF S!ChildExits
  <2>4. S!Launch
    BY <1>1, <2>1, <2>2, <2>3 DEF S!software, S!Next, S!Begin, S!Agent, S!Refuse, S!LocateExecutable, S!EgressVerify,
       S!PreDetect, S!Stat, S!PreProbe, S!Reap, S!GiveUp, S!PostDetect, S!PostProbe, S!ChildWorks,
       S!OrphanEnds, S!Others, S!Deadline, S!ServiceStops, S!Changed, S!Answer, S!Goto
  <2>5. job.pc = "launch"
    BY <2>4 DEF S!Launch
  <2> QED BY <1>1, <2>5 DEF SInv
<1>2. SInv /\ [Next]_commands =>
        [proc.st = "none" /\ proc'.st = "running" /\ S!Verified(last) /\ fresh => last.req # job.req]_(S!software)
  BY <1>1, EachPartMoves
<1> QED BY <1>2, SoftwareInvariant, PTL DEF Spec, RedeliveryIdle, S!RedeliveryIdle

(* A renewal that is reported as done left the certificate issued for its    *)
(* own token on disk, whole and current; one that failed left the file that  *)
(* was there, and in no case a key in the TPM.                               *)
THEOREM RenewalsHonest == Spec => []RenewalHonest
BY RenewalInvariant, RenewalHonestHere, PTL

-----------------------------------------------------------------------------
(* The executor itself. A part is at work only on a command of its own type, *)
(* and software that may still be refused has started no winget.             *)
Owned ==
  /\ job.pc # "idle" => command.type \in Installs
  /\ order.pc # "idle" => command.type = "SET_DISPLAY_POLICY"
  /\ mutation.pc # "idle" => command.type \in Mutates
  /\ update.pc # "idle" => command.type = "UPDATE_AGENT"
  /\ scan.pc # "idle" => command.type = "COLLECT_BACKUP_DRYRUN"
  /\ block # I!NoBlock => command.type = "COLLECT_INVENTORY"
  /\ child # R!NoChild => command.type = "RENEW_TPM_CERTIFICATE"

CommandIs(c) ==
  /\ DOMAIN c = {"type", "touched"} /\ c.touched \in BOOLEAN
  /\ c.type \in theme.types \cap Capabilities(build)

\* The statuses of software that the backend hears as unsupported.
Unsupported ==
  {"FAILED_UNSUPPORTED_PLATFORM", "FAILED_UNSUPPORTED_DETECTION_RULE", "FAILED_UNSUPPORTED_ARGS_POLICY",
   "FAILED_UNSUPPORTED_VERIFICATION"}
MayBeRefused == job.pc \in {"refuse", "locate"} \/ (job.pc = "idle" /\ last.status \in Unsupported)

Answered(r) ==
  /\ r.status \in {"SUCCEEDED", "PARTIAL", "FAILED", "UNSUPPORTED", "EXPIRED"}
  /\ r.status \in {"UNSUPPORTED", "EXPIRED"} => ~r.touched

CInv ==
  /\ theme \in Themes /\ build \in Builds
  /\ command = NoCommand \/ CommandIs(command)
  /\ Owned
  /\ command.type \in Installs /\ MayBeRefused => ~command.touched
  /\ job.pc # "idle" => job.base \notin Unsupported
  /\ report.status # "FAILED_UNSUPPORTED_PLATFORM" /\ outcome # "UNSUPPORTED"
  /\ result = NoResult \/ Answered(result)

LEMMA NamesDiffer ==
  /\ NoCommand.type = "none" /\ "none" \notin Installs \cup Mutates
  /\ D!NoOrder.pc = "idle" /\ U!NoMutation.pc = "idle" /\ P!NoJob.pc = "idle" /\ B!NoScan.pc = "idle"
  /\ S!Idle.pc = "idle" /\ S!NoResult.status = "none"
BY DEF NoCommand, Installs, Mutates, D!NoOrder, U!NoMutation, P!NoJob, B!NoScan, S!Idle, S!NoResult

LEMMA CommandsInit == Init => CInv
<1> SUFFICES ASSUME Init PROVE CInv
  OBVIOUS
<1>1. /\ job = S!Idle /\ order = D!NoOrder /\ mutation = U!NoMutation /\ update = P!NoJob /\ scan = B!NoScan
      /\ block = I!NoBlock /\ child = R!NoChild /\ report.status = "none" /\ outcome = "none"
  BY DEF Init, S!Init, D!Init, U!Init, P!Init, B!Init, I!Init, R!Init
<1>2. Owned
  BY <1>1, NamesDiffer DEF Owned
<1>3. command = NoCommand /\ result = NoResult /\ theme \in Themes /\ build \in Builds
  BY DEF Init
<1> QED BY <1>1, <1>2, <1>3, NamesDiffer DEF CInv

\* A status that says unsupported comes before the launch.
LEMMA RefusedEarly ==
  ASSUME SInv, S!Agent, job.base \notin Unsupported, MayBeRefused'
  PROVE  MayBeRefused /\ UNCHANGED << proc, orphans >>
<1>1. JobIs(job) /\ job.pc # "idle"
  <2>1. job.pc # "idle"
    BY DEF S!Agent, S!Refuse, S!LocateExecutable, S!EgressVerify, S!PreDetect, S!Stat, S!PreProbe,
           S!Launch, S!Reap, S!GiveUp, S!PostDetect, S!PostProbe
  <2> QED BY <2>1, IdleIs DEF SInv
<1>2. ASSUME NEW status, NEW isFresh, S!Finish(status, isFresh) PROVE job'.pc = "idle" /\ last'.status = status
  BY <1>2, IdleIs DEF S!Finish
<1>3. ASSUME NEW pc, S!Move(pc) PROVE job'.pc = pc
  BY <1>1, <1>3 DEF S!Move, JobIs
<1>4. CASE S!Refuse \/ S!LocateExecutable
  BY <1>4 DEF S!Refuse, S!LocateExecutable, S!Answer, S!Goto, S!Move, MayBeRefused
<1>5. ASSUME NEW exit, NEW timedOut, NEW reboot, S!AfterChild(exit, timedOut, reboot) PROVE FALSE
  <2> DEFINE base == S!ExitStatus(exit, reboot)
             next == IF S!NeedsStat(job.req.rule) /\ S!Running("UNINSTALL") THEN "postStat" ELSE "post"
             status == IF timedOut THEN "FAILED_TIMEOUT" ELSE base
  <2>1. base \notin Unsupported /\ status \notin Unsupported
    BY DEF S!ExitStatus, Unsupported
  <2>2. next \in {"post", "postStat"}
    OBVIOUS
  <2>3. \/ S!Finish(status, FALSE)
        \/ job' = [job EXCEPT !.pc = next, !.base = IF S!Running("INSTALL") THEN base ELSE "",
                              !.clean = exit = "0", !.timedOut = timedOut, !.fresh = FALSE]
    BY <1>5 DEF S!AfterChild
  <2> HIDE DEF base, next, status
  <2>4. job'.pc = next \/ (job'.pc = "idle" /\ last'.status = status)
    BY <1>1, <1>2, <2>3 DEF JobIs
  <2> QED BY <2>1, <2>2, <2>4 DEF MayBeRefused
<1>6. CASE S!EgressVerify \/ S!PreDetect \/ S!PreProbe
  <2>1. (\E status \in {"FAILED_EGRESS", "FAILED_VERIFICATION", "SUCCEEDED_NOOP", "SKIP_ALREADY_ABSENT",
                        "FAILED_PREEXISTING_VERSION_CONFLICT", "FAILED_PRECHECK_INCONCLUSIVE"} :
           \E isFresh : S!Finish(status, isFresh)) \/ \E pc \in {"pre", "launch"} : S!Move(pc)
    BY <1>6 DEF S!EgressVerify, S!PreDetect, S!PreProbe, S!Answer, S!Goto
  <2> QED BY <1>2, <1>3, <2>1 DEF MayBeRefused, Unsupported
<1>7. CASE S!Stat
  <2>1. \E pc \in {"pre", "post"} : \E stat : job' = [job EXCEPT !.pc = pc, !.stat = stat, !.fresh = TRUE]
    BY <1>1, <1>7 DEF S!Stat, JobIs
  <2>2. job'.pc \in {"pre", "post"}
    BY <1>1, <2>1 DEF JobIs
  <2> QED BY <2>2 DEF MayBeRefused
<1>8. CASE S!Launch \/ S!Reap \/ S!GiveUp
  <2>1. CASE S!Move("wait")
    BY <1>3, <2>1 DEF MayBeRefused
  <2> QED BY <1>5, <1>8, <2>1 DEF S!Launch, S!Reap, S!GiveUp
<1>9. CASE S!PostDetect
  <2>1. \E isFresh : S!Finish(job.base, isFresh) \/ S!Finish("FAILED_VERIFICATION", isFresh)
    BY <1>9 DEF S!PostDetect, S!Answer
  <2> QED BY <1>2, <2>1 DEF MayBeRefused, Unsupported
<1>10. CASE S!PostProbe
  <2>1. \E state, isFresh : S!Finish(S!UninstallStatus(state), isFresh)
    BY <1>10 DEF S!PostProbe, S!Answer
  <2>2. \A state : S!UninstallStatus(state) \notin Unsupported
    BY DEF S!UninstallStatus, Unsupported
  <2> QED BY <1>2, <2>1, <2>2 DEF MayBeRefused
<1> QED BY <1>4, <1>6, <1>7, <1>8, <1>9, <1>10 DEF S!Agent

\* The status a job brings along from the child is none of those either.
LEMMA BaseStays ==
  ASSUME SInv, [S!Next]_(S!software), job.pc # "idle" => job.base \notin Unsupported
  PROVE  job'.pc # "idle" => job'.base \notin Unsupported
<1>1. CASE UNCHANGED job
  BY <1>1
<1>2. ASSUME NEW req, S!Begin(req) PROVE job'.base = ""
  BY <1>2 DEF S!Begin
<1>3. ASSUME NEW status, NEW isFresh, S!Finish(status, isFresh) PROVE job'.pc = "idle"
  BY <1>3, IdleIs DEF S!Finish
<1>4. ASSUME NEW pc, S!Move(pc), JobIs(job) PROVE job'.base = job.base
  BY <1>4 DEF S!Move, JobIs
<1>5. ASSUME NEW exit, NEW timedOut, NEW reboot, S!AfterChild(exit, timedOut, reboot), JobIs(job)
      PROVE  job'.pc # "idle" => job'.base \notin Unsupported
  <2> DEFINE base == S!ExitStatus(exit, reboot)
             kept == IF S!Running("INSTALL") THEN base ELSE ""
             next == IF S!NeedsStat(job.req.rule) /\ S!Running("UNINSTALL") THEN "postStat" ELSE "post"
             status == IF timedOut THEN "FAILED_TIMEOUT" ELSE base
  <2>1. kept \notin Unsupported
    BY DEF S!ExitStatus, Unsupported
  <2>2. \/ S!Finish(status, FALSE)
        \/ job' = [job EXCEPT !.pc = next, !.base = kept, !.clean = exit = "0", !.timedOut = timedOut, !.fresh = FALSE]
    BY <1>5 DEF S!AfterChild
  <2> HIDE DEF kept, next, status
  <2>3. job'.base = kept \/ job'.pc = "idle"
    BY <1>3, <1>5, <2>2 DEF JobIs
  <2> QED BY <2>1, <2>3
<1>6. CASE S!Agent
  <2>1. JobIs(job)
    <3>1. job.pc # "idle"
      BY <1>6 DEF S!Agent, S!Refuse, S!LocateExecutable, S!EgressVerify, S!PreDetect, S!Stat, S!PreProbe,
             S!Launch, S!Reap, S!GiveUp, S!PostDetect, S!PostProbe
    <3> QED BY <3>1, IdleIs DEF SInv
  <2>2. CASE S!Stat
    <3>1. \E pc \in {"pre", "post"} : \E stat : job' = [job EXCEPT !.pc = pc, !.stat = stat, !.fresh = TRUE]
      BY <2>1, <2>2 DEF S!Stat, JobIs
    <3> QED BY <2>1, <3>1, IdleIs DEF JobIs
  <2>3. CASE ~S!Stat
    <3>1. \/ \E status, isFresh : S!Finish(status, isFresh)
          \/ \E pc : S!Move(pc)
          \/ \E exit, timedOut, reboot : S!AfterChild(exit, timedOut, reboot)
      BY <1>6, <2>3 DEF S!Agent, S!Refuse, S!LocateExecutable, S!EgressVerify, S!PreDetect, S!PreProbe,
         S!Launch, S!Reap, S!GiveUp, S!PostDetect, S!PostProbe, S!Answer, S!Goto
    <3> QED BY <1>3, <1>4, <1>5, <2>1, <3>1, IdleIs DEF JobIs
  <2> QED BY <2>2, <2>3
<1>7. ASSUME NEW h, S!Changed(h) PROVE job' = job \/ (JobIs(job) /\ job' = [job EXCEPT !.fresh = FALSE])
  BY <1>7, IdleIs DEF S!Changed, SInv
<1>8. CASE S!ChildWorks \/ S!Others
  <2>1. \E h : S!Changed(h)
    BY <1>8 DEF S!ChildWorks, S!Others
  <2> QED BY <1>7, <2>1 DEF JobIs
<1> QED BY <1>1, <1>2, <1>6, <1>8 DEF S!Next, S!software, S!ChildExits, S!OrphanEnds, S!Deadline, S!ServiceStops, Unsupported

\* A display policy is never refused for the system it runs on.
LEMMA ReportStatus ==
  ASSUME [D!Next]_(D!display), report.status # "FAILED_UNSUPPORTED_PLATFORM"
  PROVE  report'.status # "FAILED_UNSUPPORTED_PLATFORM"
<1>1. ASSUME NEW status, NEW sids, status # "FAILED_UNSUPPORTED_PLATFORM", D!Report(status, sids)
      PROVE  report'.status # "FAILED_UNSUPPORTED_PLATFORM"
  BY <1>1 DEF D!Report
<1>2. CASE UNCHANGED report
  BY <1>2
<1>3. CASE D!Apply
  <2>1. \A failures, n : D!FinalStatus(failures, n) # "FAILED_UNSUPPORTED_PLATFORM"
    BY DEF D!FinalStatus
  <2>2. D!NoTarget # "FAILED_UNSUPPORTED_PLATFORM"
    BY DEF D!NoTarget
  <2> QED BY <1>1, <1>2, <1>3, <2>1, <2>2 DEF D!Apply, D!Refuse, D!Fetch, D!Commit, D!Enumerate, D!StatAsset,
        D!Write, D!Done, D!Step
<1> QED BY <1>2, <1>3 DEF D!Next, D!display, D!Crash, D!Begin, D!SignInOrOut

\* Nor is a change of an account.
LEMMA OutcomeStatus ==
  ASSUME [U!Next]_(U!users), outcome # "UNSUPPORTED"
  PROVE  outcome' # "UNSUPPORTED"
BY DEF U!Next, U!users, U!Agent, U!Refuse, U!Resolve, U!TargetFlags, U!Admins, U!List, U!ReadFlags, U!WriteFlags,
       U!SetPassword, U!Change, U!Begin, U!Step, U!Finish, U!Fail

LEMMA StatusesAre ==
  ASSUME CInv, NEW status \in Statuses(command.type)
  PROVE  /\ status \in {"SUCCEEDED", "PARTIAL", "FAILED", "UNSUPPORTED"}
         /\ status = "UNSUPPORTED" => command.type \in Installs /\ last.status \in Unsupported
<1>1. \A ok, unsupported, s : Truth(ok, unsupported, s) \in {"SUCCEEDED", "UNSUPPORTED", "FAILED"}
                              /\ (Truth(ok, unsupported, s) = "UNSUPPORTED" => s \in unsupported)
  BY DEF Truth
<1>2. CASE command.type = "INSTALL_SOFTWARE"
  BY <1>1, <1>2 DEF Statuses, Mutates, Installs, MapInstallStatus, Unsupported
<1>3. CASE command.type = "UNINSTALL_SOFTWARE"
  BY <1>1, <1>3 DEF Statuses, Mutates, Installs, MapUninstallStatus, Unsupported
<1>4. CASE command.type = "SET_DISPLAY_POLICY"
  BY <1>1, <1>4 DEF Statuses, Mutates, MapDisplayPolicyStatus, CInv
<1>5. CASE command.type \in Mutates
  BY <1>1, <1>5 DEF Statuses, Mutates, CInv
<1>6. CASE command.type = "UPDATE_AGENT"
  BY <1>1, <1>6 DEF Statuses, Mutates, MapUpdateStageStatus
<1>7. CASE command.type = "RENEW_TPM_CERTIFICATE"
  BY <1>1, <1>7 DEF Statuses, Mutates
<1>8. CASE command.type \notin {"INSTALL_SOFTWARE", "UNINSTALL_SOFTWARE", "SET_DISPLAY_POLICY", "UPDATE_AGENT",
                                "RENEW_TPM_CERTIFICATE"} \cup Mutates
  BY <1>8 DEF Statuses, Mutates
<1> QED BY <1>2, <1>3, <1>4, <1>5, <1>6, <1>7, <1>8

\* When nothing is under way, no part is.
LEMMA AllAreIdle ==
  ASSUME Owned, command = NoCommand
  PROVE  Idle
BY NamesDiffer DEF Owned, Idle, Mutates

LEMMA ExecuteOwns ==
  ASSUME CInv, NEW c \in Sent, Execute(c)
  PROVE  Owned' /\ (command' = NoCommand \/ CommandIs(command')) /\ (result' = NoResult \/ Answered(result'))
         /\ (command'.type \in Installs => ~command'.touched)
<1>1. command = NoCommand /\ Owned /\ theme' = theme /\ build' = build
  BY DEF Execute, CInv
<1>2. CASE Refusal(c) # "" \/ ctx.parent # "live"
  <2>1. command' = NoCommand /\ AllStill
    BY <1>2 DEF Execute
  <2>2. Owned'
    BY <1>1, <2>1 DEF Owned, AllStill, software, display, users, staging, backup, inventory, renewals
  <2>3. Refusal(c) \in {"", "FAILED", "EXPIRED", "UNSUPPORTED"}
    BY DEF Refusal, Validate, Dispatched
  <2>4. result'.status \in {"FAILED", "EXPIRED", "UNSUPPORTED"} /\ ~result'.touched
    <3> DEFINE status == IF Refusal(c) # "" THEN Refusal(c) ELSE "FAILED"
    <3>1. status \in {"FAILED", "EXPIRED", "UNSUPPORTED"}
      BY <2>3
    <3>2. result' = [status |-> status, type |-> c.type, touched |-> FALSE]
      BY <1>2 DEF Execute
    <3> HIDE DEF status
    <3> QED BY <3>1, <3>2
  <2> QED BY <2>1, <2>2, <2>4, NamesDiffer DEF Answered
<1>3. CASE Refusal(c) = "" /\ ctx.parent = "live"
  <2>1. command'.type = c.type /\ command'.touched = FALSE /\ DOMAIN command' = {"type", "touched"}
        /\ result' = NoResult /\ Enter(c)
    <3>1. command' = [type |-> c.type, touched |-> FALSE] /\ result' = NoResult /\ Enter(c)
      BY <1>3 DEF Execute
    <3> QED BY <3>1
  <2>2. c.type \in theme.types \cap Capabilities(build)
    BY <1>3 DEF Execute, Refusal, Validate
  <2>3. CommandIs(command')
    BY <1>1, <2>1, <2>2 DEF CommandIs
  <2>4. Idle
    BY <1>1, AllAreIdle
  <2>5. Owned'
    <3> USE DEF Owned, software, display, users, staging, backup, inventory, renewals
    <3>1. CASE c.type \in Installs /\ OnlySoftware
      BY <2>1, <2>4, <3>1 DEF OnlySoftware, Idle
    <3>2. CASE c.type = "SET_DISPLAY_POLICY" /\ OnlyDisplay
      BY <2>1, <2>4, <3>2 DEF OnlyDisplay, Idle
    <3>3. CASE c.type \in Mutates /\ OnlyUsers
      BY <2>1, <2>4, <3>3 DEF OnlyUsers, Idle
    <3>4. CASE c.type = "UPDATE_AGENT" /\ OnlyStaging
      BY <2>1, <2>4, <3>4 DEF OnlyStaging, Idle
    <3>5. CASE c.type = "COLLECT_BACKUP_DRYRUN" /\ OnlyBackup
      BY <2>1, <2>4, <3>5 DEF OnlyBackup, Idle
    <3>6. CASE c.type = "COLLECT_INVENTORY" /\ OnlyInventory
      BY <2>1, <2>4, <3>6 DEF OnlyInventory, Idle
    <3>7. CASE c.type = "RENEW_TPM_CERTIFICATE" /\ OnlyRenewals
      BY <2>1, <2>4, <3>7 DEF OnlyRenewals, Idle
    <3>8. CASE AllStill
      BY <2>1, <2>4, <3>8 DEF AllStill, Idle
    <3> QED BY <2>1, <3>1, <3>2, <3>3, <3>4, <3>5, <3>6, <3>7, <3>8 DEF Enter
  <2> QED BY <2>1, <2>3, <2>5
<1> QED BY <1>2, <1>3

LEMMA AgentOwns ==
  ASSUME CInv, SInv, Agent
  PROVE  Owned' /\ CommandIs(command') /\ result' = result
         /\ (command'.type \in Installs /\ MayBeRefused' => ~command'.touched)
<1>1. CommandIs(command) /\ theme' = theme /\ build' = build /\ result' = result
  BY DEF Agent, Working, CInv
<1>2. command' = [command EXCEPT !.touched = @ \/ Touchable' # Touchable]
  BY DEF Agent, Working
<1>3. CommandIs(command') /\ command'.type = command.type
      /\ command'.touched = (command.touched \/ Touchable' # Touchable)
  BY <1>1, <1>2 DEF CommandIs
<1> USE DEF software, display, users, staging, backup, inventory, renewals
<1>4. CASE S!Agent /\ OnlySoftware
  <2>1. job.pc # "idle"
    BY <1>4 DEF S!Agent, S!Refuse, S!LocateExecutable, S!EgressVerify, S!PreDetect, S!Stat, S!PreProbe,
           S!Launch, S!Reap, S!GiveUp, S!PostDetect, S!PostProbe
  <2>2. Owned'
    BY <1>3, <1>4, <2>1 DEF CInv, Owned, OnlySoftware
  <2>3. ASSUME MayBeRefused', command.type \in Installs PROVE ~command'.touched
    <3>1. MayBeRefused /\ UNCHANGED << proc, orphans >>
      BY <1>4, <2>1, <2>3, RefusedEarly DEF CInv
    <3>2. Touchable' = Touchable
      BY <1>4, <3>1 DEF Touchable, OnlySoftware
    <3> QED BY <1>3, <2>3, <3>1, <3>2 DEF CInv
  <2> QED BY <1>1, <1>3, <2>2, <2>3
<1>5. CASE D!Apply /\ OnlyDisplay
  <2>1. order.pc # "idle"
    BY <1>5 DEF D!Apply, D!Refuse, D!Fetch, D!Commit, D!Enumerate, D!StatAsset, D!Write, D!Done
  <2>2. command.type = "SET_DISPLAY_POLICY"
    BY <2>1 DEF CInv, Owned
  <2> QED BY <1>1, <1>3, <1>5, <2>2 DEF CInv, Owned, OnlyDisplay, Installs
<1>6. CASE U!Agent /\ OnlyUsers
  <2>1. mutation.pc # "idle"
    BY <1>6 DEF U!Agent, U!Refuse, U!Resolve, U!TargetFlags, U!Admins, U!List, U!ReadFlags, U!WriteFlags, U!SetPassword
  <2>2. command.type \in Mutates
    BY <2>1 DEF CInv, Owned
  <2> QED BY <1>1, <1>3, <1>6, <2>2 DEF CInv, Owned, OnlyUsers, Installs, Mutates
<1>7. CASE P!Stage /\ OnlyStaging
  <2>1. update.pc # "idle"
    BY <1>7 DEF P!Stage, P!Judge, P!Unreadable, P!Download, P!Verify, P!Commit, P!WritePlan
  <2>2. command.type = "UPDATE_AGENT"
    BY <2>1 DEF CInv, Owned
  <2> QED BY <1>1, <1>3, <1>7, <2>2 DEF CInv, Owned, OnlyStaging, Installs
<1>8. CASE B!Walk /\ OnlyBackup
  <2>1. scan.pc # "idle"
    BY <1>8 DEF B!Walk, B!NextRoot, B!Complete, B!List, B!NextName, B!Attributes, B!Open, B!Judge
  <2>2. command.type = "COLLECT_BACKUP_DRYRUN"
    BY <2>1 DEF CInv, Owned
  <2> QED BY <1>1, <1>3, <1>8, <2>2 DEF CInv, Owned, OnlyBackup, Installs
<1>9. CASE I!Agent /\ OnlyInventory
  <2>1. block # I!NoBlock
    BY <1>9 DEF I!Agent, I!Read, I!Conclude
  <2>2. command.type = "COLLECT_INVENTORY"
    BY <2>1 DEF CInv, Owned
  <2> QED BY <1>1, <1>3, <1>9, <2>2 DEF CInv, Owned, OnlyInventory, Installs
<1>10. CASE R!Agent /\ OnlyRenewals
  <2>1. child.pc # "none"
    BY <1>10 DEF R!Agent, R!OpenDevice, R!Keys, R!PostNonce, R!Prove, R!PostAttest, R!OpenFile,
                 R!WriteFile, R!Classify, R!Judge
  <2>2. command.type = "RENEW_TPM_CERTIFICATE"
    BY <2>1, NoChildIs DEF CInv, Owned
  <2> QED BY <1>1, <1>3, <1>10, <2>2 DEF CInv, Owned, OnlyRenewals, Installs
<1> QED BY <1>4, <1>5, <1>6, <1>7, <1>8, <1>9, <1>10 DEF Agent

LEMMA HostOwns ==
  ASSUME CInv, SInv, Host \/ Deadline
  PROVE  Owned' /\ UNCHANGED << theme, build, command, result >> /\ (MayBeRefused' => MayBeRefused)
<1> USE DEF software, display, users, staging, backup, inventory, renewals
<1>1. UNCHANGED << theme, build, command, result >>
  BY DEF Host, Deadline, executor
<1>2. ASSUME NEW h, S!Changed(h) PROVE job'.pc = job.pc /\ last' = last
  <2>1. job' = job \/ (JobIs(job) /\ job' = [job EXCEPT !.fresh = FALSE])
    BY <1>2, IdleIs DEF S!Changed, SInv
  <2>2. JobIs(job) /\ job' = [job EXCEPT !.fresh = FALSE] => job'.pc = job.pc
    BY DEF JobIs
  <2> QED BY <1>2, <2>1, <2>2 DEF S!Changed
<1>3. CASE OnlySoftware /\ (S!ChildWorks \/ S!ChildExits \/ S!OrphanEnds \/ S!Others \/ S!Deadline \/ S!ServiceStops)
  <2>1. job'.pc = job.pc /\ last' = last
    BY <1>2, <1>3 DEF S!ChildWorks, S!ChildExits, S!OrphanEnds, S!Others, S!Deadline, S!ServiceStops
  <2> QED BY <1>1, <1>3, <2>1 DEF CInv, Owned, OnlySoftware, MayBeRefused
<1>4. CASE OnlyDisplay /\ \E s \in Sids : D!SignInOrOut(s)
  BY <1>1, <1>4 DEF CInv, Owned, OnlyDisplay, D!SignInOrOut, MayBeRefused
<1>5. CASE U!Change /\ OnlyUsers
  BY <1>1, <1>5 DEF CInv, Owned, OnlyUsers, U!Change, MayBeRefused
<1>6. CASE B!Edit /\ OnlyBackup
  BY <1>1, <1>6 DEF CInv, Owned, OnlyBackup, B!Edit, MayBeRefused
<1>7. CASE (I!RunOut \/ I!Turn) /\ OnlyInventory
  <2>1. block' = block \/ block # I!NoBlock
    <3>1. I!NoBlock.of \notin I!Timed
      BY DEF I!NoBlock, I!Timed
    <3> QED BY <1>7, <3>1 DEF I!RunOut, I!Turn
  <2> QED BY <1>1, <1>7, <2>1 DEF CInv, Owned, OnlyInventory, MayBeRefused
<1>8. CASE R!Expire /\ OnlyRenewals
  <2>1. child # R!NoChild
    BY <1>8 DEF R!Expire
  <2> QED BY <1>1, <1>8, <2>1 DEF CInv, Owned, OnlyRenewals, MayBeRefused
<1>9. CASE P!Aside /\ OnlyStaging
  BY <1>1, <1>9 DEF CInv, Owned, OnlyStaging, P!Aside, P!Prepare, P!Mark, P!InPlace, MayBeRefused
<1> QED BY <1>3, <1>4, <1>5, <1>6, <1>7, <1>8, <1>9 DEF Host, Deadline

LEMMA StopOwns ==
  ASSUME CInv, Stopped
  PROVE  Owned' /\ UNCHANGED << theme, build, result >> /\ command' = NoCommand
<1> USE DEF software, display, users, staging, backup, inventory, renewals
<1>1. UNCHANGED << theme, build, result >> /\ command' = NoCommand /\ Owned
  BY DEF Stopped, CInv
<1>2. CASE D!Crash /\ OnlyDisplay
  <2>1. command.type = "SET_DISPLAY_POLICY" /\ order' = D!NoOrder
    BY <1>1, <1>2 DEF D!Crash, Owned
  <2> QED BY <1>1, <1>2, <2>1, NamesDiffer DEF Owned, OnlyDisplay, Installs, Mutates
<1>3. CASE OnlyStaging /\ command.type \in {"none", "UPDATE_AGENT"} /\ P!Swap
  <2>1. update' = P!NoJob
    BY <1>3 DEF P!Swap, P!Activate, P!Reinstall
  <2> QED BY <1>1, <1>3, <2>1, NamesDiffer DEF Owned, OnlyStaging, Installs, Mutates
<1>4. CASE B!Abandon /\ OnlyBackup
  <2>1. command.type = "COLLECT_BACKUP_DRYRUN" /\ scan' = B!NoScan
    BY <1>1, <1>4 DEF B!Abandon, Owned
  <2> QED BY <1>1, <1>4, <2>1, NamesDiffer DEF Owned, OnlyBackup, Installs, Mutates
<1>5. CASE I!Abandon /\ OnlyInventory
  <2>1. command.type = "COLLECT_INVENTORY" /\ block' = I!NoBlock
    BY <1>1, <1>5 DEF I!Abandon, Owned
  <2> QED BY <1>1, <1>5, <2>1, NamesDiffer DEF Owned, OnlyInventory, Installs, Mutates
<1> QED BY <1>2, <1>3, <1>4, <1>5 DEF Stopped

LEMMA ReportOwns ==
  ASSUME CInv, Report
  PROVE  Owned' /\ UNCHANGED << theme, build >> /\ command' = NoCommand /\ Answered(result')
<1>1. AllStill /\ UNCHANGED << theme, build >> /\ command' = NoCommand /\ Idle /\ CommandIs(command)
  BY DEF Report, Answer, CInv
<1>2. Owned'
  BY <1>1 DEF AllStill, Idle, Owned, software, display, users, staging, backup, inventory, renewals
<1>3. PICK status \in Statuses(command.type) :
        result' = [status |-> status, type |-> command.type, touched |-> command.touched]
  BY DEF Report, Answer
<1>4. result'.status = status /\ result'.touched = command.touched
  BY <1>3
<1>5. status = "UNSUPPORTED" => ~command.touched
  BY <1>1, <1>3, StatusesAre DEF Idle, CInv, MayBeRefused
<1>6. status \in {"SUCCEEDED", "PARTIAL", "FAILED", "UNSUPPORTED"}
  BY <1>3, StatusesAre
<1> QED BY <1>1, <1>2, <1>4, <1>5, <1>6 DEF Answered

LEMMA CommandsStep ==
  ASSUME CInv, SInv, [Next]_commands
  PROVE  CInv'
<1>1. /\ job'.pc # "idle" => job'.base \notin Unsupported
      /\ report'.status # "FAILED_UNSUPPORTED_PLATFORM" /\ outcome' # "UNSUPPORTED"
  BY EachPartMoves, BaseStays, ReportStatus, OutcomeStatus DEF CInv
<1>2. theme' \in Themes /\ build' \in Builds
  BY AgentOwns, HostOwns, StopOwns, ReportOwns DEF CInv, Next, commands, executor, Execute, Agent, Working
<1>3. CASE UNCHANGED commands
  BY <1>3 DEF CInv, Owned, CommandIs, MayBeRefused, Answered, commands, executor, software, display, users, staging,
              backup, inventory, renewals
<1>4. ASSUME NEW c \in Sent, Execute(c) PROVE CInv'
  <2>1. Owned' /\ (command' = NoCommand \/ CommandIs(command')) /\ (result' = NoResult \/ Answered(result'))
        /\ (command'.type \in Installs => ~command'.touched)
    BY <1>4, ExecuteOwns
  <2>2. theme' = theme /\ build' = build
    BY <1>4 DEF Execute
  <2> QED BY <1>1, <1>2, <2>1, <2>2 DEF CInv, CommandIs, Answered
<1>5. CASE Report
  BY <1>1, <1>2, <1>5, ReportOwns, NamesDiffer DEF CInv, Answered
<1>6. CASE Agent
  <2>1. theme' = theme /\ build' = build
    BY <1>6 DEF Agent, Working
  <2> QED BY <1>1, <1>2, <1>6, <2>1, AgentOwns DEF CInv, CommandIs, Answered
<1>7. CASE Host \/ Deadline
  BY <1>1, <1>2, <1>7, HostOwns DEF CInv, CommandIs, Answered
<1>8. CASE Stopped
  BY <1>1, <1>2, <1>8, StopOwns, NamesDiffer DEF CInv, Answered
<1> QED BY <1>3, <1>4, <1>5, <1>6, <1>7, <1>8 DEF Next

LEMMA CommandsInvariant == Spec => []CInv
BY CommandsInit, CommandsStep, SoftwareInvariant, PTL DEF Spec

(* The executor has one command at a time, of a type of this behaviour that  *)
(* its build announces; no part is at work without one; and what it answers  *)
(* is one of the five statuses the backend knows.                            *)
THEOREM TypeCorrect == Spec => []TypeOK
<1>1. CInv => TypeOK
  BY AllAreIdle DEF CInv, TypeOK, CommandIs, Answered
<1> QED BY <1>1, CommandsInvariant, PTL

(* A command answered as unsupported or expired has not touched the machine: *)
(* the claim, the build and the payload are looked at before a part begins,  *)
(* and a part that answers so answers before its first step on the machine.  *)
THEOREM UnsupportedIsUntouched == Spec => []UnsupportedUntouched
<1>1. CInv => UnsupportedUntouched
  BY DEF CInv, UnsupportedUntouched, Answered
<1> QED BY <1>1, CommandsInvariant, PTL

-----------------------------------------------------------------------------
(* SET_DISPLAY_POLICY. A wallpaper is in the store from the commit on, and a *)
(* hive the order is done with holds what the order wants, unless a value    *)
(* failed, which is counted, or somebody has signed in or out.               *)
HivesAre ==
  /\ DOMAIN hive = Sids
  /\ \A s \in Sids : DOMAIN hive[s] = {"loaded", "screensaver", "wallpaper"}

OrderIs(o) ==
  /\ DOMAIN o = {"pc", "of", "got", "sids", "left", "part", "hadErr", "failures", "at"}
  /\ o.pc \in {"refuse", "fetch", "commit", "enumerate", "stat", "write", "done"}
  /\ o.part \in {"screensaver", "wallpaper"} /\ o.hadErr \in BOOLEAN /\ o.failures \in Nat
  /\ o.sids \subseteq Sids /\ o.left \subseteq o.sids
  /\ o.at \in Nat /\ o.at <= nSignIns

InStore(w) == \E c \in store : c.sum = w.sum /\ c.magic = w.type
Wants(part) == D!Wanted(order.of, part).state # "as it was"
Has(s, part) == Wants(part) => hive[s][part] = D!Wanted(order.of, part)
\* The hive the next value is written into.
Turn == CHOOSE s \in order.left : TRUE

\* How far an order has come while nobody has signed in or out.
Written ==
  /\ \A s \in order.sids : hive[s].loaded
  /\ order.failures = 0 => \A s \in order.sids \ order.left : Has(s, "screensaver") /\ Has(s, "wallpaper")
  /\ order.part = "wallpaper" /\ ~order.hadErr => Has(Turn, "screensaver")

DInv ==
  /\ HivesAre /\ nOrders \in Nat /\ nSignIns \in Nat /\ store \subseteq Contents
  /\ order = D!NoOrder \/ OrderIs(order)
  /\ order.pc = "commit" => /\ order.got \in Contents /\ order.got.sum = order.of.wallpaper.sum
                            /\ order.got.magic = order.of.wallpaper.type
  /\ order.pc \in {"enumerate", "stat", "write", "done"} /\ D!NeedsAsset(order.of) => InStore(order.of.wallpaper)
  /\ order.pc \in {"stat", "write"} => order.left # {}
  /\ order.pc \in {"fetch", "commit", "enumerate", "stat"} => order.part = "screensaver" /\ order.failures = 0
  /\ order.pc = "done" => order.left = {} /\ order.part = "screensaver"
  /\ order.pc \in {"stat", "write", "done"} /\ order.at = nSignIns => Written
  /\ report.status # "none" => /\ report.n \in Nat /\ report.n <= nOrders
                               /\ order.pc # "idle" => report.n < nOrders
                               /\ report.at \in Nat /\ report.at <= nSignIns
  /\ D!PolicyHolds /\ D!WallpaperVerified

LEMMA NoOrderIs == D!NoOrder.pc = "idle"
BY DEF D!NoOrder

LEMMA WantedGives ==
  ASSUME NEW o, NEW part
  PROVE  LET want == D!Wanted(o, part) IN
         \/ want = D!Unset /\ want.state = "unset"
         \/ want = o[part] /\ want.state = "enabled" /\ o.op # "CLEAR" /\ o[part].state = "enabled"
         \/ want.state = "as it was"
BY DEF D!Wanted, D!Unset

LEMMA DisplayInit == D!Init => DInv
<1> SUFFICES ASSUME D!Init PROVE DInv
  OBVIOUS
<1>1. HivesAre /\ \A s \in Sids : hive[s].wallpaper.state = "unset"
  BY DEF D!Init, HivesAre, D!Unset
<1>2. order = D!NoOrder /\ order.pc = "idle" /\ store = {} /\ report.status = "none" /\ nOrders = 0 /\ nSignIns = 0
  BY NoOrderIs DEF D!Init
<1>3. D!PolicyHolds /\ D!WallpaperVerified
  BY <1>1, <1>2 DEF D!PolicyHolds, D!WallpaperVerified
<1> QED BY <1>1, <1>2, <1>3 DEF DInv

\* A report ends the order.
LEMMA ReportsWell ==
  ASSUME DInv, OrderIs(order), NEW status, NEW sids, D!Report(status, sids),
         UNCHANGED hive, store' \subseteq Contents, D!WallpaperVerified',
         status = "SUCCEEDED" => \/ sids = {}
                                 \/ /\ sids = order.sids
                                    /\ order.at = nSignIns => \A s \in sids : Has(s, "screensaver") /\ Has(s, "wallpaper")
  PROVE  DInv'
<1>1. /\ report'.status = status /\ report'.order = order.of /\ report'.sids = sids /\ report'.at = order.at
      /\ report'.n = nOrders /\ order' = D!NoOrder /\ UNCHANGED << nOrders, nSignIns >>
  BY DEF D!Report
<1>2. D!PolicyHolds'
  BY <1>1 DEF D!PolicyHolds, D!Holds, Has, Wants
<1> QED BY <1>1, <1>2, NoOrderIs DEF DInv, HivesAre, OrderIs

\* A commit takes a wallpaper away only to put the same content in its place.
LEMMA CommitKeeps ==
  ASSUME DInv, NEW got \in Contents, store' = {c \in store : c.sum # got.sum} \cup {got}, NEW w, InStore(w)
  PROVE  InStore(w)'
<1>1. PICK c \in store : c.sum = w.sum /\ c.magic = w.type
  BY DEF InStore
<1>2. CASE c.sum = got.sum
  <2>1. got.magic = c.magic
    BY <1>1, <1>2, CommandsAssumption DEF D!DisplayAssumption, DInv
  <2> QED BY <1>1, <1>2, <2>1 DEF InStore
<1>3. CASE c.sum # got.sum
  BY <1>1, <1>3 DEF InStore
<1> QED BY <1>2, <1>3

LEMMA WriteWell ==
  ASSUME DInv, D!Write
  PROVE  DInv'
<1> DEFINE want == D!Wanted(order.of, order.part)
<1>1. OrderIs(order) /\ order.pc = "write" /\ order.left # {} /\ HivesAre
  BY NoOrderIs DEF D!Write, DInv
<1>2. Turn \in order.left /\ Turn \in Sids
  BY <1>1 DEF Turn, OrderIs
<1>3. PICK w \in D!WriteGroup(hive[Turn], order.part, want) :
        /\ hive' = [hive EXCEPT ![Turn][order.part] = w.now]
        /\ IF order.part = "screensaver"
           THEN order' = [order EXCEPT !.part = "wallpaper", !.hadErr = w.err]
           ELSE order' = [order EXCEPT !.part = "screensaver", !.hadErr = FALSE, !.left = @ \ {Turn},
                                       !.failures = @ + (IF w.err \/ order.hadErr THEN 1 ELSE 0),
                                       !.pc = IF order.left = {Turn} THEN "done" ELSE "write"]
  BY DEF D!Write, Turn
<1>4. /\ w.err \in BOOLEAN
      /\ w.now \in {hive[Turn][order.part], want, D!Mixed}
      /\ ~w.err /\ hive[Turn].loaded /\ want.state # "as it was" => w.now = want
  <2> DEFINE h == hive[Turn]
             GoesWith(now, err) == /\ now \in {h[order.part], want, D!Mixed} /\ err \in BOOLEAN
                                   /\ ~err /\ h.loaded /\ want.state # "as it was" => now = want
  <2> HIDE DEF want, h
  <2>1. \E now, err : w = [now |-> now, err |-> err] /\ GoesWith(now, err)
    <3>1. CASE want.state = "as it was"
      BY <3>1 DEF D!WriteGroup, h
    <3>2. CASE want.state # "as it was" /\ ~h.loaded
      <4>1. w = [now |-> h[order.part], err |-> want # D!Unset]
        BY <3>2 DEF D!WriteGroup, h
      <4>2. CASE want = D!Unset
        <5>1. w = [now |-> h[order.part], err |-> FALSE]
          BY <4>1, <4>2
        <5> QED BY <3>2, <5>1
      <4>3. CASE want # D!Unset
        <5>1. w = [now |-> h[order.part], err |-> TRUE]
          BY <4>1, <4>3
        <5> QED BY <5>1
      <4> QED BY <4>2, <4>3
    <3>3. CASE want.state # "as it was" /\ h.loaded
      <4>1. w \in {[now |-> want, err |-> FALSE], [now |-> h[order.part], err |-> TRUE],
                   [now |-> IF h[order.part] = want THEN want ELSE D!Mixed, err |-> TRUE]}
        BY <3>3 DEF D!WriteGroup, h
      <4> QED BY <4>1
    <3> QED BY <3>1, <3>2, <3>3
  <2>2. PICK now, err : w = [now |-> now, err |-> err] /\ GoesWith(now, err)
    BY <2>1
  <2>3. w.now = now /\ w.err = err
    BY <2>2
  <2> QED BY <2>2, <2>3 DEF h
<1>5. /\ HivesAre'
      /\ \A s \in Sids \ {Turn} : hive'[s] = hive[s]
      /\ \A part \in {"screensaver", "wallpaper", "loaded"} : part # order.part => hive'[Turn][part] = hive[Turn][part]
      /\ hive'[Turn][order.part] = w.now
  BY <1>1, <1>2, <1>3 DEF HivesAre, OrderIs
<1>6. UNCHANGED << store, report, nOrders, nSignIns >>
  BY DEF D!Write
<1>7. /\ OrderIs(order') /\ order'.of = order.of /\ order'.sids = order.sids /\ order'.at = order.at
      /\ order'.pc \in {"write", "done"}
      /\ order.part = "screensaver" => /\ order'.part = "wallpaper" /\ order'.hadErr = w.err /\ order'.pc = "write"
                                       /\ order'.left = order.left /\ order'.failures = order.failures
      /\ order.part = "wallpaper" => /\ order'.part = "screensaver" /\ order'.left = order.left \ {Turn}
                                     /\ order'.pc = "done" <=> order'.left = {}
                                     /\ order'.failures = 0 => order.failures = 0 /\ ~w.err /\ ~order.hadErr
  <2>1. CASE order.part = "screensaver"
    BY <1>1, <1>3, <1>4, <2>1 DEF OrderIs
  <2>2. CASE order.part = "wallpaper"
    <3> DEFINE more == IF w.err \/ order.hadErr THEN 1 ELSE 0
               pc == IF order.left = {Turn} THEN "done" ELSE "write"
    <3>1. order' = [order EXCEPT !.part = "screensaver", !.hadErr = FALSE, !.left = @ \ {Turn},
                                 !.failures = @ + more, !.pc = pc]
      BY <1>3, <2>2
    <3>2. more \in Nat /\ (more = 0 => ~w.err /\ ~order.hadErr) /\ pc \in {"write", "done"}
          /\ (pc = "done" <=> order.left \ {Turn} = {})
      BY <1>2
    <3> HIDE DEF more, pc
    <3>3. order'.failures = order.failures + more /\ order'.pc = pc /\ order'.part = "screensaver"
          /\ order'.left = order.left \ {Turn} /\ order'.of = order.of /\ order'.sids = order.sids
          /\ order'.at = order.at /\ order'.hadErr = FALSE /\ DOMAIN order' = DOMAIN order
      BY <1>1, <3>1 DEF OrderIs
    <3>4. order'.failures \in Nat /\ (order'.failures = 0 => order.failures = 0 /\ more = 0)
      BY <1>1, <3>2, <3>3 DEF OrderIs
    <3> QED BY <1>1, <1>6, <2>2, <3>2, <3>3, <3>4 DEF OrderIs
  <2> QED BY <1>1, <2>1, <2>2 DEF OrderIs
<1>8. D!WallpaperVerified'
  <2>1. SUFFICES ASSUME NEW s \in Sids, hive'[s].wallpaper.state = "enabled", hive'[s].wallpaper.managed
                 PROVE  InStore(hive'[s].wallpaper)
    BY <1>6 DEF D!WallpaperVerified, InStore
  <2>2. CASE hive'[s].wallpaper = hive[s].wallpaper
    BY <2>1, <2>2 DEF DInv, D!WallpaperVerified, InStore
  <2>3. CASE hive'[s].wallpaper # hive[s].wallpaper
    <3>1. s = Turn /\ order.part = "wallpaper" /\ hive'[s].wallpaper = w.now
      BY <1>1, <1>2, <1>5, <2>3 DEF OrderIs
    <3>2. w.now = want
      <4>1. D!Mixed.state = "mixed"
        BY DEF D!Mixed
      <4>2. w.now # hive[Turn][order.part]
        BY <2>3, <3>1
      <4> QED BY <1>4, <2>1, <3>1, <4>1, <4>2
    <3>3. want = order.of.wallpaper /\ order.of.wallpaper.state = "enabled" /\ order.of.wallpaper.managed
      BY <2>1, <3>1, <3>2, WantedGives DEF D!Unset
    <3> QED BY <1>1, <3>1, <3>2, <3>3 DEF DInv, D!NeedsAsset
  <2> QED BY <2>2, <2>3
<1>9. ASSUME order'.at = nSignIns PROVE Written'
  <2>1. Written
    BY <1>1, <1>7, <1>9 DEF DInv
  <2>2. \A s \in order.sids : hive'[s].loaded
    BY <1>1, <1>2, <1>5, <2>1 DEF Written, OrderIs
  <2>3. ASSUME NEW s \in order.sids \ order.left, order.failures = 0
        PROVE  Has(s, "screensaver")' /\ Has(s, "wallpaper")'
    <3>1. hive'[s] = hive[s]
      BY <1>1, <1>2, <1>5, <2>3 DEF OrderIs
    <3>2. Has(s, "screensaver") /\ Has(s, "wallpaper")
      BY <2>1, <2>3 DEF Written
    <3> QED BY <1>7, <3>1, <3>2 DEF Has, Wants
  <2>4. ~w.err => (want.state # "as it was" => hive'[Turn][order.part] = want)
    BY <1>1, <1>2, <1>4, <1>5, <2>1 DEF Written, OrderIs
  <2>5. CASE order.part = "screensaver"
    <3>1. Turn' = Turn
      BY <1>7, <2>5 DEF Turn
    <3> HIDE DEF Turn
    <3> QED BY <1>7, <2>2, <2>3, <2>4, <2>5, <3>1 DEF Written, Has, Wants
  <2>6. CASE order.part = "wallpaper"
    <3>1. ASSUME order'.failures = 0, NEW s \in order'.sids \ order'.left
          PROVE  Has(s, "screensaver")' /\ Has(s, "wallpaper")'
      <4>1. CASE s \in order.sids \ order.left
        BY <1>7, <2>3, <2>6, <3>1, <4>1
      <4>2. CASE s = Turn
        <5>1. ~w.err /\ ~order.hadErr
          BY <1>7, <2>6, <3>1
        <5>2. Has(Turn, "screensaver")
          BY <2>1, <2>6, <5>1 DEF Written
        <5> QED BY <1>1, <1>2, <1>5, <1>7, <2>4, <2>6, <4>2, <5>1, <5>2 DEF Has, Wants, OrderIs
      <4> QED BY <1>7, <2>6, <3>1, <4>1, <4>2
    <3> QED BY <1>7, <2>2, <2>6, <3>1 DEF Written
  <2> QED BY <1>1, <2>5, <2>6 DEF OrderIs
<1>10. /\ report.status # "none" => report.n < nOrders /\ report.n \in Nat
       /\ D!PolicyHolds'
  BY <1>1, <1>6 DEF DInv, D!PolicyHolds
<1> QED BY <1>1, <1>5, <1>6, <1>7, <1>8, <1>9, <1>10, NoOrderIs DEF DInv, OrderIs, InStore

\* An order that goes on without a write of a hive.
LEMMA StepsWell ==
  ASSUME DInv, OrderIs(order), OrderIs(order'), UNCHANGED << hive, report, nOrders, nSignIns >>,
         order'.pc \in {"commit", "enumerate", "stat", "write"}, order'.of = order.of,
         store' \subseteq Contents, D!WallpaperVerified',
         order'.part = "screensaver", order'.failures = 0,
         order'.pc = "commit" => /\ order'.got \in Contents /\ order'.got.sum = order.of.wallpaper.sum
                                 /\ order'.got.magic = order.of.wallpaper.type,
         order'.pc \in {"enumerate", "stat", "write"} /\ D!NeedsAsset(order.of) => InStore(order.of.wallpaper)',
         order'.pc \in {"stat", "write"} => order'.left # {} /\ (order'.at = nSignIns => Written')
  PROVE  DInv'
<1>1. order.pc # "idle"
  BY DEF OrderIs
<1>2. (report.status # "none" => report.n < nOrders /\ report.n \in Nat) /\ D!PolicyHolds'
  BY <1>1 DEF DInv, D!PolicyHolds
<1> QED BY <1>1, <1>2, NoOrderIs DEF DInv, OrderIs, HivesAre, InStore

LEMMA DisplayStep ==
  ASSUME DInv, [D!Next]_(D!display)
  PROVE  DInv'
<1>1. CASE UNCHANGED D!display
  <2>1. UNCHANGED << hive, store, order, report, nOrders, nSignIns >>
    BY <1>1 DEF D!display
  <2>2. D!PolicyHolds' /\ D!WallpaperVerified'
    BY <2>1 DEF DInv, D!PolicyHolds, D!WallpaperVerified
  <2>3. OrderIs(order) => OrderIs(order)'
    BY <2>1 DEF OrderIs
  <2>4. Written => Written'
    <3>1. Turn' = Turn
      BY <2>1 DEF Turn
    <3> QED BY <2>1, <3>1 DEF Written, Has, Wants
  <2> QED BY <2>1, <2>2, <2>3, <2>4 DEF DInv, HivesAre, InStore
<1>2. UNCHANGED << hive, store >> => D!WallpaperVerified'
  BY DEF DInv, D!WallpaperVerified
<1>3. ASSUME NEW o \in Orders, D!Begin(o) PROVE DInv'
  <2> DEFINE pc == IF ~D!Validate(o) THEN "refuse" ELSE IF D!NeedsAsset(o) THEN "fetch" ELSE "enumerate"
  <2>1. order' = [pc |-> pc, of |-> o, got |-> [sum |-> ""], sids |-> {}, left |-> {}, part |-> "screensaver",
                  hadErr |-> FALSE, failures |-> 0, at |-> nSignIns]
        /\ nOrders' = nOrders + 1 /\ UNCHANGED << hive, store, report, nSignIns >>
    BY <1>3 DEF D!Begin
  <2>2. pc \in {"refuse", "fetch", "enumerate"} /\ (pc = "enumerate" => ~D!NeedsAsset(o))
    OBVIOUS
  <2> HIDE DEF pc
  <2>3. order'.pc = pc /\ order'.of = o /\ order'.part = "screensaver" /\ order'.failures = 0
    BY <2>1
  <2>4. OrderIs(order)'
    <3>1. nSignIns \in Nat
      BY DEF DInv
    <3>2. /\ DOMAIN order' = {"pc", "of", "got", "sids", "left", "part", "hadErr", "failures", "at"}
          /\ order'.sids = {} /\ order'.left = {} /\ order'.hadErr = FALSE /\ order'.at = nSignIns
      BY <2>1
    <3>3. nSignIns' = nSignIns
      BY <2>1
    <3>4. order'.at \in Nat /\ order'.at <= nSignIns' /\ order'.failures \in Nat
      BY <2>3, <3>1, <3>2, <3>3
    <3>5. order'.pc \in {"refuse", "fetch", "enumerate"}
      BY <2>2, <2>3
    <3> QED BY <2>3, <3>2, <3>4, <3>5 DEF OrderIs
  <2>5. report.status # "none" => report.n \in Nat /\ report.n <= nOrders /\ report.at \in Nat /\ report.at <= nSignIns
    BY DEF DInv
  <2>6. nOrders \in Nat
    BY DEF DInv
  <2>7. report.status # "none" => report.n < nOrders + 1 /\ report.n # nOrders + 1
    BY <2>5, <2>6
  <2>8. D!PolicyHolds'
    <3>1. report.status = "SUCCEEDED" => report.n # nOrders'
      BY <2>1, <2>7
    <3> QED BY <2>1, <3>1 DEF D!PolicyHolds
  <2>9. nOrders' \in Nat /\ (report'.status # "none" => report'.n < nOrders' /\ report'.n <= nOrders')
    <3>1. report' = report /\ nOrders' = nOrders + 1
      BY <2>1
    <3> QED BY <2>5, <2>6, <2>7, <3>1
  <2>10. HivesAre' /\ nSignIns' \in Nat /\ store' \subseteq Contents
    BY <2>1 DEF DInv, HivesAre
  <2>11. order'.pc = "enumerate" /\ D!NeedsAsset(order'.of) => InStore(order.of.wallpaper)'
    BY <2>2, <2>3
  <2> QED BY <1>2, <2>1, <2>2, <2>3, <2>4, <2>5, <2>8, <2>9, <2>10, <2>11 DEF DInv
<1>4. CASE D!Crash
  <2>1. order' = D!NoOrder /\ UNCHANGED << hive, store, report, nOrders, nSignIns >> /\ OrderIs(order)
    BY <1>4, NoOrderIs DEF D!Crash, DInv
  <2>2. D!PolicyHolds'
    BY <2>1 DEF D!PolicyHolds, DInv
  <2> QED BY <1>2, <2>1, <2>2, NoOrderIs DEF DInv, HivesAre
<1>5. ASSUME NEW s \in Sids, D!SignInOrOut(s) PROVE DInv'
  <2>1. hive' = [hive EXCEPT ![s].loaded = ~@] /\ nSignIns' = nSignIns + 1 /\ UNCHANGED << store, order, report, nOrders >>
    BY <1>5 DEF D!SignInOrOut
  <2>2. nSignIns \in Nat /\ HivesAre
    BY DEF DInv
  <2>3. HivesAre' /\ \A t \in Sids : hive'[t].wallpaper = hive[t].wallpaper
    BY <2>1, <2>2 DEF HivesAre
  <2>4. D!WallpaperVerified'
    BY <2>1, <2>3 DEF DInv, D!WallpaperVerified
  <2>5. report.status # "none" => report.at # nSignIns'
    BY <2>1, <2>2 DEF DInv
  <2>6. D!PolicyHolds'
    BY <2>1, <2>5 DEF D!PolicyHolds
  <2>7. OrderIs(order) => OrderIs(order)' /\ order'.at # nSignIns'
    BY <2>1, <2>2 DEF OrderIs
  <2> QED BY <2>1, <2>2, <2>3, <2>4, <2>5, <2>6, <2>7, NoOrderIs DEF DInv, InStore
<1>6. ASSUME D!Apply PROVE DInv'
  <2>1. OrderIs(order) /\ order.pc # "idle"
    <3>1. order.pc # "idle"
      BY <1>6 DEF D!Apply, D!Refuse, D!Fetch, D!Commit, D!Enumerate, D!StatAsset, D!Write, D!Done
    <3> QED BY <3>1, NoOrderIs DEF DInv
  <2>2. store \subseteq Contents
    BY DEF DInv
  <2>3. ASSUME NEW status, status # "SUCCEEDED", NEW sids, D!Report(status, sids), UNCHANGED << hive, store >>
        PROVE  DInv'
    BY <1>2, <2>1, <2>2, <2>3, ReportsWell
  <2>4. CASE D!Refuse
    BY <2>3, <2>4 DEF D!Refuse
  <2>5. CASE D!Fetch
    <3>1. CASE D!Report("FAILED_ASSET", {})
      BY <2>3, <2>5, <3>1 DEF D!Fetch
    <3>2. CASE ~D!Report("FAILED_ASSET", {})
      <4>1. PICK c \in Contents : D!VerifyAsset(order.of.wallpaper, c) /\ order' = [order EXCEPT !.pc = "commit", !.got = c]
        BY <2>5, <3>2 DEF D!Fetch
      <4>2. UNCHANGED << hive, store, report, nOrders, nSignIns >> /\ order.pc = "fetch"
        BY <2>5, <3>2 DEF D!Fetch
      <4>3. OrderIs(order') /\ order'.pc = "commit" /\ order'.got = c /\ order'.of = order.of
            /\ order'.part = order.part /\ order'.failures = order.failures
        BY <2>1, <4>1 DEF OrderIs
      <4>4. order.part = "screensaver" /\ order.failures = 0
        BY <4>2 DEF DInv
      <4> QED BY <1>2, <2>1, <2>2, <4>1, <4>2, <4>3, <4>4, StepsWell DEF D!VerifyAsset
    <3> QED BY <3>1, <3>2
  <2>6. CASE D!Commit
    <3>1. order.got \in Contents /\ order.got.sum = order.of.wallpaper.sum /\ order.got.magic = order.of.wallpaper.type
          /\ hive' = hive /\ order.part = "screensaver" /\ order.failures = 0
      BY <2>6 DEF D!Commit, DInv
    <3>2. CASE store' = store /\ D!Report("FAILED_ASSET", {})
      BY <2>3, <3>1, <3>2
    <3>3. CASE store' = {c \in store : c.sum # order.got.sum} \cup {order.got}
      <4>1. D!WallpaperVerified'
        <5>1. \A w : InStore(w) => InStore(w)'
          BY <3>1, <3>3, CommitKeeps
        <5> QED BY <3>1, <5>1 DEF DInv, D!WallpaperVerified, InStore
      <4>2. store' \subseteq Contents
        BY <2>2, <3>1, <3>3
      <4>3. CASE D!Report("FAILED_ASSET", {})
        BY <2>1, <3>1, <4>1, <4>2, <4>3, ReportsWell
      <4>4. CASE D!Step("enumerate")
        <5>1. OrderIs(order') /\ order'.pc = "enumerate" /\ order'.of = order.of
              /\ order'.part = order.part /\ order'.failures = order.failures
          BY <2>1, <4>4 DEF D!Step, OrderIs
        <5>2. UNCHANGED << report, nOrders, nSignIns >>
          BY <4>4 DEF D!Step
        <5>3. InStore(order.of.wallpaper)'
          BY <3>1, <3>3, <5>1 DEF InStore
        <5> QED BY <2>1, <3>1, <4>1, <4>2, <5>1, <5>2, <5>3, StepsWell
      <4> QED BY <2>6, <3>2, <3>3, <4>3, <4>4 DEF D!Commit
    <3> QED BY <2>6, <3>2, <3>3 DEF D!Commit
  <2>7. CASE D!Enumerate
    <3> DEFINE sids == {s \in Sids : hive[s].loaded /\ D!IsTargetUserSID(s)}
    <3>1. UNCHANGED << hive, store >> /\ order.pc = "enumerate" /\ order.part = "screensaver" /\ order.failures = 0
      BY <2>7 DEF D!Enumerate, DInv
    <3>2. CASE D!Report("FAILED_REGISTRY", {})
      BY <2>3, <3>1, <3>2
    <3>3. CASE D!Report(D!NoTarget, {})
      BY <1>2, <2>1, <2>2, <3>1, <3>3, ReportsWell
    <3>4. CASE /\ sids # {} /\ UNCHANGED << report, nOrders, nSignIns >>
               /\ order' = [order EXCEPT !.pc = "stat", !.sids = sids, !.left = sids, !.at = nSignIns]
      <4>1. /\ OrderIs(order') /\ order'.pc = "stat" /\ order'.of = order.of /\ order'.left # {}
            /\ order'.sids = sids /\ order'.left = sids
            /\ order'.part = order.part /\ order'.failures = order.failures
        BY <2>1, <3>4 DEF OrderIs, DInv
      <4>2. Written'
        BY <3>1, <4>1 DEF Written
      <4>3. D!NeedsAsset(order.of) => InStore(order.of.wallpaper)'
        BY <3>1, <4>1 DEF DInv, InStore
      <4> QED BY <1>2, <2>1, <2>2, <3>1, <3>4, <4>1, <4>2, <4>3, StepsWell
    <3> QED BY <2>7, <3>2, <3>3, <3>4 DEF D!Enumerate
  <2>8. CASE D!StatAsset
    <3>1. UNCHANGED << hive, store >> /\ order.pc = "stat" /\ order.part = "screensaver" /\ order.failures = 0
          /\ order.left # {} /\ (order.at = nSignIns => Written)
      BY <2>8 DEF D!StatAsset, DInv
    <3>2. CASE D!Report("FAILED_INVALID", {})
      BY <2>3, <3>1, <3>2
    <3>3. CASE D!Step("write")
      <4>1. /\ OrderIs(order') /\ order'.pc = "write" /\ order'.of = order.of /\ order'.left = order.left
            /\ order'.sids = order.sids /\ order'.at = order.at /\ order'.hadErr = order.hadErr
            /\ order'.part = order.part /\ order'.failures = order.failures
            /\ UNCHANGED << report, nOrders, nSignIns >>
        BY <2>1, <3>3 DEF OrderIs, D!Step
      <4>2. order'.at = nSignIns => Written'
        <5>1. Turn' = Turn
          BY <4>1 DEF Turn
        <5>2. \A s : (Has(s, "screensaver") => Has(s, "screensaver")') /\ (Has(s, "wallpaper") => Has(s, "wallpaper")')
          BY <3>1, <4>1 DEF Has, Wants
        <5> QED BY <3>1, <4>1, <5>1, <5>2 DEF Written
      <4>3. D!NeedsAsset(order.of) => InStore(order.of.wallpaper)'
        BY <3>1, <4>1 DEF DInv, InStore
      <4> QED BY <1>2, <2>1, <2>2, <3>1, <4>1, <4>2, <4>3, StepsWell
    <3> QED BY <2>8, <3>2, <3>3 DEF D!StatAsset
  <2>9. CASE D!Done
    <3> DEFINE status == D!FinalStatus(order.failures, D!Cardinality(order.sids))
    <3>1. D!Report(status, order.sids) /\ UNCHANGED << hive, store >> /\ order.pc = "done"
      BY <2>9 DEF D!Done
    <3>2. status = "SUCCEEDED" => order.failures = 0
      BY DEF D!FinalStatus
    <3> HIDE DEF status
    <3>3. order.left = {} /\ (order.at = nSignIns => Written)
      BY <3>1 DEF DInv
    <3>4. status = "SUCCEEDED" /\ order.at = nSignIns =>
            \A s \in order.sids : Has(s, "screensaver") /\ Has(s, "wallpaper")
      BY <3>2, <3>3 DEF Written
    <3> QED BY <1>2, <2>1, <2>2, <3>1, <3>4, ReportsWell
  <2>10. CASE D!Write
    BY <2>10, WriteWell
  <2> QED BY <1>6, <2>4, <2>5, <2>6, <2>7, <2>8, <2>9, <2>10 DEF D!Apply
<1> QED BY <1>1, <1>3, <1>4, <1>5, <1>6 DEF D!Next

(* A policy that is reported as applied is what every hive it names holds,   *)
(* until somebody signs in or out or another order begins; and a hive never  *)
(* names a managed wallpaper whose verified content is not in the store.     *)
THEOREM PoliciesHold == Spec => []PolicyHolds
<1>1. Init => DInv
  BY PartsBegin, DisplayInit
<1>2. DInv /\ [Next]_commands => DInv'
  BY EachPartMoves, DisplayStep
<1>3. DInv => PolicyHolds
  BY DEF DInv, PolicyHolds
<1> QED BY <1>1, <1>2, <1>3, PTL DEF Spec

-----------------------------------------------------------------------------
(* UPDATE_AGENT, up to the plan. A comparison has three outcomes, and calls  *)
(* two versions the same only when they are.                                 *)
LEMMA CompareGives ==
  ASSUME NEW a, NEW b
  PROVE  P!Compare(a, b) \in {-1, 0, 1}
<1>1. \A n : P!Sign(n) \in {-1, 0, 1}
  BY DEF P!Sign
<1>2. \A x, y : P!CompareIdent(x, y) \in {-1, 0, 1}
  BY <1>1 DEF P!CompareIdent
<1>3. P!ComparePrerelease(a.pre, b.pre) \in {-1, 0, 1}
  BY <1>1, <1>2 DEF P!ComparePrerelease
<1> QED BY <1>1, <1>3 DEF P!Compare

LEMMA SameRelease ==
  ASSUME NEW a, NEW b, a.core \in [1..3 -> Nat], b.core \in [1..3 -> Nat], a.pre = << >>,
         b.pre \in Seq([num : BOOLEAN, val : Int]), P!Compare(a, b) = 0
  PROVE  b.pre = << >> /\ \A i \in 1..3 : a.core[i] = b.core[i]
<1> DEFINE differ == {i \in 1..3 : a.core[i] # b.core[i]}
<1>1. differ = {}
  <2>1. SUFFICES ASSUME differ # {} PROVE FALSE
    OBVIOUS
  <2>2. \E x \in differ : \A y \in differ : x <= y
    <3>1. \A y \in differ : y = 1 \/ y = 2 \/ y = 3
      OBVIOUS
    <3> HIDE DEF differ
    <3>2. CASE 1 \in differ
      BY <3>1, <3>2
    <3>3. CASE 1 \notin differ /\ 2 \in differ
      BY <3>1, <3>3
    <3>4. CASE 1 \notin differ /\ 2 \notin differ
      <4>1. \A y \in differ : y = 3
        BY <3>1, <3>4
      <4> QED BY <2>1, <4>1
    <3> QED BY <3>2, <3>3, <3>4
  <2>3. P!Min(differ) \in differ
    <3> HIDE DEF differ
    <3> QED BY <2>2 DEF P!Min
  <2> DEFINE m == P!Min(differ)
  <2>4. a.core[m] \in Int /\ b.core[m] \in Int /\ a.core[m] # b.core[m]
    <3>1. m \in 1..3 /\ a.core[m] # b.core[m]
      BY <2>3
    <3> HIDE DEF m
    <3> QED BY <3>1
  <2>5. P!Sign(a.core[m] - b.core[m]) = 0
    BY <2>1 DEF P!Compare
  <2> HIDE DEF m
  <2> QED BY <2>4, <2>5 DEF P!Sign
<1>2. P!ComparePrerelease(a.pre, b.pre) = 0
  BY <1>1 DEF P!Compare
<1>3. P!Sign(Len(b.pre) - Len(a.pre)) = 0
  BY <1>2 DEF P!ComparePrerelease
<1>4. Len(b.pre) = 0
  <2>1. Len(a.pre) = 0 /\ Len(b.pre) \in Nat
    OBVIOUS
  <2> QED BY <1>3, <2>1 DEF P!Sign
<1> QED BY <1>1, <1>4

\* A policy that lets a version pass has found it newer than both.
LEMMA PolicyPasses ==
  ASSUME NEW current, NEW target, NEW maxSeen, P!VersionPolicy(current, target, maxSeen) = ""
  PROVE  P!Parses(target) /\ P!Newer(target, current) /\ P!Newer(target, maxSeen)
<1>1. P!Compare(target, current) \in {-1, 0, 1}
  BY CompareGives
<1> QED BY <1>1 DEF P!VersionPolicy, P!Newer

\* What a stamp that is bound to a version says of it.
BoundTo(stamp, target) ==
  \/ stamp.version # P!NoSemver /\ P!Compare(stamp.version, target) = 0
  \/ /\ stamp.version = P!NoSemver /\ target.pre = << >>
     /\ \A i \in 1..Len(stamp.fields) : stamp.fields[i] = IF i = 4 THEN 0 ELSE target.core[i]

LEMMA BoundSays ==
  ASSUME NEW b \in Binaries, NEW p \in Payloads, P!Parses(p.target), P!Bound(b.stamp, p.target)
  PROVE  BoundTo(b.stamp, p.target)
<1> DEFINE s == b.stamp
           f == b.stamp.fields
           n == P!NormalizePE(s)
<1>1. CASE s.version # P!NoSemver
  BY <1>1 DEF P!Bound, P!NormalizePE, BoundTo
<1>2. CASE s.version = P!NoSemver
  <2>1. f \in Seq(Nat) /\ p.target \in [core : [1..3 -> Nat], pre : Seq([num : BOOLEAN, val : Int])]
    BY CommandsAssumption DEF P!StagingAssumption, P!IsVersion, P!Parses
  <2>2. Len(f) \in 1..4 /\ (Len(f) = 4 => f[4] = 0)
        /\ n = [core |-> [i \in 1..3 |-> IF i <= Len(f) THEN f[i] ELSE 0], pre |-> << >>]
    BY <1>2 DEF P!Bound, P!NormalizePE
  <2>3. n.pre = << >> /\ n.core = [i \in 1..3 |-> IF i <= Len(f) THEN f[i] ELSE 0]
    BY <2>2
  <2>4. n.core \in [1..3 -> Nat]
    <3>1. \A i \in 1..3 : i <= Len(f) => f[i] \in Nat
      <4> HIDE DEF f, n
      <4>1. f \in Seq(Nat)
        BY <2>1
      <4>2. Len(f) \in Nat /\ \A i \in 1..Len(f) : f[i] \in Nat
        BY <4>1
      <4> QED BY <4>2
    <3> QED BY <2>3, <3>1
  <2>5. P!Compare(n, p.target) = 0
    BY DEF P!Bound
  <2> HIDE DEF n
  <2>6. p.target.pre = << >> /\ \A i \in 1..3 : n.core[i] = p.target.core[i]
    <3> DEFINE t == p.target
    <3>1. t.core \in [1..3 -> Nat] /\ t.pre \in Seq([num : BOOLEAN, val : Int]) /\ P!Compare(n, t) = 0
      BY <2>1, <2>5
    <3> HIDE DEF t
    <3>2. t.pre = << >> /\ \A i \in 1..3 : n.core[i] = t.core[i]
      <4>1. n.core \in [1..3 -> Nat] /\ n.pre = << >>
        BY <2>3, <2>4
      <4>2. t.pre \in Seq([num : BOOLEAN, val : Int])
        BY <3>1
      <4> QED BY <3>1, <4>1, <4>2, SameRelease
    <3> QED BY <3>2 DEF t
  <2>7. \A i \in 1..Len(f) : f[i] = IF i = 4 THEN 0 ELSE p.target.core[i]
    <3>1. \A i \in 1..3 : n.core[i] = IF i <= Len(f) THEN f[i] ELSE 0
      BY <2>3
    <3>2. \A i \in 1..Len(f) : i \in 1..3 \/ (i = 4 /\ Len(f) = 4)
      <4> DEFINE k == Len(f)
      <4>1. k \in 1..4
        BY <2>2
      <4> HIDE DEF k
      <4>2. \A i \in 1..k : i \in 1..3 \/ (i = 4 /\ k = 4)
        BY <4>1
      <4> QED BY <4>2 DEF k
    <3>3. \A i \in 1..Len(f) : i \in 1..3 => f[i] = n.core[i] /\ i # 4
      BY <2>2, <3>1
    <3> QED BY <2>2, <2>6, <3>2, <3>3
  <2> QED BY <1>2, <2>6, <2>7 DEF BoundTo
<1> QED BY <1>1, <1>2

\* The file of a plan has come the allowed way, and is what the plan says.
FileIsGood(f, target, tier) ==
  /\ \A u \in f.via : u.host \in Hosts /\ u.scheme = "https"
  /\ f.binary.signer \in Signers /\ (tier = "TRUSTED" => f.binary.status = "valid")
  /\ BoundTo(f.binary.stamp, target)

UpdateIs(u) ==
  /\ DOMAIN u = {"pc", "p", "binary", "via", "id", "maxSeen"}
  /\ u.pc \in {"preflight", "download", "verify", "commit", "plan"} /\ u.p \in Payloads /\ u.id = nStagings

\* Whatever is staged later has a number of its own, and what has passed a
\* check stays passed: the version that runs cannot change under a staging, and
\* what the mark was when it was read does not.
PInv ==
  /\ nStagings \in Nat /\ DOMAIN installed = {"current", "highWater"}
  /\ \A i \in DOMAIN staged : i \in Nat /\ i <= nStagings
  /\ update = P!NoJob \/ UpdateIs(update)
  /\ update.pc \in {"preflight", "download", "verify", "commit"} => update.id \notin DOMAIN staged
  /\ update.pc \in {"download", "verify", "commit", "plan"} =>
       /\ P!Parses(update.p.target)
       /\ P!Newer(update.p.target, installed.current) /\ P!Newer(update.p.target, update.maxSeen)
  /\ update.pc \in {"verify", "commit", "plan"} =>
       update.binary \in Binaries /\ \A u \in update.via : u.host \in Hosts /\ u.scheme = "https"
  /\ update.pc \in {"commit", "plan"} => FileIsGood(update, update.p.target, update.p.tier)
  /\ update.pc = "plan" =>
       /\ update.id \in DOMAIN staged
       /\ staged[update.id].binary = update.binary /\ staged[update.id].via = update.via
  /\ \A x \in plans : x.id \in DOMAIN staged /\ FileIsGood(staged[x.id], x.target, x.tier)

LEMMA NoJobIs == P!NoJob.pc = "idle"
BY DEF P!NoJob

LEMMA StagingInit == P!Init => PInv
<1> SUFFICES ASSUME P!Init PROVE PInv
  OBVIOUS
<1>1. /\ DOMAIN staged = {} /\ plans = {} /\ update = P!NoJob /\ nStagings = 0
      /\ DOMAIN installed = {"current", "highWater"}
  BY DEF P!Init
<1> QED BY <1>1, NoJobIs DEF PInv

\* A staging that ends leaves the plans it found, and the files.
LEMMA ConcludesWell ==
  ASSUME PInv, UNCHANGED << staged, plans, nStagings >>, update' = P!NoJob,
         DOMAIN installed' = DOMAIN installed
  PROVE  PInv'
BY NoJobIs DEF PInv, FileIsGood, BoundTo

LEMMA PassesOn ==
  ASSUME PInv, UpdateIs(update), UpdateIs(update'), UNCHANGED << installed, staged, plans, nStagings >>,
         update'.p = update.p, update.pc \in {"preflight", "download", "verify"},
         update'.pc \in {"download", "verify", "commit"},
         /\ P!Parses(update.p.target)
         /\ P!Newer(update.p.target, installed.current) /\ P!Newer(update.p.target, update'.maxSeen),
         update'.pc \in {"verify", "commit"} =>
           update'.binary \in Binaries /\ \A u \in update'.via : u.host \in Hosts /\ u.scheme = "https",
         update'.pc = "commit" => FileIsGood(update', update.p.target, update.p.tier)
  PROVE  PInv'
<1>1. /\ update'.id \notin DOMAIN staged'
      /\ \A x \in plans' : x.id \in DOMAIN staged' /\ FileIsGood(staged'[x.id], x.target, x.tier)
      /\ \A i \in DOMAIN staged' : i \in Nat /\ i <= nStagings'
  BY NoJobIs DEF PInv, UpdateIs
<1>2. update'.pc # "plan" /\ nStagings' \in Nat
  BY DEF PInv
<1>3. /\ P!Parses(update'.p.target)
      /\ P!Newer(update'.p.target, installed'.current) /\ P!Newer(update'.p.target, update'.maxSeen)
  OBVIOUS
<1>4. update'.pc = "commit" => FileIsGood(update', update'.p.target, update'.p.tier)
  OBVIOUS
<1>5. update'.pc \in {"verify", "commit", "plan"} =>
        update'.binary \in Binaries /\ \A u \in update'.via : u.host \in Hosts /\ u.scheme = "https"
  BY <1>2
<1>6. update'.pc \in {"commit", "plan"} => FileIsGood(update', update'.p.target, update'.p.tier)
  BY <1>2, <1>4
<1>7. update'.pc = "plan" => /\ update'.id \in DOMAIN staged'
                             /\ staged'[update'.id].binary = update'.binary /\ staged'[update'.id].via = update'.via
  BY <1>2
<1>8. UpdateIs(update)'
  BY DEF UpdateIs
<1> QED BY <1>1, <1>2, <1>3, <1>5, <1>6, <1>7, <1>8 DEF PInv

LEMMA StagingStep ==
  ASSUME PInv, [P!Next]_(P!staging)
  PROVE  PInv'
<1>1. CASE UNCHANGED P!staging
  BY <1>1 DEF P!staging, PInv, UpdateIs, FileIsGood, BoundTo
<1>2. ASSUME NEW p \in Payloads, P!Begin(p) PROVE PInv'
  <2>1. /\ update' = [pc |-> "preflight", p |-> p, binary |-> [signer |-> ""], via |-> {}, id |-> nStagings + 1,
                     maxSeen |-> P!NoSemver]
        /\ nStagings' = nStagings + 1 /\ UNCHANGED << installed, staged, plans >>
    BY <1>2 DEF P!Begin
  <2>2. UpdateIs(update)' /\ update'.pc = "preflight" /\ update'.id = nStagings + 1
    BY <2>1 DEF UpdateIs
  <2>3. nStagings \in Nat /\ \A i \in DOMAIN staged : i \in Nat /\ i <= nStagings
    BY DEF PInv
  <2>4. nStagings + 1 \notin DOMAIN staged /\ nStagings' \in Nat
        /\ \A i \in DOMAIN staged : i \in Nat /\ i <= nStagings'
    <3>1. nStagings' = nStagings + 1 /\ nStagings \in Nat
      BY <2>1, <2>3
    <3>2. ASSUME NEW i \in DOMAIN staged PROVE i \in Nat /\ i # nStagings + 1 /\ i <= nStagings'
      <4>1. i \in Nat /\ i <= nStagings
        BY <2>3
      <4> QED BY <3>1, <4>1
    <3> QED BY <3>1, <3>2
  <2> QED BY <2>1, <2>2, <2>4 DEF PInv, FileIsGood, BoundTo
<1>3. CASE P!Swap
  <2>1. UNCHANGED << staged, plans, nStagings >> /\ update' = P!NoJob /\ DOMAIN installed' = DOMAIN installed
    BY <1>3 DEF P!Swap, P!Activate, P!Reinstall, P!InPlace
  <2> QED BY <2>1, ConcludesWell
<1>5. CASE P!Aside
  <2>1. /\ UNCHANGED << staged, plans, nStagings, update >>
        /\ DOMAIN installed' = DOMAIN installed /\ installed'.current = installed.current
    BY <1>5 DEF P!Aside, P!Prepare, P!Mark, P!InPlace, PInv
  <2>2. PInv
    OBVIOUS
  <2> QED BY <2>1, <2>2 DEF PInv, UpdateIs, FileIsGood, BoundTo
<1>4. ASSUME P!Stage PROVE PInv'
  <2>1. UpdateIs(update)
    <3>1. update.pc # "idle"
      BY <1>4 DEF P!Stage, P!Judge, P!Unreadable, P!Download, P!Verify, P!Commit, P!WritePlan
    <3> QED BY <3>1, NoJobIs DEF PInv
  <2>2. CASE P!Keep /\ update' = P!NoJob
    BY <2>2, ConcludesWell DEF P!Keep
  <2>3. CASE P!Judge
    <3> DEFINE verdict == P!Preflight(update.p, installed.current, installed.highWater)
    <3>1. CASE verdict # ""
      BY <2>2, <2>3, <3>1 DEF P!Judge, P!Conclude, P!Refused
    <3>2. CASE verdict = ""
      <4>1. P!Keep /\ update.pc = "preflight"
            /\ update' = [update EXCEPT !.pc = "download", !.maxSeen = installed.highWater]
        BY <2>3, <3>2 DEF P!Judge
      <4>2. P!VersionPolicy(installed.current, update.p.target, installed.highWater) = ""
        BY <3>2 DEF P!Preflight
      <4>3. UNCHANGED << installed, staged, plans, nStagings >>
        BY <4>1 DEF P!Keep
      <4>4. /\ UpdateIs(update') /\ update'.pc = "download" /\ update'.p = update.p
            /\ update'.maxSeen = installed.highWater
        BY <2>1, <4>1, <4>3 DEF UpdateIs
      <4> QED BY <2>1, <4>1, <4>2, <4>3, <4>4, PolicyPasses, PassesOn
    <3> QED BY <3>1, <3>2
  <2>4. CASE P!Unreadable
    BY <2>2, <2>4 DEF P!Unreadable, P!Fault, P!Conclude
  <2>5. CASE P!Download
    <3>1. CASE P!Fault /\ P!Keep
      BY <2>2, <3>1 DEF P!Fault, P!Conclude
    <3>2. CASE P!Refused
      BY <2>2, <3>2 DEF P!Refused, P!Conclude
    <3>3. ASSUME NEW hops \in Chains, NEW b \in Binaries, P!ChainAllowed(update.p.url, hops), P!Keep,
                 update' = [update EXCEPT !.pc = "verify", !.binary = b,
                                          !.via = {update.p.url} \cup {hops[i] : i \in 1..Len(hops)}]
          PROVE  PInv'
      <4> DEFINE via == {update.p.url} \cup {hops[i] : i \in 1..Len(hops)}
      <4>1. \A u \in via : u.host \in Hosts /\ u.scheme = "https"
        BY <3>3 DEF P!ChainAllowed, P!CheckURL
      <4>2. update' = [update EXCEPT !.pc = "verify", !.binary = b, !.via = via]
        BY <3>3
      <4> HIDE DEF via
      <4>3. UpdateIs(update') /\ update'.pc = "verify" /\ update'.p = update.p /\ update'.binary = b /\ update'.via = via
            /\ update'.maxSeen = update.maxSeen
        BY <2>1, <4>2 DEF UpdateIs
      <4>4. UNCHANGED << installed, staged, plans, nStagings >> /\ update.pc = "download"
        BY <2>5, <3>3 DEF P!Keep, P!Download
      <4> QED BY <2>1, <4>1, <4>3, <4>4, PassesOn DEF PInv
    <3> QED BY <2>5, <3>1, <3>2, <3>3 DEF P!Download
  <2>6. CASE P!Verify
    <3>1. CASE P!Refused
      BY <2>2, <3>1 DEF P!Refused, P!Conclude
    <3>2. CASE ~P!Refused
      <4>1. /\ P!AuthenticodeAllowed(update.binary, update.p.tier) /\ P!SignerAllowed(update.binary)
            /\ P!Bound(update.binary.stamp, update.p.target) /\ P!Advance("commit") /\ update.pc = "verify"
        BY <2>6, <3>2 DEF P!Verify
      <4>2. UNCHANGED << installed, staged, plans, nStagings >> /\ update' = [update EXCEPT !.pc = "commit"]
        BY <4>1 DEF P!Advance, P!Keep
      <4>3. /\ UpdateIs(update') /\ update'.pc = "commit" /\ update'.p = update.p
            /\ update'.binary = update.binary /\ update'.via = update.via /\ update'.maxSeen = update.maxSeen
        BY <2>1, <4>2 DEF UpdateIs
      <4>4. /\ update.binary \in Binaries /\ P!Parses(update.p.target) /\ update.p \in Payloads
            /\ \A u \in update.via : u.host \in Hosts /\ u.scheme = "https"
            /\ P!Newer(update.p.target, installed.current) /\ P!Newer(update.p.target, update.maxSeen)
        BY <2>1, <4>1 DEF PInv, UpdateIs
      <4>5. BoundTo(update.binary.stamp, update.p.target)
        BY <4>1, <4>4, BoundSays
      <4>6. update.p.tier = "TRUSTED" => update.binary.status = "valid"
        BY <4>1 DEF P!AuthenticodeAllowed, P!ClassifyStatus
      <4>7. FileIsGood(update', update.p.target, update.p.tier)
        BY <4>1, <4>3, <4>4, <4>5, <4>6 DEF FileIsGood, P!SignerAllowed
      <4> QED BY <2>1, <4>1, <4>2, <4>3, <4>4, <4>7, PassesOn
    <3> QED BY <3>1, <3>2
  <2>7. CASE P!Commit
    <3> DEFINE id == update.id
               f == [binary |-> update.binary, via |-> update.via]
    <3>1. UNCHANGED << installed, plans, nStagings >> /\ update.pc = "commit" /\ id \notin DOMAIN staged
      BY <2>7 DEF P!Commit, PInv
    <3>2. CASE staged' = staged /\ P!Fault
      BY <3>1, <3>2, ConcludesWell DEF P!Fault, P!Conclude
    <3>3. CASE staged' = [i \in DOMAIN staged \cup {id} |-> IF i = id THEN f ELSE staged[i]]
      <4>1. f.binary = update.binary /\ f.via = update.via
        OBVIOUS
      <4> HIDE DEF f
      <4>2. DOMAIN staged' = DOMAIN staged \cup {id} /\ staged'[id] = f
            /\ \A i \in DOMAIN staged : staged'[i] = staged[i]
        BY <3>1, <3>3
      <4>3. \A i \in DOMAIN staged' : i \in Nat /\ i <= nStagings
        BY <2>1, <4>2 DEF PInv, UpdateIs
      <4>4. \A x \in plans : x.id \in DOMAIN staged' /\ FileIsGood(staged'[x.id], x.target, x.tier)
        BY <4>2 DEF PInv
      <4>5. CASE P!Fault
        BY <3>1, <4>3, <4>4, <4>5, NoJobIs DEF P!Fault, P!Conclude, PInv, FileIsGood, BoundTo
      <4>6. CASE update' = [update EXCEPT !.pc = "plan"]
        <5>1. /\ UpdateIs(update') /\ update'.pc = "plan" /\ update'.p = update.p /\ update'.id = id
              /\ update'.binary = update.binary /\ update'.via = update.via /\ update'.maxSeen = update.maxSeen
          BY <2>1, <4>6 DEF UpdateIs
        <5>2. FileIsGood(update, update.p.target, update.p.tier)'
          <6>1. FileIsGood(update, update.p.target, update.p.tier)
            BY <3>1 DEF PInv
          <6> QED BY <5>1, <6>1 DEF FileIsGood
        <5>3. UpdateIs(update)'
          BY <3>1, <5>1 DEF UpdateIs
        <5>4. /\ P!Parses(update.p.target) /\ update.binary \in Binaries
              /\ \A u \in update.via : u.host \in Hosts /\ u.scheme = "https"
              /\ P!Newer(update.p.target, installed.current) /\ P!Newer(update.p.target, update.maxSeen)
          BY <3>1 DEF PInv
        <5> QED BY <3>1, <4>1, <4>2, <4>3, <4>4, <5>1, <5>2, <5>3, <5>4 DEF PInv, FileIsGood
      <4> QED BY <2>7, <3>2, <3>3, <4>5, <4>6 DEF P!Commit
    <3> QED BY <2>7, <3>2, <3>3 DEF P!Commit
  <2>8. CASE P!WritePlan
    <3> DEFINE x == [id |-> update.id, target |-> update.p.target, tier |-> update.p.tier]
    <3>1. update.pc = "plan" /\ UNCHANGED << installed, staged, nStagings >> /\ update' = P!NoJob
      BY <2>8 DEF P!WritePlan, P!Fault, P!Conclude
    <3>2. plans' = plans \/ plans' = plans \cup {x}
      BY <2>8 DEF P!WritePlan
    <3>3. x.id \in DOMAIN staged /\ FileIsGood(staged[x.id], x.target, x.tier)
      BY <3>1 DEF PInv, FileIsGood
    <3> HIDE DEF x
    <3>4. \A y \in plans' : y.id \in DOMAIN staged' /\ FileIsGood(staged'[y.id], y.target, y.tier)
      BY <3>1, <3>2, <3>3 DEF PInv
    <3>5. UNCHANGED << installed, staged, nStagings >>
      BY <3>1
    <3> QED BY <3>1, <3>4, <3>5, NoJobIs DEF PInv, FileIsGood, BoundTo
  <2> QED BY <1>4, <2>3, <2>4, <2>5, <2>6, <2>7, <2>8 DEF P!Stage
<1> QED BY <1>1, <1>2, <1>3, <1>4, <1>5 DEF P!Next

(* A plan names a staged file that came over allowed hosts only, is signed   *)
(* for its tier by an allowed signer and is the version the plan announces.  *)
(* It is written for a version newer than what runs, whatever helpers and    *)
(* installers swap and whenever; and newer than the mark, unless that is of  *)
(* another version than the one that runs and was set under this staging.    *)
THEOREM UpdatesArePlanned == Spec => UpdatePlans
<1>1. Init => PInv
  BY PartsBegin, StagingInit
<1>2. PInv /\ [Next]_commands => PInv'
  BY EachPartMoves, StagingStep
<1>3. PInv => P!PlanIsVerified
  BY DEF PInv, P!PlanIsVerified, FileIsGood, BoundTo
<1>4. PInv /\ [Next]_commands =>
        [\A x \in plans' \ plans :
           /\ P!Newer(x.target, installed.current)
           /\ \/ P!Newer(x.target, installed.highWater)
              \/ installed.highWater # update.maxSeen /\ installed.highWater # installed.current]_(P!staging)
  <2> SUFFICES ASSUME PInv, P!Next, NEW x \in plans', x \notin plans
               PROVE  /\ P!Newer(x.target, installed.current)
                      /\ \/ P!Newer(x.target, installed.highWater)
                         \/ installed.highWater # update.maxSeen /\ installed.highWater # installed.current
    BY EachPartMoves
  <2>1. P!WritePlan
    BY DEF P!Next, P!Stage, P!Judge, P!Unreadable, P!Download, P!Verify, P!Commit, P!Begin, P!Swap, P!Activate,
           P!Reinstall, P!Aside, P!Prepare, P!Mark, P!InPlace, P!Advance, P!Keep, P!Fault, P!Refused, P!Conclude
  <2>2. update.pc = "plan" /\ x.target = update.p.target
    BY <2>1 DEF P!WritePlan
  <2>3. P!Newer(x.target, installed.current) /\ P!Newer(x.target, update.maxSeen)
    BY <2>2 DEF PInv
  <2> QED BY <2>3
<1> QED BY <1>1, <1>2, <1>3, <1>4, PTL DEF Spec, UpdatePlans, P!PlanIsNewer

-----------------------------------------------------------------------------
(* LOCK_USER_LOGIN and its kin. The agent walks the groups level by level up *)
(* to a depth; when nothing is left beyond it, it has met every group of     *)
(* administrators, and the accounts it counts are all there are.             *)
LEMMA NoneIsNone == U!Cardinality({}) = 0
<1> DEFINE Count(f) == f = [T \in SUBSET {} |-> IF T = {} THEN 0 ELSE 1 + f[T \ {CHOOSE x : x \in T}]]
<1>1. Count([T \in SUBSET {} |-> 0])
  OBVIOUS
<1>2. Count(CHOOSE f : Count(f))
  BY <1>1
<1>3. (CHOOSE f : Count(f))[{}] = 0
  <2> DEFINE g == CHOOSE f : Count(f)
  <2>1. g = [T \in SUBSET {} |-> IF T = {} THEN 0 ELSE 1 + g[T \ {CHOOSE x : x \in T}]]
    BY <1>2
  <2> HIDE DEF g
  <2>2. g[{}] = 0
    BY <2>1
  <2> QED BY <2>2 DEF g
<1>4. U!Cardinality({}) = (CHOOSE f : Count(f))[{}]
  BY DEF U!Cardinality
<1> QED BY <1>3, <1>4

\* What every natural number has, the least one without it would have too.
LEMMA NoLeast ==
  ASSUME NEW Bad \in SUBSET Nat, \A n \in Bad : n # 0 /\ n - 1 \in Bad
  PROVE  Bad = {}
<1> DEFINE L == OpToRel(<, Nat)
<1>1. IsWellFoundedOn(L, Nat) /\ \A m, n \in Nat : << n, m >> \in L <=> n < m
  BY NatLessThanWellFounded DEF OpToRel
<1> HIDE DEF L
<1> SUFFICES ASSUME Bad # {} PROVE FALSE
  OBVIOUS
<1>2. PICK n \in Bad : \A m \in Bad : ~(<< m, n >> \in L)
  BY <1>1, WFMin
<1>3. n - 1 \in Bad /\ n - 1 < n
  BY <1>2
<1> QED BY <1>1, <1>2, <1>3

Further(G) == G \cup {g \in Groups : \E h \in G : g \in groups[h]}
Levels(f, n) == f = [d \in 0..n |-> IF d = 0 THEN {"Administrators"} ELSE Further(f[d - 1])]

LEMMA LevelIs ==
  ASSUME NEW n \in Nat, NEW f, Levels(f, n), NEW d \in 0..n
  PROVE  f[d] = IF d = 0 THEN {"Administrators"} ELSE Further(f[d - 1])
BY DEF Levels

LEMMA LevelsExist == \A n \in Nat : \E f : Levels(f, n)
<1> DEFINE Bad == {n \in Nat : ~\E f : Levels(f, n)}
<1>1. ASSUME NEW n \in Bad PROVE n # 0 /\ n - 1 \in Bad
  <2>1. CASE n = 0
    <3>1. Levels([d \in 0..0 |-> {"Administrators"}], 0)
      BY DEF Levels
    <3> QED BY <2>1, <3>1
  <2>2. ASSUME n # 0, NEW f, Levels(f, n - 1) PROVE FALSE
    <3> DEFINE g == [d \in 0..n |-> IF d = n THEN Further(f[n - 1]) ELSE f[d]]
    <3>1. \A d \in 0..n : d # 0 => d - 1 \in 0..(n - 1) /\ g[d - 1] = f[d - 1]
      OBVIOUS
    <3>2. \A d \in 0..(n - 1) : f[d] = IF d = 0 THEN {"Administrators"} ELSE Further(f[d - 1])
      BY <2>2 DEF Levels
    <3>3. ASSUME NEW d \in 0..n PROVE g[d] = IF d = 0 THEN {"Administrators"} ELSE Further(g[d - 1])
      <4>1. CASE d = n
        BY <2>2, <3>1, <4>1
      <4>2. CASE d # n
        <5>1. d \in 0..(n - 1) /\ g[d] = f[d]
          BY <4>2
        <5>2. d # 0 => g[d - 1] = f[d - 1]
          BY <3>1
        <5> HIDE DEF g
        <5> QED BY <3>2, <5>1, <5>2
      <4> QED BY <4>1, <4>2
    <3>4. Levels(g, n)
      <4>1. DOMAIN g = 0..n /\ g = [d \in 0..n |-> g[d]]
        OBVIOUS
      <4> HIDE DEF g
      <4> QED BY <3>3, <4>1 DEF Levels
    <3> QED BY <3>4
  <2> QED BY <2>1, <2>2
<1> HIDE DEF Bad
<1>2. Bad \in SUBSET Nat
  BY DEF Bad
<1>3. Bad = {}
  BY <1>1, <1>2, NoLeast
<1> QED BY <1>3 DEF Bad

LEMMA LevelsAgree ==
  ASSUME NEW m \in Nat, NEW n \in Nat, m <= n, NEW f, NEW g, Levels(f, m), Levels(g, n)
  PROVE  f[m] = g[m]
<1> DEFINE Bad == {d \in Nat : d <= m /\ f[d] # g[d]}
<1>1. ASSUME NEW d \in 0..m
      PROVE  /\ f[d] = IF d = 0 THEN {"Administrators"} ELSE Further(f[d - 1])
             /\ g[d] = IF d = 0 THEN {"Administrators"} ELSE Further(g[d - 1])
  <2>1. d \in 0..n
    OBVIOUS
  <2> QED BY <2>1, LevelIs
<1>2. ASSUME NEW d \in Bad PROVE d # 0 /\ d - 1 \in Bad
  <2>1. d \in 0..m /\ f[d] # g[d]
    OBVIOUS
  <2>2. d # 0 /\ f[d - 1] # g[d - 1]
    BY <1>1, <2>1
  <2> QED BY <2>1, <2>2
<1> HIDE DEF Bad
<1>3. Bad = {}
  BY <1>2, NoLeast DEF Bad
<1> QED BY <1>3 DEF Bad

LEMMA WithinIs ==
  U!Within = [d \in Nat |-> IF d = 0 THEN {"Administrators"} ELSE Further(U!Within[d - 1])]
<1> DEFINE Walk(h) == h = [d \in Nat |-> IF d = 0 THEN {"Administrators"}
                                          ELSE h[d - 1] \cup {g \in Groups : \E x \in h[d - 1] : g \in groups[x]}]
           F(n) == CHOOSE f : Levels(f, n)
           h == [d \in Nat |-> F(d)[d]]
<1>1. \A n \in Nat : Levels(F(n), n)
  BY LevelsExist
<1> HIDE DEF F
<1>2. ASSUME NEW d \in Nat PROVE h[d] = IF d = 0 THEN {"Administrators"} ELSE Further(h[d - 1])
  <2>1. F(d)[d] = IF d = 0 THEN {"Administrators"} ELSE Further(F(d)[d - 1])
    BY <1>1, LevelIs
  <2>2. d # 0 => F(d)[d - 1] = F(d - 1)[d - 1]
    BY <1>1, LevelsAgree
  <2>3. h[d] = F(d)[d] /\ (d # 0 => h[d - 1] = F(d - 1)[d - 1])
    OBVIOUS
  <2> QED BY <2>1, <2>2, <2>3
<1>3. Walk(h)
  <2>1. h = [d \in Nat |-> h[d]]
    OBVIOUS
  <2> HIDE DEF h
  <2> QED BY <1>2, <2>1 DEF Further
<1>4. U!Within = CHOOSE f : Walk(f)
  BY DEF U!Within
<1> HIDE DEF h
<1>5. Walk(U!Within)
  <2> HIDE DEF Walk
  <2> QED BY <1>3, <1>4
<1> QED BY <1>5 DEF Further

LEMMA WalkMeets ==
  ASSUME NEW G, U!Closed(G), "Administrators" \in Groups
  PROVE  \A n \in Nat : U!Within[n] \subseteq G \cap Groups /\ "Administrators" \in U!Within[n]
<1> DEFINE Bad == {n \in Nat : ~(U!Within[n] \subseteq G \cap Groups /\ "Administrators" \in U!Within[n])}
<1>1. ASSUME NEW n \in Bad PROVE n # 0 /\ n - 1 \in Bad
  <2>1. CASE n = 0
    <3>1. U!Within[n] = {"Administrators"}
      BY <2>1, WithinIs
    <3> QED BY <3>1 DEF U!Closed
  <2>2. CASE n # 0
    <3>1. n - 1 \in Nat /\ U!Within[n] = Further(U!Within[n - 1])
      BY <2>2, WithinIs
    <3>2. U!Within[n - 1] \subseteq G \cap Groups => Further(U!Within[n - 1]) \subseteq G \cap Groups
      BY DEF U!Closed, Further
    <3> QED BY <2>2, <3>1, <3>2 DEF Further
  <2> QED BY <2>1, <2>2
<1> HIDE DEF Bad
<1>2. Bad = {}
  BY <1>1, NoLeast DEF Bad
<1> QED BY <1>2 DEF Bad

LEMMA AllAreCounted == U!ExpansionReadable => U!AdminUsers = U!TrueAdmins
<1> SUFFICES ASSUME ~U!Beyond PROVE U!AdminUsers = U!TrueAdmins
  BY DEF U!ExpansionReadable
<1> DEFINE Least(G) == U!Closed(G) /\ \A T \in SUBSET G : U!Closed(T) => T = G
           up == CHOOSE G \in SUBSET Groups : Least(G)
<1>1. "Administrators" \in Groups /\ MaxExpansionDepth \in Nat
  BY CommandsAssumption DEF U!UsersAssumption
<1>2. U!Closed(Groups)
  BY <1>1 DEF U!Closed
<1>3. U!Reached \subseteq Groups /\ "Administrators" \in U!Reached
  BY <1>1, <1>2, WalkMeets DEF U!Reached
<1>4. U!Closed(U!Reached)
  BY <1>3 DEF U!Closed, U!Beyond
<1>5. \A T : U!Closed(T) => U!Reached \subseteq T
  BY <1>1, WalkMeets DEF U!Reached
<1>6. Least(U!Reached)
  BY <1>4, <1>5
<1>7. Least(up) /\ up \in SUBSET Groups
  BY <1>3, <1>6
<1>8. up = U!Reached
  BY <1>4, <1>5, <1>7
<1>9. U!TrueAdmins = {s \in U!LocalSids : \E g \in up : s \in groups[g]}
  BY DEF U!TrueAdmins
<1> QED BY <1>8, <1>9 DEF U!AdminUsers

\* A mutation works on the account it resolved, and judges it by what it read,
\* as long as the administrator of the host changes nothing.
Mutating(m) == DOMAIN m = {"pc", "of", "sid", "facts", "flags", "since"}
IsSam(s) == DOMAIN s = U!Names /\ \A n \in U!Names : s[n] = U!NoAccount \/ U!IsAccount(s[n])
Target(m) == m.of.name
Enabled(n) == ~sam[n].disabled
AnotherRemains(m) == \E n \in U!Names \ {Target(m)} : n \in U!EnabledAdmins(sam)

AsResolved(m) ==
  /\ Target(m) \in U!Names /\ sam[Target(m)].sid = m.sid /\ m.sid \notin U!ReservedRids /\ m.sid # "none"
  /\ m.pc \in {"admins", "list"} => (m.facts.enabled <=> Enabled(Target(m)))
  /\ m.pc = "list" => m.flags.admins = U!TrueAdmins /\ (m.facts.admin <=> m.sid \in U!TrueAdmins)
  /\ m.pc \in {"flags", "write"} /\ m.of.action = "LOCK" =>
       AnotherRemains(m) \/ Target(m) \notin U!EnabledAdmins(sam)

UInv ==
  /\ IsSam(sam) /\ nChanges \in Nat
  /\ mutation = U!NoMutation \/ Mutating(mutation)
  /\ mutation.pc # "idle" =>
       /\ mutation.pc \in {"refuse", "resolve", "targetFlags", "admins", "list", "flags", "write", "password"}
       /\ mutation.since \in Nat /\ mutation.since <= nChanges
       /\ DOMAIN mutation.facts = {"enabled", "admin", "others"}
  /\ mutation.pc \in {"targetFlags", "admins", "list"} => mutation.of.action = "LOCK"
  /\ mutation.pc = "write" => U!IsAccount(mutation.flags)
  /\ mutation.pc \notin {"idle", "refuse", "resolve"} /\ mutation.since = nChanges => AsResolved(mutation)

LEMMA NoMutationIs == U!NoMutation.pc = "idle"
BY DEF U!NoMutation

LEMMA UsersInit == U!Init => UInv
BY CommandsAssumption, NoMutationIs DEF U!Init, U!UsersAssumption, U!Names, IsSam, UInv

LEMMA QuietKeeps ==
  ASSUME U!Quiet
  PROVE  /\ IsSam(sam)' <=> IsSam(sam)
         /\ U!TrueAdmins' = U!TrueAdmins /\ U!EnabledAdmins(sam)' = U!EnabledAdmins(sam)
         /\ \A n : Enabled(n)' <=> Enabled(n)
<1>1. U!TrueAdmins' = U!TrueAdmins
  BY DEF U!Quiet, U!TrueAdmins, U!Closed
<1> QED BY <1>1 DEF U!Quiet, IsSam, U!EnabledAdmins, Enabled

LEMMA EndsMutation ==
  ASSUME UInv, mutation' = U!NoMutation, nChanges' = nChanges, IsSam(sam)'
  PROVE  UInv'
BY NoMutationIs DEF UInv

LEMMA FailsWell == ASSUME UInv, U!Fail PROVE UInv'
BY EndsMutation, QuietKeeps DEF U!Fail, U!Finish, U!Quiet, UInv

\* The account is the one that was resolved, and what was read of it stays.
LEMMA StaysResolved ==
  ASSUME UInv, U!Quiet, Mutating(mutation), AsResolved(mutation),
         mutation'.of = mutation.of, mutation'.sid = mutation.sid
  PROVE  /\ Target(mutation)' = Target(mutation)
         /\ Target(mutation)' \in U!Names /\ sam'[Target(mutation)'].sid = mutation'.sid
         /\ mutation'.sid \notin U!ReservedRids /\ mutation'.sid # "none"
BY DEF AsResolved, Target, U!Quiet

LEMMA UsersStep == UInv /\ [U!Next]_(U!users) => UInv'
<1> SUFFICES ASSUME UInv, [U!Next]_(U!users) PROVE UInv'
  OBVIOUS
<1> USE NoMutationIs
<1>1. CASE UNCHANGED U!users
  <2>1. U!Quiet /\ mutation' = mutation
    BY <1>1 DEF U!users, U!Quiet
  <2>2. AsResolved(mutation) => AsResolved(mutation)'
    BY <2>1, QuietKeeps DEF AsResolved, AnotherRemains, Target, U!Quiet
  <2> QED BY <2>1, <2>2, QuietKeeps DEF UInv, U!Quiet
<1>2. ASSUME NEW o \in Mutations, U!Begin(o) PROVE UInv'
  <2>1. UNCHANGED << sam, nChanges >> /\ Mutating(mutation') /\ mutation'.since = nChanges
        /\ mutation'.pc \in {"resolve", "refuse"} /\ DOMAIN mutation'.facts = {"enabled", "admin", "others"}
    BY <1>2 DEF U!Begin, Mutating
  <2>2. IsSam(sam)'
    BY <2>1 DEF UInv, IsSam
  <2> QED BY <2>1, <2>2 DEF UInv
<1>3. CASE U!Fail \/ U!Refuse
  BY <1>3, FailsWell DEF U!Refuse
<1>4. CASE U!Resolve /\ ~U!Fail
  <2> DEFINE n == mutation.of.name
             pc == U!AfterResolve(mutation.of)
  <2>1. /\ mutation.pc = "resolve" /\ n \in U!Names /\ sam[n].sid # "none" /\ sam[n].sid \notin U!ReservedRids
        /\ mutation' = [mutation EXCEPT !.pc = pc, !.sid = sam[n].sid] /\ U!Quiet
    BY <1>4 DEF U!Resolve, U!Exists, U!GuardProtectedRID
  <2>2. pc \in {"targetFlags", "flags", "password"} /\ (pc = "targetFlags" => mutation.of.action = "LOCK")
        /\ (pc = "flags" => mutation.of.action # "LOCK")
    BY DEF U!AfterResolve
  <2> HIDE DEF pc
  <2>3. Mutating(mutation)
    BY <2>1 DEF UInv
  <2>4. /\ Mutating(mutation') /\ mutation'.pc = pc /\ mutation'.sid = sam[n].sid
        /\ mutation'.of = mutation.of /\ mutation'.since = mutation.since /\ mutation'.facts = mutation.facts
    BY <2>1, <2>3 DEF Mutating
  <2>5. AsResolved(mutation)'
    BY <2>1, <2>2, <2>4 DEF AsResolved, Target, U!Quiet
  <2> QED BY <2>1, <2>2, <2>4, <2>5, QuietKeeps DEF UInv, U!Quiet
<1>5. CASE U!TargetFlags /\ ~U!Fail
  <2>1. /\ mutation.pc = "targetFlags" /\ U!Quiet
        /\ mutation' = [mutation EXCEPT !.pc = "admins", !.facts.enabled = Enabled(Target(mutation))]
    BY <1>5 DEF U!TargetFlags, Enabled, Target
  <2>2. Mutating(mutation) /\ DOMAIN mutation.facts = {"enabled", "admin", "others"}
    BY <2>1 DEF UInv
  <2>3. /\ Mutating(mutation') /\ mutation'.pc = "admins" /\ mutation'.sid = mutation.sid
        /\ mutation'.of = mutation.of /\ mutation'.since = mutation.since
        /\ DOMAIN mutation'.facts = DOMAIN mutation.facts
        /\ (mutation'.facts.enabled <=> Enabled(Target(mutation)))
    BY <2>1, <2>2 DEF Mutating
  <2>4. AsResolved(mutation) => AsResolved(mutation)'
    BY <2>1, <2>2, <2>3, StaysResolved, QuietKeeps DEF AsResolved
  <2> QED BY <2>1, <2>2, <2>3, <2>4, QuietKeeps DEF UInv, U!Quiet
<1>6. CASE U!Admins /\ ~U!Fail
  <2> DEFINE admin == mutation.sid \in U!AdminUsers
  <2>1. /\ mutation.pc = "admins" /\ U!Quiet /\ U!ExpansionReadable
        /\ mutation' = [mutation EXCEPT !.pc = "list", !.flags = [sid |-> "set", admins |-> U!AdminUsers],
                                        !.facts.admin = admin]
    BY <1>6 DEF U!Admins
  <2>2. Mutating(mutation) /\ DOMAIN mutation.facts = {"enabled", "admin", "others"}
    BY <2>1 DEF UInv
  <2>3. admin <=> mutation.sid \in U!TrueAdmins
    BY <2>1, AllAreCounted
  <2> HIDE DEF admin
  <2>4. /\ Mutating(mutation') /\ mutation'.pc = "list" /\ mutation'.sid = mutation.sid
        /\ mutation'.of = mutation.of /\ mutation'.since = mutation.since
        /\ DOMAIN mutation'.facts = DOMAIN mutation.facts
        /\ mutation'.facts.enabled = mutation.facts.enabled
        /\ (mutation'.facts.admin <=> admin) /\ mutation'.flags.admins = U!AdminUsers
    BY <2>1, <2>2 DEF Mutating
  <2>5. AsResolved(mutation) => AsResolved(mutation)'
    BY <2>1, <2>2, <2>3, <2>4, StaysResolved, QuietKeeps, AllAreCounted DEF AsResolved
  <2> QED BY <2>1, <2>2, <2>4, <2>5, QuietKeeps DEF UInv, U!Quiet
<1>7. CASE U!List /\ ~U!Fail
  <2>1. PICK counted \in SUBSET U!OthersEnabled(mutation.flags.admins) :
          LET f == [mutation.facts EXCEPT !.others = U!Cardinality(counted)]
          IN  /\ mutation.pc = "list" /\ U!Quiet /\ ~U!LockoutRefused(f)
              /\ mutation' = [mutation EXCEPT !.pc = "flags", !.facts = f, !.flags = U!NoAccount]
    BY <1>7 DEF U!List
  <2> DEFINE f == [mutation.facts EXCEPT !.others = U!Cardinality(counted)]
  <2>2. Mutating(mutation) /\ DOMAIN mutation.facts = {"enabled", "admin", "others"}
    BY <2>1 DEF UInv
  <2>3. DOMAIN f = {"enabled", "admin", "others"} /\ f.others = U!Cardinality(counted)
        /\ f.enabled = mutation.facts.enabled /\ f.admin = mutation.facts.admin
    BY <2>2
  <2> HIDE DEF f
  <2>4. /\ mutation.pc = "list" /\ U!Quiet /\ ~U!LockoutRefused(f)
        /\ mutation' = [mutation EXCEPT !.pc = "flags", !.facts = f, !.flags = U!NoAccount]
    BY <2>1 DEF f
  <2>5. /\ Mutating(mutation') /\ mutation'.pc = "flags" /\ mutation'.sid = mutation.sid
        /\ mutation'.of = mutation.of /\ mutation'.since = mutation.since /\ mutation'.facts = f
    BY <2>2, <2>4 DEF Mutating
  <2>6. ASSUME AsResolved(mutation) PROVE AnotherRemains(mutation) \/ Target(mutation) \notin U!EnabledAdmins(sam)
    <3>1. CASE counted = {}
      <4>1. f.others = 0
        BY <2>3, <3>1, NoneIsNone
      <4>2. ~f.enabled \/ ~f.admin
        BY <2>4, <4>1 DEF U!LockoutRefused
      <4>3. ~Enabled(Target(mutation)) \/ sam[Target(mutation)].sid \notin U!TrueAdmins
        BY <2>3, <2>4, <2>6, <4>2 DEF AsResolved
      <4> QED BY <4>3 DEF Enabled, U!EnabledAdmins
    <3>2. CASE counted # {}
      <4>1. PICK n \in counted : TRUE
        BY <3>2
      <4>2. n \in U!OthersEnabled(mutation.flags.admins) /\ mutation.flags.admins = U!TrueAdmins
        BY <2>1, <2>4, <2>6, <4>1 DEF AsResolved
      <4>3. n \in U!Names \ {Target(mutation)} /\ n \in U!EnabledAdmins(sam)
        BY <4>2 DEF U!OthersEnabled, U!EnabledAdmins, Target
      <4> QED BY <4>3 DEF AnotherRemains
    <3> QED BY <3>1, <3>2
  <2>7. AsResolved(mutation) => AsResolved(mutation)'
    <3> SUFFICES ASSUME AsResolved(mutation) PROVE AsResolved(mutation)'
      OBVIOUS
    <3>1. Target(mutation)' = Target(mutation)
      BY <2>5 DEF Target
    <3>2. AnotherRemains(mutation) => AnotherRemains(mutation)'
      BY <2>4, <3>1, QuietKeeps DEF AnotherRemains
    <3> QED BY <2>2, <2>4, <2>5, <2>6, <3>1, <3>2, StaysResolved, QuietKeeps DEF AsResolved
  <2> QED BY <2>3, <2>4, <2>5, <2>7, QuietKeeps DEF UInv, U!Quiet
<1>8. CASE U!ReadFlags /\ ~U!Fail
  <2>1. /\ mutation.pc = "flags" /\ U!Quiet /\ Target(mutation) \in U!Names /\ sam[Target(mutation)].sid # "none"
        /\ mutation' = [mutation EXCEPT !.pc = "write", !.flags = sam[Target(mutation)]]
    BY <1>8 DEF U!ReadFlags, U!Exists, Target
  <2>2. Mutating(mutation)
    BY <2>1 DEF UInv
  <2>3. /\ Mutating(mutation') /\ mutation'.pc = "write" /\ mutation'.sid = mutation.sid
        /\ mutation'.of = mutation.of /\ mutation'.since = mutation.since
        /\ mutation'.facts = mutation.facts /\ mutation'.flags = sam[Target(mutation)]
    BY <2>1, <2>2 DEF Mutating
  <2>4. U!IsAccount(sam[Target(mutation)])
    BY <2>1 DEF UInv, IsSam, U!NoAccount
  <2>5. AsResolved(mutation) => AsResolved(mutation)'
    <3>1. Target(mutation)' = Target(mutation)
      BY <2>3 DEF Target
    <3>2. AnotherRemains(mutation) => AnotherRemains(mutation)'
      BY <2>1, <3>1, QuietKeeps DEF AnotherRemains
    <3> QED BY <2>1, <2>2, <2>3, <3>1, <3>2, StaysResolved, QuietKeeps DEF AsResolved
  <2>6. U!IsAccount(mutation.flags)'
    BY <2>3, <2>4 DEF U!IsAccount
  <2> QED BY <2>1, <2>3, <2>5, <2>6, QuietKeeps DEF UInv, U!Quiet
<1>9. CASE (U!WriteFlags \/ U!SetPassword) /\ ~U!Fail
  <2>1. IsSam(sam)' /\ mutation' = U!NoMutation /\ nChanges' = nChanges
    <3>1. IsSam(sam)
      BY DEF UInv
    <3>2. /\ mutation' = U!NoMutation /\ nChanges' = nChanges /\ Target(mutation) \in U!Names
          /\ sam[Target(mutation)].sid # "none"
      BY <1>9 DEF U!WriteFlags, U!SetPassword, U!Fail, U!Quiet, U!Finish, U!Exists, Target
    <3>3. U!IsAccount(sam[Target(mutation)])
      BY <3>1, <3>2 DEF IsSam, U!NoAccount
    <3>4. \E account : U!IsAccount(account) /\ sam' = [sam EXCEPT ![Target(mutation)] = account]
      BY <1>9, <3>3 DEF U!WriteFlags, U!SetPassword, U!Fail, U!Quiet, U!SetUserInfo, U!IsAccount, Target
    <3> QED BY <3>1, <3>2, <3>4 DEF IsSam
  <2> QED BY <2>1, EndsMutation
<1>10. CASE U!Change
  <2>1. nChanges' = nChanges + 1 /\ mutation' = mutation
    BY <1>10 DEF U!Change
  <2>2. IsSam(sam) /\ nChanges \in Nat
    BY DEF UInv
  <2>3. IsSam(sam)'
    BY <1>10, <2>2 DEF U!Change, U!Exists, IsSam, U!IsAccount, U!NoAccount
  <2>4. mutation.pc # "idle" => mutation'.since # nChanges'
    BY <2>1 DEF UInv
  <2> QED BY <2>1, <2>2, <2>3, <2>4 DEF UInv
<1> QED BY <1>1, <1>2, <1>3, <1>4, <1>5, <1>6, <1>7, <1>8, <1>9, <1>10 DEF U!Next, U!Agent

LEMMA AdminStays ==
  UInv /\ [Next]_commands =>
    [U!Agent /\ U!Undisturbed /\ U!EnabledAdmins(sam) # {} => U!EnabledAdmins(sam') # {}]_(U!users)
<1> SUFFICES ASSUME UInv, U!Agent, U!Undisturbed, U!EnabledAdmins(sam) # {} PROVE U!EnabledAdmins(sam') # {}
  OBVIOUS
<1>1. CASE sam' = sam
  BY <1>1
<1>2. CASE U!WriteFlags /\ sam' # sam
  <2> DEFINE n == mutation.of.name
             f == U!NewFlags(mutation.flags, mutation.of.action = "LOCK")
  <2>1. /\ mutation.pc = "write" /\ n \in U!Names
        /\ sam' = [sam EXCEPT ![n] = [sam[n] EXCEPT !.disabled = f.disabled, !.lockout = f.lockout]]
    BY <1>2 DEF U!WriteFlags, U!Fail, U!Quiet, U!SetUserInfo, U!Exists
  <2>2. AsResolved(mutation) /\ U!IsAccount(mutation.flags)
    BY <2>1, NoMutationIs DEF UInv, U!Undisturbed
  <2>3. DOMAIN sam = U!Names /\ DOMAIN sam[n] = {"sid", "disabled", "lockout", "password"}
    BY <2>1, <2>2 DEF UInv, IsSam, AsResolved, Target, U!NoAccount, U!IsAccount
  <2>4. mutation.of.action # "LOCK" => ~f.disabled
    BY <2>2 DEF U!NewFlags, U!IsAccount
  <2> HIDE DEF f
  <2>5. /\ sam'[n].sid = sam[n].sid /\ sam'[n].disabled = f.disabled
        /\ \A k \in U!Names \ {n} : sam'[k] = sam[k]
    BY <2>1, <2>3
  <2>6. CASE mutation.of.action # "LOCK"
    <3>1. U!EnabledAdmins(sam) \subseteq U!EnabledAdmins(sam')
      BY <2>4, <2>5, <2>6 DEF U!EnabledAdmins
    <3> QED BY <3>1
  <2>7. CASE AnotherRemains(mutation)
    BY <2>5, <2>7 DEF AnotherRemains, Target, U!EnabledAdmins
  <2>8. CASE n \notin U!EnabledAdmins(sam)
    <3>1. PICK k \in U!EnabledAdmins(sam) : k # n
      BY <2>8
    <3>2. k \in U!EnabledAdmins(sam')
      BY <2>5, <3>1 DEF U!EnabledAdmins
    <3> QED BY <3>2
  <2> QED BY <2>1, <2>2, <2>6, <2>7, <2>8 DEF AsResolved, Target
<1>3. CASE U!SetPassword /\ sam' # sam
  <2> DEFINE n == mutation.of.name
  <2>1. n \in U!Names /\ sam[n].sid # "none" /\ sam' = [sam EXCEPT ![n] = [sam[n] EXCEPT !.password = "new"]]
    BY <1>3 DEF U!SetPassword, U!Fail, U!Quiet, U!SetUserInfo, U!Exists
  <2>2. DOMAIN sam = U!Names /\ DOMAIN sam[n] = {"sid", "disabled", "lockout", "password"}
    BY <2>1 DEF UInv, IsSam, U!NoAccount, U!IsAccount
  <2>3. \A k \in U!Names : sam'[k].sid = sam[k].sid /\ sam'[k].disabled = sam[k].disabled
    BY <2>1, <2>2
  <2>4. U!EnabledAdmins(sam') = U!EnabledAdmins(sam)
    BY <2>3 DEF U!EnabledAdmins
  <2> QED BY <2>4
<1>4. CASE U!Refuse \/ U!Resolve \/ U!TargetFlags \/ U!Admins \/ U!List \/ U!ReadFlags
  <2>1. sam' = sam
    BY <1>4 DEF U!Refuse, U!Resolve, U!TargetFlags, U!Admins, U!List, U!ReadFlags, U!Fail, U!Quiet
  <2> QED BY <2>1
<1> QED BY <1>1, <1>2, <1>3, <1>4 DEF U!Agent

LEMMA BuiltInsStay ==
  UInv /\ [Next]_commands =>
    [U!Agent /\ U!Undisturbed =>
       \A n \in U!Names : sam[n].sid \in U!ReservedRids => sam'[n] = sam[n]]_(U!users)
<1> SUFFICES ASSUME UInv, U!Agent, U!Undisturbed, NEW n \in U!Names, sam[n].sid \in U!ReservedRids
             PROVE  sam'[n] = sam[n]
  OBVIOUS
<1>1. CASE U!Refuse \/ U!Resolve \/ U!TargetFlags \/ U!Admins \/ U!List \/ U!ReadFlags \/ U!Fail
  BY <1>1 DEF U!Refuse, U!Resolve, U!TargetFlags, U!Admins, U!List, U!ReadFlags, U!Fail, U!Quiet
<1>2. CASE (U!WriteFlags \/ U!SetPassword) /\ ~U!Fail
  <2>1. mutation.pc \in {"write", "password"} /\ DOMAIN sam' = DOMAIN sam
        /\ \A k \in DOMAIN sam : k # Target(mutation) => sam'[k] = sam[k]
    BY <1>2 DEF U!WriteFlags, U!SetPassword, U!SetUserInfo, Target
  <2>2. AsResolved(mutation) /\ DOMAIN sam = U!Names
    BY <2>1 DEF UInv, U!Undisturbed, IsSam
  <2>3. n # Target(mutation)
    BY <2>2 DEF AsResolved
  <2> QED BY <2>1, <2>2, <2>3
<1> QED BY <1>1, <1>2 DEF U!Agent

(* No series of account commands leaves the host without an enabled local    *)
(* administrator, through any nesting of groups the agent's walk can follow, *)
(* and none changes an account with a built-in SID, as long as nobody else   *)
(* changes accounts or groups while one is under way.                        *)
THEOREM AccountsAreKept == Spec => AccountsKept
<1>1. Init => UInv
  BY PartsBegin, UsersInit
<1>2. UInv /\ [Next]_commands => UInv'
  BY EachPartMoves, UsersStep
<1> QED BY <1>1, <1>2, AdminStays, BuiltInsStay, PTL DEF Spec, AccountsKept, U!AdminRemains, U!BuiltInsUntouched
=============================================================================
