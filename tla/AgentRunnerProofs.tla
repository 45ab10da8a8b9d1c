-------------------------- MODULE AgentRunnerProofs --------------------------
(***************************************************************************)
(* What the HMAC agent keeps, for any number of credentials, deaths of the *)
(* process and failing reads and writes: the types, a confirmed credential *)
(* on disk, a host that is not stranded, and a blob that only moves on.    *)
(***************************************************************************)
EXTENDS AgentRunner, TLAPS

AgentRecords ==
  [at : Places, identity : 0..MaxIssued, token : BOOLEAN, persisted : BOOLEAN,
   again : BOOLEAN, misread : BOOLEAN]

(* What "persisted" vouches for, and what keeps every credential in reach  *)
(* below the next one to be issued.                                        *)
Vouched ==
  /\ agent.persisted /\ agent.identity # 0 => store = agent.identity
  /\ agent.identity <= issued
  /\ At("persist") => ~agent.persisted /\ (store \in Credentials => store < agent.identity)
  /\ store \in Credentials => store <= issued

(* The token leaves the environment only after a confirmation.             *)
TokenOrSentinel == token \in BOOLEAN /\ (token \/ sentinel # 0)

IInv ==
  TypeOK /\ Vouched /\ TokenOrSentinel /\ ConfirmedIsStored /\ StrandedOnlyByMisread
-----------------------------------------------------------------------------
LEMMA InitSafe == Init => IInv
<1> SUFFICES ASSUME Init PROVE IInv
  OBVIOUS
<1>1. store \notin Credentials /\ store \in {None, Corrupt}
  BY NoBlobAssumption DEF Init, Credentials
<1>2. agent \in AgentRecords /\ agent.at = "down" /\ agent.identity = 0 /\ ~agent.persisted
  BY LimitsAssumption DEF Init, Down, AgentRecords, Places
<1>3. TypeOK
  BY <1>1, <1>2, LimitsAssumption DEF Init, TypeOK, AgentRecords, Fresh, At
<1> QED
  BY <1>1, <1>2, <1>3 DEF Init, IInv, Vouched, TokenOrSentinel, ConfirmedIsStored,
                          StrandedOnlyByMisread, At

(* A failure only moves the tracker within its range.                      *)
LEMMA FailedTyped ==
  ASSUME NEW t \in [state : {"STARTING", "ONLINE", "DEGRADED", "OFFLINE"}, failures : 0..10]
  PROVE  Failed(t) \in [state : {"STARTING", "ONLINE", "DEGRADED", "OFFLINE"},
                        failures : 0..10]
BY DEF Failed

(* Every step keeps the parts that no property is about.                   *)
LEMMA CountersTyped ==
  ASSUME TypeOK, Next
  PROVE  /\ token' \in BOOLEAN /\ stale' \in BOOLEAN
         /\ tracker' \in [state : {"STARTING", "ONLINE", "DEGRADED", "OFFLINE"},
                          failures : 0..10]
         /\ streak' \in 0..3
         /\ crashes' \in 0..MaxCrashes /\ faults' \in 0..MaxFaults
<1> DEFINE Trackers == [state : {"STARTING", "ONLINE", "DEGRADED", "OFFLINE"},
                        failures : 0..10]
<1>1. token' \in BOOLEAN /\ stale' \in BOOLEAN
  BY DEF TypeOK, Next, Iteration, Start, Begin, Enroll, Persist, HeartbeatAccepted,
         HeartbeatUnauthorized, HeartbeatFails, Poll, Execute, Submit, Fallback, Crash,
         Revoke, RemoveToken, Outside
<1>2. streak' \in 0..3
  <2>1. streak' \in {0, streak, IF streak < 3 THEN streak + 1 ELSE 3}
    BY DEF Next, Iteration, Start, Begin, Enroll, Persist, HeartbeatAccepted,
           HeartbeatUnauthorized, HeartbeatFails, Poll, Execute, Submit, Fallback, Crash,
           Revoke, RemoveToken, Outside, Missed
  <2>2. streak \in 0..3
    BY DEF TypeOK
  <2> QED BY <2>1, <2>2
<1>7. crashes' \in 0..MaxCrashes
  <2>1. crashes' = crashes \/ (crashes < MaxCrashes /\ crashes' = crashes + 1)
    BY DEF Next, Iteration, Start, Begin, Enroll, Persist, HeartbeatAccepted,
           HeartbeatUnauthorized, HeartbeatFails, Poll, Execute, Submit, Fallback, Crash,
           Revoke, RemoveToken, Outside
  <2>2. crashes \in 0..MaxCrashes
    BY DEF TypeOK
  <2> QED BY <2>1, <2>2, LimitsAssumption
<1>8. faults' \in 0..MaxFaults
  <2>1. faults' = faults \/ (faults < MaxFaults /\ faults' = faults + 1)
    BY DEF Next, Iteration, Start, Begin, Enroll, Persist, HeartbeatAccepted,
           HeartbeatUnauthorized, HeartbeatFails, Poll, Execute, Submit, Fallback, Crash,
           Revoke, RemoveToken, Outside, Reads
  <2>2. faults \in 0..MaxFaults
    BY DEF TypeOK
  <2> QED BY <2>1, <2>2, LimitsAssumption
<1>3. tracker \in Trackers /\ Failed(tracker) \in Trackers
  BY FailedTyped DEF TypeOK
<1>4. [state |-> "ONLINE", failures |-> 0] \in Trackers /\ Fresh \in Trackers
  BY DEF Fresh
<1>5. Failed([state |-> "ONLINE", failures |-> 0]) \in Trackers
  BY <1>4, FailedTyped
<1>6. tracker' \in {tracker, Failed(tracker), [state |-> "ONLINE", failures |-> 0], Fresh,
                    Failed([state |-> "ONLINE", failures |-> 0])}
  BY DEF Next, Iteration, Start, Begin, Enroll, Persist, HeartbeatAccepted,
         HeartbeatUnauthorized, HeartbeatFails, Poll, Execute, Submit, Fallback, Crash,
         Revoke, RemoveToken, Outside, Success, Fail
<1> QED BY <1>1, <1>2, <1>3, <1>4, <1>5, <1>6, <1>7, <1>8

-----------------------------------------------------------------------------
(* The part of IInv about the credentials: one lemma per action shows that *)
(* the action keeps it.                                                    *)
Files ==
  /\ store \in {None, Corrupt} \union Credentials
  /\ issued \in 0..MaxIssued /\ revoked \subseteq Credentials
  /\ sentinel \in 0..MaxIssued
  /\ agent \in AgentRecords
  /\ At("persist") \/ At("heartbeat") => agent.identity # 0

Kept ==
  Files /\ Vouched /\ TokenOrSentinel /\ ConfirmedIsStored /\ StrandedOnlyByMisread

LEMMA InvKept == IInv => Kept
BY DEF IInv, Kept, Files, TypeOK, AgentRecords

(* Places where the agent holds nothing that is not yet on disk.           *)
Waiting == {"idle", "poll", "execute", "submit", "fallback"}

(* Going to such a place with files and backend as they are changes        *)
(* nothing that Kept speaks of.                                            *)
LEMMA GoingKept ==
  ASSUME Kept, NEW s \in Waiting, Goto(s),
         UNCHANGED << store, token, issued, revoked, sentinel >>
  PROVE  Kept'
<1>1. agent' \in AgentRecords
  BY DEF Kept, Files, AgentRecords, Goto, Waiting, Places
<1>2. agent'.at = s /\ agent'.identity = agent.identity /\ agent'.persisted = agent.persisted
  BY DEF Kept, Files, AgentRecords, Goto
<1>3. s \notin {"persist", "heartbeat", "stranded"}
  BY DEF Waiting
<1>4. Files'
  BY <1>1, <1>2, <1>3 DEF Kept, Files, At, Credentials
<1>5. Vouched'
  BY <1>2, <1>3 DEF Kept, Vouched, At, Credentials
<1>6. TokenOrSentinel' /\ ConfirmedIsStored' /\ StrandedOnlyByMisread'
  BY <1>2, <1>3 DEF Kept, TokenOrSentinel, ConfirmedIsStored, StrandedOnlyByMisread, At,
                    Credentials
<1> QED BY <1>4, <1>5, <1>6 DEF Kept

(* A new process holds nothing; on a host without a token it is stranded   *)
(* only if the credential that took the token's place cannot be read.      *)
LEMMA StartKept == ASSUME Kept, Start PROVE Kept'
<1>1. PICK readable \in BOOLEAN :
        /\ Reads(readable)
        /\ agent' = [Down EXCEPT !.at = IF HmacMode(readable) THEN "idle" ELSE "stranded",
                                 !.token = token,
                                 !.misread = store \in Credentials /\ ~readable]
  BY DEF Start
<1>2. UNCHANGED << store, token, stale, issued, revoked, sentinel >>
  BY DEF Start
<1>3. /\ agent'.at = (IF HmacMode(readable) THEN "idle" ELSE "stranded")
      /\ agent'.identity = 0 /\ agent'.persisted = FALSE
      /\ agent'.misread = (store \in Credentials /\ ~readable)
  BY <1>1 DEF Down
<1>4. agent' \in AgentRecords
  <2>1. token \in BOOLEAN
    BY DEF Start, Kept, TokenOrSentinel
  <2> DEFINE s == IF HmacMode(readable) THEN "idle" ELSE "stranded"
             m == store \in Credentials /\ ~readable
  <2>2. s \in Places /\ m \in BOOLEAN /\ 0 \in 0..MaxIssued
    BY LimitsAssumption DEF Places
  <2>3. agent' = [Down EXCEPT !.at = s, !.token = token, !.misread = m]
    BY <1>1
  <2> HIDE DEF s, m
  <2> QED BY <2>1, <2>2, <2>3 DEF Down, AgentRecords
<1>5. agent'.at \in {"idle", "stranded"}
  BY <1>3
<1>6. Files'
  BY <1>2, <1>4, <1>5 DEF Kept, Files, At, Credentials
<1>7. Vouched'
  BY <1>2, <1>3, <1>5 DEF Kept, Files, Vouched, At, Credentials
<1>8. TokenOrSentinel' /\ ConfirmedIsStored'
  BY <1>2 DEF Kept, TokenOrSentinel, ConfirmedIsStored, Credentials
<1>9. StrandedOnlyByMisread'
  <2> SUFFICES ASSUME agent'.at = "stranded" PROVE agent'.misread
    BY DEF StrandedOnlyByMisread, At
  <2>1. ~token /\ ~readable
    BY <1>3 DEF HmacMode
  <2>2. store \in Credentials
    BY <2>1 DEF Kept, TokenOrSentinel, ConfirmedIsStored
  <2> QED BY <1>3, <2>1, <2>2
<1> QED BY <1>6, <1>7, <1>8, <1>9 DEF Kept

(* What an iteration takes from the blob is no later than what was issued. *)
LEMMA BeginKept == ASSUME Kept, Begin PROVE Kept'
<1>1. UNCHANGED << store, token, stale, issued, revoked, sentinel >>
  BY DEF Begin
<1>2. CASE agent.identity # 0
  <2>1. agent' = [agent EXCEPT !.at = "heartbeat", !.again = FALSE]
    BY <1>2 DEF Begin
  <2>2. /\ agent' \in AgentRecords /\ agent'.at = "heartbeat"
        /\ agent'.identity = agent.identity /\ agent'.persisted = agent.persisted
    BY <2>1 DEF Kept, Files, AgentRecords, Places
  <2>3. Files' /\ Vouched'
    BY <1>1, <1>2, <2>2 DEF Kept, Files, Vouched, At, Credentials
  <2>4. TokenOrSentinel' /\ ConfirmedIsStored' /\ StrandedOnlyByMisread'
    BY <1>1, <2>2 DEF Kept, TokenOrSentinel, ConfirmedIsStored, StrandedOnlyByMisread, At,
                      Credentials
  <2> QED BY <2>3, <2>4 DEF Kept
<1>3. CASE agent.identity = 0 /\ store \in Credentials
                 /\ agent' = [agent EXCEPT !.at = "heartbeat", !.again = FALSE,
                                           !.identity = store, !.persisted = FALSE]
  <2>0. agent \in AgentRecords /\ store \in 0..MaxIssued
    BY <1>3, LimitsAssumption DEF Kept, Files, Credentials
  <2>1. /\ agent' \in AgentRecords /\ agent'.at = "heartbeat"
        /\ agent'.identity = store /\ agent'.persisted = FALSE
    BY <1>3, <2>0 DEF AgentRecords, Places
  <2>2. Files' /\ Vouched'
    BY <1>1, <1>3, <2>1, LimitsAssumption DEF Kept, Files, Vouched, At, Credentials
  <2>3. TokenOrSentinel' /\ ConfirmedIsStored' /\ StrandedOnlyByMisread'
    BY <1>1, <2>1 DEF Kept, TokenOrSentinel, ConfirmedIsStored, StrandedOnlyByMisread, At,
                      Credentials
  <2> QED BY <2>2, <2>3 DEF Kept
<1>4. CASE agent' = [agent EXCEPT !.at = "enroll", !.again = FALSE]
  <2>1. /\ agent' \in AgentRecords /\ agent'.at = "enroll"
        /\ agent'.identity = agent.identity /\ agent'.persisted = agent.persisted
    BY <1>4 DEF Kept, Files, AgentRecords, Places
  <2>2. Files' /\ Vouched'
    BY <1>1, <2>1 DEF Kept, Files, Vouched, At, Credentials
  <2>3. TokenOrSentinel' /\ ConfirmedIsStored' /\ StrandedOnlyByMisread'
    BY <1>1, <2>1 DEF Kept, TokenOrSentinel, ConfirmedIsStored, StrandedOnlyByMisread, At,
                      Credentials
  <2> QED BY <2>2, <2>3 DEF Kept
<1> QED BY <1>2, <1>3, <1>4 DEF Begin, Reads

(* A credential just issued is later than any blob.                        *)
LEMMA EnrollKept == ASSUME Kept, Enroll PROVE Kept'
<1>1. UNCHANGED << store, token, stale, revoked, sentinel >>
  BY DEF Enroll
<1>2. CASE /\ issued < MaxIssued /\ issued' = issued + 1
           /\ agent' = [agent EXCEPT !.at = "persist", !.identity = issued + 1,
                                     !.persisted = FALSE]
  <2>1. issued + 1 \in 1..MaxIssued /\ issued + 1 \in 0..MaxIssued /\ agent \in AgentRecords
    BY <1>2, LimitsAssumption DEF Kept, Files
  <2>2. /\ agent' \in AgentRecords /\ agent'.at = "persist"
        /\ agent'.identity = issued + 1 /\ agent'.persisted = FALSE
    BY <1>2, <2>1 DEF AgentRecords, Places
  <2>3. Files'
    BY <1>1, <1>2, <2>1, <2>2 DEF Kept, Files, At, Credentials
  <2>4. Vouched'
    BY <1>1, <1>2, <2>1, <2>2 DEF Kept, Files, Vouched, At, Credentials
  <2>5. TokenOrSentinel' /\ ConfirmedIsStored' /\ StrandedOnlyByMisread'
    BY <1>1, <2>2 DEF Kept, TokenOrSentinel, ConfirmedIsStored, StrandedOnlyByMisread, At,
                      Credentials
  <2> QED BY <2>3, <2>4, <2>5 DEF Kept
<1>3. CASE issued < MaxIssued /\ issued' = issued + 1 /\ Goto("idle")
  <2>1. /\ agent' \in AgentRecords /\ agent'.at = "idle"
        /\ agent'.identity = agent.identity /\ agent'.persisted = agent.persisted
    BY <1>3 DEF Goto, Kept, Files, AgentRecords, Places
  <2>2. Files' /\ Vouched'
    BY <1>1, <1>3, <2>1, LimitsAssumption DEF Kept, Files, Vouched, At, Credentials,
                                              AgentRecords
  <2>3. TokenOrSentinel' /\ ConfirmedIsStored' /\ StrandedOnlyByMisread'
    BY <1>1, <2>1 DEF Kept, TokenOrSentinel, ConfirmedIsStored, StrandedOnlyByMisread, At,
                      Credentials
  <2> QED BY <2>2, <2>3 DEF Kept
<1>4. CASE UNCHANGED issued /\ Goto("idle")
  BY <1>1, <1>4, GoingKept DEF Waiting
<1> QED BY <1>2, <1>3, <1>4 DEF Enroll, Fail

(* The write puts a later credential in the place of the old one or fails, *)
(* and only the write that did not fail is vouched for.                    *)
LEMMA PersistKept == ASSUME Kept, Persist PROVE Kept'
<1>1. UNCHANGED << token, stale, issued, revoked, sentinel >> /\ agent.at = "persist"
  BY DEF Persist, At
<1>2. /\ agent.identity \in Credentials /\ agent.identity <= issued /\ ~agent.persisted
      /\ store \in Credentials => store < agent.identity
  BY <1>1, LimitsAssumption DEF Kept, Files, Vouched, At, Credentials, AgentRecords
<1>3. /\ agent' \in AgentRecords /\ agent'.at = "heartbeat"
      /\ agent'.identity = agent.identity
      /\ agent'.persisted /\ agent'.identity # 0 => store' = agent'.identity
  BY <1>2 DEF Persist, Goto, Kept, Files, AgentRecords, Places
<1>4. store' \in {store, agent.identity}
  BY DEF Persist
<1>5. Files'
  BY <1>1, <1>2, <1>3, <1>4 DEF Kept, Files, At, Credentials
<1>6. Vouched'
  BY <1>1, <1>2, <1>3, <1>4 DEF Kept, Files, Vouched, At, Credentials
<1>7. TokenOrSentinel' /\ StrandedOnlyByMisread'
  BY <1>1, <1>3 DEF Kept, TokenOrSentinel, StrandedOnlyByMisread, At
<1>8. ConfirmedIsStored'
  BY <1>1, <1>2, <1>4, LimitsAssumption DEF Kept, Files, ConfirmedIsStored, Credentials
<1> QED BY <1>5, <1>6, <1>7, <1>8 DEF Kept

(* What is confirmed is what persisted vouches for.                        *)
LEMMA HeartbeatKept == ASSUME Kept, HeartbeatAccepted PROVE Kept'
<1>1. /\ UNCHANGED << store, token, issued, revoked >>
      /\ agent.at = "heartbeat" /\ agent' = [agent EXCEPT !.at = "poll"]
  BY DEF HeartbeatAccepted, At, Goto
<1>2. /\ agent' \in AgentRecords /\ agent'.at = "poll"
      /\ agent'.identity = agent.identity /\ agent'.persisted = agent.persisted
  BY <1>1 DEF Kept, Files, AgentRecords, Places
<1>3. agent.identity # 0 /\ agent.identity \in 0..MaxIssued
  BY <1>1 DEF Kept, Files, At, AgentRecords
<1>4. \/ sentinel' = agent.identity /\ store = agent.identity
      \/ sentinel' = sentinel
  BY <1>3 DEF HeartbeatAccepted, Kept, Vouched
<1>5. Files' /\ Vouched'
  BY <1>1, <1>2, <1>3, <1>4 DEF Kept, Files, Vouched, At, Credentials
<1>6. TokenOrSentinel' /\ StrandedOnlyByMisread'
  BY <1>1, <1>2, <1>3, <1>4 DEF Kept, TokenOrSentinel, StrandedOnlyByMisread, At
<1>7. ConfirmedIsStored'
  BY <1>1, <1>3, <1>4, LimitsAssumption DEF Kept, Files, ConfirmedIsStored, Credentials
<1> QED BY <1>5, <1>6, <1>7 DEF Kept

(* A rejected credential is dropped from memory only.                      *)
LEMMA UnauthorizedKept == ASSUME Kept, HeartbeatUnauthorized PROVE Kept'
<1>1. UNCHANGED << store, token, issued, revoked, sentinel >>
  BY DEF HeartbeatUnauthorized, Outside
<1>2. CASE agent' = [agent EXCEPT !.at = "enroll", !.identity = 0, !.again = TRUE]
  <2>0. agent \in AgentRecords /\ 0 \in 0..MaxIssued
    BY LimitsAssumption DEF Kept, Files
  <2>1. agent' \in AgentRecords /\ agent'.at = "enroll" /\ agent'.identity = 0
    BY <1>2, <2>0 DEF AgentRecords, Places
  <2>2. Files' /\ Vouched'
    BY <1>1, <2>1, LimitsAssumption DEF Kept, Files, Vouched, At, Credentials
  <2>3. TokenOrSentinel' /\ ConfirmedIsStored' /\ StrandedOnlyByMisread'
    BY <1>1, <2>1 DEF Kept, TokenOrSentinel, ConfirmedIsStored, StrandedOnlyByMisread, At,
                      Credentials
  <2> QED BY <2>2, <2>3 DEF Kept
<1>3. CASE Goto("idle")
  BY <1>1, <1>3, GoingKept DEF Waiting
<1> QED BY <1>2, <1>3 DEF HeartbeatUnauthorized, Fail

LEMMA CrashKept == ASSUME Kept, Crash PROVE Kept'
<1>1. UNCHANGED << store, token, issued, revoked, sentinel >> /\ agent' = Down
  BY DEF Crash
<1>2. /\ agent' \in AgentRecords /\ agent'.at = "down"
      /\ agent'.identity = 0 /\ agent'.persisted = FALSE
  BY <1>1, LimitsAssumption DEF Down, AgentRecords, Places
<1>3. Files' /\ Vouched'
  BY <1>1, <1>2 DEF Kept, Files, Vouched, At, Credentials
<1>4. TokenOrSentinel' /\ ConfirmedIsStored' /\ StrandedOnlyByMisread'
  BY <1>1, <1>2 DEF Kept, TokenOrSentinel, ConfirmedIsStored, StrandedOnlyByMisread, At,
                    Credentials
<1> QED BY <1>3, <1>4 DEF Kept

(* A revocation, and the removal of the token after a confirmation.        *)
LEMMA OutsideKept == ASSUME Kept, Revoke \/ RemoveToken PROVE Kept'
<1>1. UNCHANGED << store, issued, sentinel, agent >>
  BY DEF Revoke, RemoveToken
<1>2. revoked' \subseteq Credentials
  <2>1. CASE Revoke
    <3>1. PICK c \in 1..issued : revoked' = revoked \union {c}
      BY <2>1 DEF Revoke
    <3>2. c \in Credentials
      BY LimitsAssumption DEF Kept, Files, Credentials
    <3> QED BY <3>1, <3>2 DEF Kept, Files
  <2>2. CASE RemoveToken
    BY <2>2 DEF RemoveToken, Kept, Files
  <2> QED BY <2>1, <2>2
<1>3. token' \in BOOLEAN /\ (token' \/ sentinel # 0)
  <2>1. CASE Revoke
    <3>1. token' = token
      BY <2>1 DEF Revoke
    <3> QED BY <3>1 DEF Kept, TokenOrSentinel
  <2>2. CASE RemoveToken
    BY <2>2 DEF RemoveToken
  <2> QED BY <2>1, <2>2
<1>4. TokenOrSentinel'
  BY <1>1, <1>3 DEF Kept, TokenOrSentinel
<1> QED
  BY <1>1, <1>2, <1>4 DEF Kept, Files, Vouched, ConfirmedIsStored, StrandedOnlyByMisread,
                          At, Credentials

LEMMA StepSafe == ASSUME IInv, Next PROVE IInv'
<1>0. Kept
  BY InvKept
<1>1. Kept'
  <2>1. CASE Start
    BY <1>0, <2>1, StartKept
  <2>2. CASE Begin
    BY <1>0, <2>2, BeginKept
  <2>3. CASE Enroll
    BY <1>0, <2>3, EnrollKept
  <2>4. CASE Persist
    BY <1>0, <2>4, PersistKept
  <2>5. CASE HeartbeatAccepted
    BY <1>0, <2>5, HeartbeatKept
  <2>6. CASE HeartbeatUnauthorized
    BY <1>0, <2>6, UnauthorizedKept
  <2>7. CASE HeartbeatFails
    BY <1>0, <2>7, GoingKept DEF HeartbeatFails, Fail, Outside, Waiting
  <2>8. CASE Poll
    BY <1>0, <2>8, GoingKept DEF Poll, Fail, Outside, Waiting
  <2>9. CASE Execute \/ Submit \/ Fallback
    BY <1>0, <2>9, GoingKept DEF Execute, Submit, Fallback, Fail, Outside, Waiting
  <2>10. CASE Crash
    BY <1>0, <2>10, CrashKept
  <2>11. CASE Revoke \/ RemoveToken
    BY <1>0, <2>11, OutsideKept
  <2> QED
    BY <2>1, <2>2, <2>3, <2>4, <2>5, <2>6, <2>7, <2>8, <2>9, <2>10, <2>11
       DEF Next, Iteration
<1>2. TypeOK'
  BY <1>1, CountersTyped DEF IInv, Kept, Files, TypeOK, AgentRecords
<1> QED BY <1>1, <1>2 DEF IInv, Kept

LEMMA Safe == Spec => []IInv
<1>1. IInv /\ [Next]_vars => IInv'
  <2> SUFFICES ASSUME IInv, [Next]_vars PROVE IInv'
    OBVIOUS
  <2>1. CASE Next
    BY <2>1, StepSafe
  <2>2. CASE UNCHANGED vars
    BY <2>2 DEF vars, IInv, TypeOK, Vouched, TokenOrSentinel, ConfirmedIsStored,
                StrandedOnlyByMisread, At, Credentials
  <2> QED BY <2>1, <2>2
<1> QED BY <1>1, InitSafe, PTL DEF Spec

-----------------------------------------------------------------------------
(* Every variable keeps its type, however many credentials are issued and  *)
(* however often the process dies.                                         *)
THEOREM TypeCorrect == Spec => []TypeOK
BY Safe, PTL DEF IInv

(* What the log calls confirmed is on disk, it or a later credential.      *)
THEOREM ConfirmedCredentialStored == Spec => []ConfirmedIsStored
BY Safe, PTL DEF IInv

(* A stale registry hint never takes the host out of the HMAC mode unless  *)
(* the read of its credential fails.                                       *)
THEOREM NeverStranded == Spec => []StrandedOnlyByMisread
BY Safe, PTL DEF IInv

(* The blob is replaced by nothing but a later credential: only Persist    *)
(* writes it, and what it writes was issued after what is there.           *)
THEOREM BlobRenewed == Spec => BlobOnlyRenewed
<1> DEFINE Renewed == store' # store => /\ store' \in Credentials
                                        /\ store \in Credentials => store' > store
<1>1. IInv /\ [Next]_vars => Renewed
  <2> SUFFICES ASSUME IInv, [Next]_vars, store' # store PROVE Renewed
    OBVIOUS
  <2>1. Persist
    BY DEF Next, Iteration, Start, Begin, Enroll, HeartbeatAccepted, HeartbeatUnauthorized,
           HeartbeatFails, Poll, Execute, Submit, Fallback, Crash, Revoke, RemoveToken,
           Outside, vars
  <2>2. store' = agent.identity /\ agent.at = "persist"
    BY <2>1 DEF Persist, At
  <2>3. agent.identity \in Credentials
    BY <2>2, LimitsAssumption DEF IInv, TypeOK, At, Credentials
  <2>4. store \in Credentials => store < agent.identity
    BY <2>2 DEF IInv, Vouched, At
  <2> QED BY <2>2, <2>3, <2>4, LimitsAssumption DEF Credentials
<1> QED BY <1>1, Safe, PTL DEF Spec, BlobOnlyRenewed
===============================================================================
