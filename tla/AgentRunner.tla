----------------------------- MODULE AgentRunner -----------------------------
(***************************************************************************)
(* The HMAC agent from process start to the next poll: the choice of mode  *)
(* (cmd/endpoint-agent/main.go), one iteration of Runner.RunOnce and its   *)
(* loop (internal/app/runner.go), the credential on disk (hmacstore), the  *)
(* connection-state tracker (internal/state), and beside them the backend, *)
(* which issues and revokes credentials, and the installer, which takes    *)
(* the enrollment token out of the service's environment when the log says *)
(* "hmac credential confirmed".                                            *)
(*                                                                         *)
(* Credentials are numbered in the order they are issued.  The process may *)
(* die between any two actions; a write of the credential may fail before  *)
(* or after its rename; any answer of the backend may be lost.             *)
(***************************************************************************)
EXTENDS Naturals

CONSTANTS
  None, Corrupt,        \* a store that is empty, a blob that cannot be used
  MaxIssued,            \* bound on the credentials issued
  MaxCrashes,           \* bound on the deaths of the process
  MaxFaults             \* bound on the failing reads and writes of the store

ASSUME LimitsAssumption ==
  MaxIssued \in Nat /\ MaxCrashes \in Nat /\ MaxFaults \in Nat

Credentials == 1..MaxIssued

ASSUME NoBlobAssumption == None \notin Nat /\ Corrupt \notin Nat /\ None # Corrupt

VARIABLES
  store,                \* the blob hmac-credential.dpapi
  token,                \* the service's environment carries an enrollment token
  stale,                \* a stale HKLM\SOFTWARE\EndpointAgent\Mode = auto-enroll
  agent,                \* the process
  tracker,              \* its state.Tracker
  issued, revoked,      \* the backend: credentials issued, credentials revoked
  sentinel,             \* the last credential the log calls confirmed, 0 if none
  streak,               \* history: iterations in a row that heartbeat or poll failed
  crashes, faults

vars == << store, token, stale, agent, tracker, issued, revoked, sentinel, streak,
           crashes, faults >>

\* The backend and the files are left alone.
Outside == << store, token, stale, issued, revoked, sentinel, crashes, faults >>

Down == [at |-> "down", identity |-> 0, token |-> FALSE, persisted |-> FALSE,
         again |-> FALSE, misread |-> FALSE]

Fresh == [state |-> "STARTING", failures |-> 0]

\* A first installation, or one over the blob of another machine or an older key.
Init ==
  /\ store \in {None, Corrupt} /\ token = TRUE /\ stale \in BOOLEAN
  /\ agent = Down /\ tracker = Fresh
  /\ issued = 0 /\ revoked = {} /\ sentinel = 0 /\ streak = 0
  /\ crashes = 0 /\ faults = 0

At(s) == agent.at = s
Goto(s) == agent' = [agent EXCEPT !.at = s]

-----------------------------------------------------------------------------
(* The tracker.                                                            *)

Success == tracker' = [state |-> "ONLINE", failures |-> 0]

\* RecordFailure; the counter stops at the last threshold.
Failed(t) ==
  LET n == IF t.failures < 10 THEN t.failures + 1 ELSE 10 IN
  [state |-> IF n >= 10 THEN "OFFLINE" ELSE IF n >= 3 THEN "DEGRADED" ELSE t.state,
   failures |-> n]

\* An iteration ends with an error: the loop logs it and waits for its ticker.
Fail(t) == Goto("idle") /\ tracker' = Failed(t)

\* History: how many iterations in a row the heartbeat or the poll has failed.
Missed == streak' = IF streak < 3 THEN streak + 1 ELSE 3

-----------------------------------------------------------------------------
(* The process.                                                            *)

\* A faulty variant of the next definition, for the mutation of the model.
HmacModeByToken(readable) == ~stale \/ token

\* hmacstore.Read: a valid blob is a credential, a failing read says nothing.
Reads(ok) ==
  IF ok THEN store \in Credentials /\ UNCHANGED faults
  ELSE \/ store \notin Credentials /\ UNCHANGED faults
       \/ faults < MaxFaults /\ faults' = faults + 1

\* decideMode on a host whose service environment names the HMAC URL: a stale
\* registry hint wins unless there is a token or a credential on disk.
HmacMode(readable) == ~stale \/ token \/ readable

\* The service starts its process; in the other mode it finds no certificate.
Start ==
  /\ At("down")
  /\ \E readable \in BOOLEAN :
       /\ Reads(readable)
       /\ agent' = [Down EXCEPT !.at = IF HmacMode(readable) THEN "idle" ELSE "stranded",
                                !.token = token,
                                !.misread = store \in Credentials /\ ~readable]
  /\ tracker' = Fresh
  /\ UNCHANGED << store, token, stale, issued, revoked, sentinel, streak, crashes >>

\* A faulty variant of the next definition, for the mutation of the model.
BeginEnrolled ==
  /\ At("idle")
  /\ agent' = [agent EXCEPT !.at = IF agent.identity = 0 THEN "enroll" ELSE "heartbeat",
                            !.again = FALSE]
  /\ UNCHANGED << store, token, stale, tracker, issued, revoked, sentinel, streak,
                  crashes, faults >>

\* RunOnce: without an identity the store is tried first.
Begin ==
  /\ At("idle")
  /\ IF agent.identity # 0
     THEN /\ agent' = [agent EXCEPT !.at = "heartbeat", !.again = FALSE]
          /\ UNCHANGED faults
     ELSE \E readable \in BOOLEAN :
            /\ Reads(readable)
            /\ agent' = IF readable
                        THEN [agent EXCEPT !.at = "heartbeat", !.again = FALSE,
                                           !.identity = store, !.persisted = FALSE]
                        ELSE [agent EXCEPT !.at = "enroll", !.again = FALSE]
  /\ UNCHANGED << store, token, stale, tracker, issued, revoked, sentinel, streak, crashes >>

\* The token buys a credential, unless the backend refuses it or nothing comes back;
\* what was issued then stays issued.
Enroll ==
  /\ At("enroll")
  /\ UNCHANGED << store, token, stale, revoked, sentinel, streak, crashes, faults >>
  /\ \/ /\ agent.token /\ issued < MaxIssued
        /\ issued' = issued + 1
        /\ agent' = [agent EXCEPT !.at = "persist", !.identity = issued + 1,
                                  !.persisted = FALSE]
        /\ UNCHANGED tracker
     \/ agent.token /\ issued < MaxIssued /\ issued' = issued + 1 /\ Fail(tracker)
     \/ UNCHANGED issued /\ Fail(tracker)

\* A faulty variant of the next definition, for the mutation of the model.
PersistAssumed ==
  /\ At("persist")
  /\ agent' = [agent EXCEPT !.at = "heartbeat", !.persisted = TRUE]
  /\ \/ store' = agent.identity /\ UNCHANGED faults
     \/ faults < MaxFaults /\ faults' = faults + 1 /\ UNCHANGED store
  /\ UNCHANGED << token, stale, tracker, issued, revoked, sentinel, streak, crashes >>

\* hmacstore.Write: the blob is replaced by a rename; an error before it leaves the
\* old blob, the error of the second hardening comes after it.
Persist ==
  /\ At("persist")
  /\ \/ /\ store' = agent.identity /\ UNCHANGED faults
        /\ agent' = [agent EXCEPT !.at = "heartbeat", !.persisted = TRUE]
     \/ /\ faults < MaxFaults /\ faults' = faults + 1
        /\ store' \in {store, agent.identity}
        /\ Goto("heartbeat")
  /\ UNCHANGED << token, stale, tracker, issued, revoked, sentinel, streak, crashes >>

\* The state sent is that of RecordSuccess, which comes before the request.
HeartbeatAccepted ==
  /\ At("heartbeat") /\ agent.identity \notin revoked
  /\ Goto("poll") /\ Success
  /\ sentinel' = IF agent.persisted THEN agent.identity ELSE sentinel
  /\ UNCHANGED << store, token, stale, issued, revoked, streak, crashes, faults >>

\* A faulty variant of the next definition, for the mutation of the model.
HeartbeatUnauthorizedClears ==
  /\ At("heartbeat") /\ Success /\ agent.token /\ ~agent.again
  /\ agent' = [agent EXCEPT !.at = "enroll", !.identity = 0, !.again = TRUE]
  /\ store' = None
  /\ UNCHANGED << token, stale, issued, revoked, sentinel, streak, crashes, faults >>

\* 401, of a revoked credential or of a request the backend did not believe: with a
\* token the identity is dropped, once an iteration, and the blob is kept.
HeartbeatUnauthorized ==
  /\ At("heartbeat")
  /\ IF agent.token /\ ~agent.again
     THEN /\ agent' = [agent EXCEPT !.at = "enroll", !.identity = 0, !.again = TRUE]
          /\ Success /\ UNCHANGED streak
     ELSE Fail([state |-> "ONLINE", failures |-> 0]) /\ Missed
  /\ UNCHANGED Outside

\* Another error, accepted=false, or the answer for another device.
HeartbeatFails ==
  /\ At("heartbeat")
  /\ Fail([state |-> "ONLINE", failures |-> 0]) /\ Missed
  /\ UNCHANGED Outside

\* NextCommand: a command, none, or an error.
Poll ==
  /\ At("poll")
  /\ \/ Goto("execute") /\ streak' = 0 /\ UNCHANGED tracker
     \/ Goto("idle") /\ streak' = 0 /\ UNCHANGED tracker
     \/ Fail(tracker) /\ Missed
  /\ UNCHANGED Outside

\* Whatever the command does, the executor returns a result to submit.
Execute ==
  /\ At("execute") /\ Goto("submit")
  /\ UNCHANGED << tracker, streak, Outside >>

\* A result refused as 400, 413 or 422 is replaced, once, by a FAILED one.
Submit ==
  /\ At("submit")
  /\ \/ Goto("idle") /\ UNCHANGED tracker
     \/ Goto("fallback") /\ UNCHANGED tracker
     \/ Fail(tracker)
  /\ UNCHANGED << streak, Outside >>

Fallback ==
  /\ At("fallback")
  /\ \/ Goto("idle") /\ UNCHANGED tracker
     \/ Fail(tracker)
  /\ UNCHANGED << streak, Outside >>

-----------------------------------------------------------------------------
(* The environment.                                                        *)

\* The process dies, or the service is stopped between two iterations.
Crash ==
  /\ ~At("down") /\ crashes < MaxCrashes /\ crashes' = crashes + 1
  /\ agent' = Down /\ tracker' = Fresh /\ streak' = 0
  /\ UNCHANGED << store, token, stale, issued, revoked, sentinel, faults >>

Revoke ==
  /\ \E c \in 1..issued : c \notin revoked /\ revoked' = revoked \union {c}
  /\ UNCHANGED << store, token, stale, agent, tracker, issued, sentinel, streak,
                  crashes, faults >>

\* install.ps1 waits for the sentinel and removes the token.
RemoveToken ==
  /\ token /\ sentinel # 0 /\ token' = FALSE
  /\ UNCHANGED << store, stale, agent, tracker, issued, revoked, sentinel, streak,
                  crashes, faults >>

Iteration ==
  \/ Begin \/ Enroll \/ Persist \/ HeartbeatAccepted \/ HeartbeatUnauthorized
  \/ HeartbeatFails \/ Poll \/ Execute \/ Submit \/ Fallback

Next == Start \/ Iteration \/ Crash \/ Revoke \/ RemoveToken

Spec == Init /\ [][Next]_vars

\* The service manager restarts the process and the process keeps running.  Of the
\* backend: a heartbeat that is sent again and again is once answered by what it is.
HeartbeatAnswered ==
  \/ HeartbeatAccepted
  \/ agent.identity \in revoked /\ HeartbeatUnauthorized

FairSpec ==
  Spec /\ WF_vars(Start) /\ WF_vars(Iteration) /\ SF_vars(HeartbeatAnswered)

-----------------------------------------------------------------------------
Places == {"down", "stranded", "idle", "enroll", "persist", "heartbeat", "poll", "execute",
           "submit", "fallback"}

(* Type invariant.                                                         *)
TypeOK ==
  /\ store \in {None, Corrupt} \union Credentials
  /\ token \in BOOLEAN /\ stale \in BOOLEAN
  /\ agent \in [at : Places, identity : 0..MaxIssued, token : BOOLEAN, persisted : BOOLEAN,
                again : BOOLEAN, misread : BOOLEAN]
  /\ At("persist") \/ At("heartbeat") => agent.identity # 0
  /\ tracker \in [state : {"STARTING", "ONLINE", "DEGRADED", "OFFLINE"}, failures : 0..10]
  /\ issued \in 0..MaxIssued /\ revoked \subseteq Credentials
  /\ sentinel \in 0..MaxIssued /\ streak \in 0..3
  /\ crashes \in 0..MaxCrashes /\ faults \in 0..MaxFaults

(* The token is removed on the strength of one line in the log, so what    *)
(* that line confirms must be on disk: that credential or a later one,     *)
(* whatever fails, dies or is rejected afterwards (runner.go on            *)
(* credentialPersisted).                                                   *)
ConfirmedIsStored ==
  sentinel # 0 => store \in Credentials /\ store >= sentinel

(* A host with a stale registry hint keeps starting as an HMAC agent, with *)
(* its token before the clean-up and with its credential after it, unless  *)
(* the very read of the blob fails (main.go on decideMode).                *)
StrandedOnlyByMisread == At("stranded") => agent.misread

(* The blob is only ever replaced by a later credential: no rejection, no  *)
(* failed enrollment and no restart deletes it or brings an old one back.  *)
BlobOnlyRenewed ==
  [][store' # store => /\ store' \in Credentials
                       /\ store \in Credentials => store' > store]_vars

Usable == store \in Credentials /\ store \notin revoked

(* While the blob holds a credential the backend honours, the agent comes  *)
(* back to polling: from a crash, a spurious 401, a spent token, a failed  *)
(* enrollment, or a newer credential that was revoked before it was saved. *)
Recovers == Usable ~> (At("poll") \/ At("stranded") \/ ~Usable)

(* The command contract, section 9: "ONLINE -> DEGRADED: 3 consecutive     *)
(* heartbeat/poll failures".                                               *)
DegradesAfterThree == streak >= 3 => tracker.state # "ONLINE"
===============================================================================
