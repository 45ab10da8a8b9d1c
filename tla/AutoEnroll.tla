----------------------------- MODULE AutoEnroll -----------------------------
(* internal/autoenroll: the runner of the mTLS mode. Every iteration picks   *)
(* the machine's certificate out of LocalMachine\My, enrolls it unless the   *)
(* stored record already names it, sends a heartbeat and carries out one     *)
(* command. Around the runner: the certificate store, whose entries come and *)
(* go as they are renewed, a backend that answers, refuses or loses a call,  *)
(* the record on disk, the service manager, and the plan of a staged update. *)
EXTENDS Integers, FiniteSets

CONSTANTS Certs,         \* [id, rank, from, until, eku, subject, san, key]: what the store may hold
          InitialCerts,  \* what it may hold at first
          Filter,        \* [eku, subject, san], "" where nothing is asked
          Records,       \* the records that may be on disk at first
          RefreshWindow, \* a token with less left than this is refreshed
          KeepBridge,    \* the remote bridge outlives a refused identity
          MaxNow, MaxTurns, MaxFaults, MaxStarts

ASSUME AutoEnrollAssumption ==
  /\ InitialCerts \subseteq SUBSET Certs /\ RefreshWindow \in Nat /\ KeepBridge \in BOOLEAN
  /\ {MaxNow, MaxTurns, MaxFaults, MaxStarts} \subseteq Nat
  /\ IsFiniteSet(Certs)
  /\ \A c, d \in Certs : c.id = d.id \/ c.rank = d.rank => c = d
  /\ \A c \in Certs : c.id # "none" /\ {c.from, c.until, c.rank} \subseteq Int
\* A record that decodes names a certificate the machine had.
ASSUME RecordsAssumption ==
  LET ids == {c.id : c \in Certs} IN
  Records \subseteq [kind : {"none", "corrupt"}] \cup [kind : {"tokenless"}, cert : ids]
                    \cup [kind : {"token"}, cert : ids, expires : Int]

VARIABLES now, my,           \* the clock, and the certificates in the store
          backend, known,    \* what the backend does with a call; the certificates it enrolled
          record,            \* the record on disk
          plan,              \* the staged update: none, pending or launched
          proc,              \* the process of the agent
          call,              \* the last call the runner made
          nTurns, nFaults, nStarts

vars == <<now, my, backend, known, record, plan, proc, call, nTurns, nFaults, nStarts>>
-----------------------------------------------------------------------------
(* The certificate, which the records name by its thumbprint: here its id.   *)
None == [id |-> "none"]

FilterCandidates(certs) ==
  {c \in certs : /\ c.from <= now /\ now < c.until /\ c.eku = Filter.eku
                 /\ Filter.subject \in {"", c.subject} /\ Filter.san \in {"", c.san}}
\* The later begun first, then the one that lasts longer, then by thumbprint.
Outranks(c, d) ==
  \/ c.from > d.from
  \/ c.from = d.from /\ c.until > d.until
  \/ c.from = d.from /\ c.until = d.until /\ c.rank < d.rank
\* A key is opened by its provider's name, or acquired through the context that
\* holds its handle; both may fail. A key of the older interface is refused, but
\* for an acquired handle that answers as one of the newer would.
AcquireSigner(c) ==
  /\ c.key.opens
  /\ \/ c.key.binding = "info" /\ c.key.provider = "ksp"
     \/ c.key.binding = "handle" /\ (c.key.provider = "ksp" \/ c.key.answers)
Usable(certs) == {c \in FilterCandidates(certs) : AcquireSigner(c)}
LoadEligibleCert(certs) ==
  IF Usable(certs) = {} THEN None
  ELSE CHOOSE c \in Usable(certs) : \A d \in Usable(certs) \ {c} : Outranks(c, d)

\* The duplicated contexts that are let go of before the keys are tried. The
\* loop that marks the eligible ones as taken marks its own copies of them.
FreedEarly(certs) == certs
\* The references left to the context of a certificate once it is loaded.
ContextRefs(c, certs) == IF c \in FreedEarly(certs) THEN 0 ELSE 1
-----------------------------------------------------------------------------
(* The record: a tokenless one holds neither a token nor its expiry.         *)
NoRecord == [kind |-> "none"]
Sound(r)      == r.kind \notin {"none", "corrupt"}
Tokenless(r)  == r.kind = "tokenless"
TokenExpired(r) == r.kind = "token" /\ now >= r.expires
TokenExpiringWithin(r) == r.kind = "token" /\ r.expires - now < RefreshWindow
CertThumbprintChanged(r, c) == r.cert # c.id

NeedsReissue(r, c) == r = NoRecord \/ CertThumbprintChanged(r, c) \/ TokenExpired(r)
\* One that would take any answer for a confirmation.
ValidateWithoutThumbprint(answer) == answer \in {"ok", "odd"}
\* The backend confirms the certificate that was presented, and no other.
Validate(answer) == answer = "ok"

\* A token that has run out is refused.
Answers(r) ==
  IF TokenExpired(r) THEN {"auth"}
  ELSE CASE backend = "up"   -> {"ok"}
         [] backend = "down" -> {"fault", "lost"}
         [] backend = "odd"  -> {"ok", "auth", "odd"}
-----------------------------------------------------------------------------
NoCall == [kind |-> "none"]
Off == [run |-> "down"]
\* A process before its first certificate; `signers` counts the key handles it
\* has open, `waited` those that nothing in it refers to any more.
Fresh == [run |-> "loop", pc |-> "wait", first |-> TRUE, cfg |-> NoRecord, loaded |-> None, refs |-> 0,
          signers |-> 0, waited |-> 0, failures |-> 0, command |-> "none"]

Init ==
  /\ now = 0 /\ my \in InitialCerts /\ backend = "up" /\ record \in Records
  /\ known = IF Sound(record) THEN {record.cert} ELSE {}
  /\ plan = "none" /\ proc = Off /\ call = NoCall /\ nTurns = 0 /\ nFaults = 0 /\ nStarts = 0

World   == <<now, my, backend, known>>
Counts  == <<nTurns, nFaults, nStarts>>
At(pc)  == proc.run = "loop" /\ proc.pc = pc
Fault   == nFaults < MaxFaults /\ nFaults' = nFaults + 1 /\ UNCHANGED <<nTurns, nStarts>>
Sends(kind) == [kind |-> kind, cert |-> proc.loaded.id, record |-> proc.cfg.cert]

\* An error ends the iteration; the loop goes on with the next tick.
EndIteration == [proc EXCEPT !.pc = "idle", !.first = FALSE, !.command = "none"]
Failed(p) == [p EXCEPT !.failures = @ + 1]
\* A refusal ends the loop: the process with it, unless the bridge is kept.
Fatal == IF KeepBridge THEN [proc EXCEPT !.run = "held"] ELSE Off
-----------------------------------------------------------------------------
\* RunLoop: no certificate yet is waited for; the one found is not kept.
\* Any other error of the store ends the loop.
WaitForCert ==
  /\ At("wait") /\ UNCHANGED <<World, record, plan, call>>
  /\ \/ /\ LoadEligibleCert(my) # None /\ UNCHANGED Counts
        /\ proc' = [proc EXCEPT !.pc = "read", !.signers = @ + 1, !.waited = @ + 1]
     \/ Fault /\ proc' = Off

\* RunOnce, the first iteration, looks for a plan left behind: it launches the
\* helper, or fails to, or leaves it for later since it was tried just now.
Sweep ==
  IF proc.first /\ plan = "pending"
  THEN plan' \in {"pending", "launched"} /\ call' = [kind |-> "sweep"]
  ELSE UNCHANGED <<plan, call>>

\* A record that does not decode is the operator's to repair; without one the
\* first iteration sleeps a while.
Read ==
  /\ At("read") /\ Sweep /\ UNCHANGED <<World, record>>
  /\ \/ UNCHANGED Counts
        /\ proc' = IF record.kind = "corrupt" THEN EndIteration
                   ELSE [proc EXCEPT !.cfg = record, !.pc = "cert"]
     \/ Fault /\ proc' = EndIteration

\* A reload that would keep the handle it opened.
ReloadKeeps(p) == [p EXCEPT !.signers = @ + 1]
\* The handle of a certificate loaded once more is given back.
Reload(p) == p
\* One that would keep the handle and forget whose it is.
RotateUnloaded(p, c) == [p EXCEPT !.signers = @ + 1]
\* The new certificate takes over and the handle of the last one is released.
Rotate(p, c) ==
  [p EXCEPT !.loaded = c, !.refs = ContextRefs(c, my), !.signers = IF p.loaded = None THEN @ + 1 ELSE @]
EnsureCert ==
  LET c == LoadEligibleCert(my) IN
  /\ At("cert") /\ UNCHANGED <<World, record, plan, call>>
  /\ \/ UNCHANGED Counts
        /\ proc' = IF c = None THEN EndIteration
                   ELSE [(IF c = proc.loaded THEN Reload(proc) ELSE Rotate(proc, c)) EXCEPT !.pc = "enroll"]
     \/ Fault /\ proc' = EndIteration

\* The certificate is enrolled again when the record does not vouch for it.
ReconcileEnrollment ==
  /\ At("enroll") /\ UNCHANGED <<now, my, backend, record, plan, Counts>>
  /\ IF NeedsReissue(proc.cfg, proc.loaded)
     THEN \E answer \in Answers(NoRecord) :
            /\ call' = [kind |-> "enroll", cert |-> proc.loaded.id]
            /\ known' = IF answer \in {"ok", "lost"} THEN known \cup {proc.loaded.id} ELSE known
            /\ proc' = CASE Validate(answer)   -> [proc EXCEPT !.pc = "persist"]
                         [] answer = "auth"    -> Fatal
                         [] OTHER              -> EndIteration
     ELSE /\ UNCHANGED <<known, call>>
          /\ proc' = [proc EXCEPT !.pc = IF Tokenless(proc.cfg) THEN "heartbeat" ELSE "refresh"]

\* The record is replaced by renaming a temporary file over it. The rights set
\* on it afterwards may fail, with the record already in place.
Written(r, next) ==
  \/ record' = r /\ UNCHANGED Counts /\ proc' = [proc EXCEPT !.cfg = r, !.pc = next]
  \/ Fault /\ record' \in {record, r} /\ proc' = EndIteration
\* One that would keep the answer in memory only.
PersistNot ==
  /\ At("persist") /\ UNCHANGED <<World, plan, call, record, Counts>>
  /\ proc' = [proc EXCEPT !.cfg = [kind |-> "tokenless", cert |-> proc.loaded.id],
                          !.pc = "heartbeat"]
Persist ==
  /\ At("persist") /\ UNCHANGED <<World, plan, call>>
  /\ Written([kind |-> "tokenless", cert |-> proc.loaded.id], "heartbeat")

\* The token of an older enrollment. A refusal is fatal; any other failure
\* leaves the token that is still good for a while.
MaybeRefreshToken ==
  /\ At("refresh") /\ UNCHANGED <<World, plan, record>>
  /\ IF ~TokenExpired(proc.cfg) /\ TokenExpiringWithin(proc.cfg)
     THEN \E answer \in Answers(proc.cfg) :
            /\ call' = Sends("refresh") /\ UNCHANGED Counts
            /\ proc' = CASE answer = "ok"   -> [proc EXCEPT !.pc = "renew"]
                         [] answer = "auth" -> Fatal
                         [] answer = "odd"  -> EndIteration
                         [] OTHER           -> [proc EXCEPT !.pc = "heartbeat"]
     ELSE UNCHANGED <<Counts, call>> /\ proc' = [proc EXCEPT !.pc = "heartbeat"]
PersistToken ==
  /\ At("renew") /\ UNCHANGED <<World, plan, call>>
  /\ Written([proc.cfg EXCEPT !.expires = now + RefreshWindow + 1], "heartbeat")

\* Counted a success before it is sent. A heartbeat refused ends the loop, and
\* one whose grace is over the process; a certificate that has run out ends the
\* iteration.
SendHeartbeat ==
  /\ At("heartbeat") /\ call' = Sends("heartbeat") /\ UNCHANGED <<World, record, plan, Counts>>
  /\ \E answer \in Answers(proc.cfg), graceOver \in BOOLEAN :
       proc' = CASE answer = "ok" ->
                      IF now > proc.loaded.until THEN [EndIteration EXCEPT !.failures = 0]
                      ELSE [proc EXCEPT !.pc = "poll", !.failures = 0]
                 [] answer = "auth" -> Fatal
                 [] answer = "odd"  -> IF graceOver THEN Off ELSE Fatal
                 [] OTHER           -> Failed([EndIteration EXCEPT !.failures = 0])

Poll ==
  /\ At("poll") /\ call' = Sends("poll") /\ UNCHANGED <<World, record, plan, Counts>>
  /\ \E answer \in Answers(proc.cfg) : \E command \in {"none", "other", "update"} :
       proc' = CASE answer = "ok"   -> IF command = "none" THEN EndIteration
                                       ELSE [proc EXCEPT !.pc = "execute", !.command = command]
                 [] answer = "auth" -> Fatal
                 [] OTHER           -> Failed(EndIteration)

\* The executor (Commands) works under the time limit of the command's type.
Execute ==
  /\ At("execute") /\ UNCHANGED <<World, record, call, Counts>>
  /\ \E staged \in BOOLEAN :
       /\ plan' = IF staged /\ proc.command = "update" THEN "pending" ELSE plan
       /\ proc' = [proc EXCEPT !.pc = "submit", !.command = IF staged THEN @ ELSE "other"]

\* The helper is launched once the result has been taken.
Submit ==
  /\ At("submit") /\ call' = Sends("result") /\ UNCHANGED <<World, record, plan, Counts>>
  /\ \E answer \in Answers(proc.cfg) :
       proc' = CASE answer = "ok" -> IF proc.command = "update" THEN [proc EXCEPT !.pc = "activate"] ELSE EndIteration
                 [] answer = "auth" -> Fatal
                 [] OTHER -> Failed(EndIteration)
MaybeLaunchSelfUpdateActivation ==
  /\ At("activate") /\ plan' \in {"pending", "launched"} /\ proc' = EndIteration
  /\ UNCHANGED <<World, record, call, Counts>>

\* The ticker: the next iteration begins with the record.
Tick ==
  /\ At("idle") /\ proc' = [proc EXCEPT !.pc = "read"]
  /\ UNCHANGED <<World, record, plan, call, Counts>>

Runner ==
  \/ WaitForCert \/ Read \/ EnsureCert \/ ReconcileEnrollment \/ Persist \/ MaybeRefreshToken \/ PersistToken
  \/ SendHeartbeat \/ Poll \/ Execute \/ Submit \/ MaybeLaunchSelfUpdateActivation \/ Tick
-----------------------------------------------------------------------------
(* Around the runner.                                                        *)
Start ==
  /\ proc.run = "down" /\ nStarts < MaxStarts /\ nStarts' = nStarts + 1
  /\ proc' = Fresh /\ call' = NoCall
  /\ UNCHANGED <<World, record, plan, nTurns, nFaults>>
\* The service stops, crashes, or is stopped by the helper, which replaces it.
Stop ==
  /\ proc.run # "down" /\ proc' = Off /\ call' = NoCall
  /\ plan' \in IF plan = "launched" THEN {"none", "launched"} ELSE {plan}
  /\ UNCHANGED <<World, record, Counts>>

Clock == now < MaxNow /\ now' = now + 1 /\ UNCHANGED <<my, backend, known, record, plan, proc, call, Counts>>
\* A certificate is issued or removed, or the backend changes its mind.
Turn ==
  /\ nTurns < MaxTurns /\ nTurns' = nTurns + 1
  /\ UNCHANGED <<now, known, record, plan, proc, call, nFaults, nStarts>>
  /\ \/ \E c \in Certs : my' = (IF c \in my THEN my \ {c} ELSE my \cup {c}) /\ UNCHANGED backend
     \/ backend' \in {"up", "down", "odd"} \ {backend} /\ UNCHANGED my

Next == Runner \/ Start \/ Stop \/ Clock \/ Turn

Spec == Init /\ [][Next]_vars /\ WF_vars(Runner)
-----------------------------------------------------------------------------
TypeOK ==
  /\ now \in 0..MaxNow /\ my \subseteq Certs /\ backend \in {"up", "down", "odd"}
  /\ known \subseteq {c.id : c \in Certs} /\ record.kind \in {"none", "corrupt", "tokenless", "token"}
  /\ plan \in {"none", "pending", "launched"} /\ proc.run \in {"down", "loop", "held"}
  /\ (proc.run = "loop" /\ proc.pc \notin {"wait", "read", "cert", "idle"}) =>
       proc.loaded # None /\ (proc.pc \notin {"enroll", "persist"} => Sound(proc.cfg))

Authenticated == {"refresh", "heartbeat", "poll", "result"}

(* A call that needs an identity is made under a certificate the backend has *)
(* confirmed, whatever the store, the record and the answers did meanwhile:  *)
(* a certificate renewed under the agent enrolls before it speaks, and the   *)
(* record on disk never vouches for one whose answer was lost or odd.        *)
IdentityBound ==
  /\ call.kind \in Authenticated => call.cert \in known /\ call.record = call.cert
  /\ Sound(record) => record.cert \in known

(* However often the certificate is loaded, one key handle is open for the   *)
(* certificate in use, and the one that waiting for the first left behind.   *)
HandlesBounded ==
  proc.run # "down" => proc.signers = proc.waited + (IF proc.loaded = None THEN 0 ELSE 1) /\ proc.waited <= 1

(* When the backend answers and the store keeps a usable certificate, the    *)
(* record comes to name the one that ranks first, and stays with it.         *)
Serving == backend = "up" /\ LoadEligibleCert(my) # None /\ proc.run = "loop" /\ record.kind # "corrupt"
Reconciles == <>[]Serving => <>[](Sound(record) /\ record.cert = LoadEligibleCert(my).id)

(* What the comments say, and the code does not do.                          *)
(* certstore_windows.go:166-172: the selected context is kept for as long as *)
(* the process lives, since releasing it after its key was acquired can      *)
(* crash some providers.                                                     *)
ContextRetained == proc.run = "loop" /\ proc.loaded # None => proc.refs > 0
(* runner.go:56-58: the sweep for a plan left behind runs in every iteration.*)
PendingIsSwept == plan = "pending" ~> (plan # "pending" \/ call.kind = "sweep" \/ proc.run # "loop")
=============================================================================
