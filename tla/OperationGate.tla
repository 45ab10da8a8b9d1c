---------------------------- MODULE OperationGate ----------------------------
(***************************************************************************)
(* How the agent decides whether a broker-signed permit may be used:       *)
(* operation/permit.go and gate.go (verification and the per-session       *)
(* replay window), and the caches of internal/app/remotebridge.go that     *)
(* bind an Authorizer to the enrolled device and share it between the      *)
(* CONSTRAINED_PTY and VIEW_ONLY paths.                                    *)
(*                                                                         *)
(* Every dispatch runs in a goroutine of its own (a call here).  Calls     *)
(* interleave with each other, with a re-enrollment that changes the       *)
(* device identity and with a restart of the agent; the broker or the      *)
(* network may deliver a permit more than once and in any order.           *)
(***************************************************************************)
EXTENDS Integers, Sequences

CONSTANTS
  Devices, Sessions,
  Commands,             \* canonical commands; a hash is the command it binds
  None,                 \* no device, no command, no authorizer
  Lines,                \* the command lines a dispatch may carry
  Permits,              \* the permits that may be delivered
  Times,                \* readings of the endpoint's clock
  Skew, MaxValidity,    \* PermitClockSkewMillis, MaxPermitValidityMillis
  Calls,                \* dispatch goroutines
  MaxAuthorizers,       \* bound on the authorizers built
  MaxRestarts           \* bound on the restarts of the agent

Capabilities == {"CONSTRAINED_PTY", "VIEW_ONLY"}

PermitRecords ==
  [form : {"ok", "kid", "alg", "version"}, sig : {"valid", "missing", "garbled", "forged"},
   device : Devices, session : Sessions, seq : Int, capability : Capabilities,
   command : Commands \union {None}, issued : Int, expires : Int]

\* What a line is once it is canonicalised, and whether it is longer than MaxCommandLine.
LineRecords == [command : Commands \union {None}, long : BOOLEAN]
NoLine == [command |-> None, long |-> FALSE]

ASSUME LinesAssumption == Lines \subseteq LineRecords
ASSUME PermitsAssumption == Permits \subseteq PermitRecords
ASSUME BoundsAssumption ==
  MaxAuthorizers \in Nat /\ MaxRestarts \in Nat /\ Times \subseteq Int
  /\ Skew \in Nat /\ MaxValidity \in Nat
ASSUME NoneAssumption == None \notin Devices \union Commands

VARIABLES
  identity,             \* the device the agent is enrolled as, or None
  stream,               \* the device the CONTROL stream presented in its hello
  authorizers,          \* every Authorizer built: its device and its lastSeq
  provider,             \* deviceBoundAuthorizerProvider: cached device, authorizer
  pty,                  \* deviceBoundPTYDispatcher: cached device, authorizer
  calls,                \* the dispatches in progress
  restarts,
  accepted              \* history: the permits allowed, in order

vars == << identity, stream, authorizers, provider, pty, calls, restarts, accepted >>

Empty == [device |-> None, authz |-> 0]
Idle == [at |-> "idle"]

Init ==
  /\ identity = None /\ stream = None
  /\ authorizers = << >>
  /\ provider = Empty /\ pty = Empty
  /\ calls = [c \in Calls |-> Idle]
  /\ restarts = 0
  /\ accepted = << >>

-----------------------------------------------------------------------------
(* Verification: pure in the permit, the clock and the bound device.       *)

\* Faulty variants, for the mutation of the model.
IsFreshCapLeeway(p, now) ==
  /\ 0 < p.issued /\ p.issued < p.expires
  /\ p.expires - p.issued <= MaxValidity + Skew
  /\ p.issued <= now + Skew /\ now - Skew < p.expires
InWindowOrEqual(p, lastSeq) == p.seq >= lastSeq[p.session]
InWindowUnlessLast(p, lastSeq) == p.seq # lastSeq[p.session]

IsFresh(p, now) ==
  /\ p.issued > 0 /\ p.expires > 0
  /\ p.issued < p.expires
  /\ p.expires - p.issued <= MaxValidity
  /\ now + Skew >= p.issued
  /\ now < p.expires + Skew

\* Verifier.Verify: none of its checks fails (none changes state, so their order
\* only chooses the reason it reports).
Verified(p, now, device) ==
  /\ p.form = "ok"                          \* kid, alg, version
  /\ p.sig = "valid"                        \* neither missing, garbled nor forged
  /\ p.device = device
  /\ IsFresh(p, now)

\* The PTY gate: the line is bounded as it came; what it is, canonicalised, must be what
\* the permit binds.
PTYPermits(p, line) ==
  /\ p.capability = "CONSTRAINED_PTY"
  /\ ~line.long
  /\ line.command # None /\ line.command = p.command
  /\ p.seq > 0

\* The screen gate; the harness already refused permits without ids.
ViewPermits(p) ==
  /\ p.capability = "VIEW_ONLY"
  /\ p.command = None
  /\ p.seq > 0

InWindow(p, lastSeq) == p.seq > lastSeq[p.session]

-----------------------------------------------------------------------------
(* The device-bound caches.  Each lookup holds the lock of its cache.      *)

Cached(cache, device) == cache.authz # 0 /\ cache.device = device

\* authorizerFor(device), with the authorizer it returns in a.
AuthorizerFor(device, a) ==
  IF Cached(provider, device)
  THEN a = provider.authz /\ UNCHANGED << authorizers, provider >>
  ELSE /\ a = Len(authorizers) + 1
       /\ a <= MaxAuthorizers
       /\ authorizers' = Append(authorizers,
                           [device |-> device, lastSeq |-> [s \in Sessions |-> 0]])
       /\ provider' = [device |-> device, authz |-> a]

-----------------------------------------------------------------------------
(* The environment: enrollment, the CONTROL stream, restarts.              *)

\* A 401 clears the identity; enrollment sets it.
Reenroll ==
  /\ \E d \in Devices \union {None} : d # identity /\ identity' = d
  /\ UNCHANGED << stream, authorizers, provider, pty, calls, restarts, accepted >>

\* connectOnce dials only with an identity and keeps it for the stream's life.
Connect ==
  /\ identity # None /\ stream # identity
  /\ stream' = identity
  /\ UNCHANGED << identity, authorizers, provider, pty, calls, restarts, accepted >>

\* Nothing of the gate is persisted.
Restart ==
  /\ restarts < MaxRestarts
  /\ restarts' = restarts + 1
  /\ stream' = None
  /\ provider' = Empty /\ pty' = Empty
  /\ calls' = [c \in Calls |-> Idle]
  /\ UNCHANGED << identity, authorizers, accepted >>

-----------------------------------------------------------------------------
(* A dispatch.                                                             *)

\* The harness binds the permit to the stream's device and reads the clock.
\* A VIEW_ONLY permit travels alone; a PTY dispatch carries its command line.
Dispatch(c) ==
  \E p \in Permits, now \in Times, path \in Capabilities, line \in Lines \union {NoLine} :
    /\ calls[c] = Idle
    /\ p.device = stream
    /\ IF path = "VIEW_ONLY" THEN p.capability = "VIEW_ONLY" /\ line = NoLine
                             ELSE line \in Lines
    /\ calls' = [calls EXCEPT ![c] =
                   [at |-> "arrived", permit |-> p, now |-> now, path |-> path, line |-> line]]
    /\ UNCHANGED << identity, stream, authorizers, provider, pty, restarts, accepted >>

\* The dispatcher's own check against the live identity.
CheckDevice(c) ==
  /\ calls[c].at = "arrived"
  /\ LET p == calls[c].permit IN
     calls' = [calls EXCEPT ![c] =
                 IF identity = None \/ p.device # identity THEN Idle
                 ELSE [@ EXCEPT !.at = "checked"]]
  /\ UNCHANGED << identity, stream, authorizers, provider, pty, restarts, accepted >>

\* Fetch the authorizer of the device read above: the PTY path through its own cache.
Bind(c) ==
  /\ calls[c].at = "checked"
  /\ \E a \in 1..MaxAuthorizers :
       LET device == calls[c].permit.device IN
       /\ IF calls[c].path = "CONSTRAINED_PTY" /\ Cached(pty, device)
          THEN a = pty.authz /\ UNCHANGED << authorizers, provider, pty >>
          ELSE /\ AuthorizerFor(device, a)
               /\ IF calls[c].path = "CONSTRAINED_PTY"
                  THEN pty' = [device |-> device, authz |-> a]
                  ELSE UNCHANGED pty
       /\ calls' = [calls EXCEPT ![c] =
                      [at |-> "bound", permit |-> calls[c].permit, now |-> calls[c].now,
                       path |-> calls[c].path, line |-> calls[c].line, authz |-> a]]
  /\ UNCHANGED << identity, stream, restarts, accepted >>

\* What Authorize and AuthorizeViewOnly ask of the permit before the replay window.
Passes(call) ==
  /\ Verified(call.permit, call.now, authorizers[call.authz].device)
  /\ IF call.path = "CONSTRAINED_PTY"
     THEN PTYPermits(call.permit, call.line)
     ELSE ViewPermits(call.permit)

\* Only the window is shared state, and its lock is held from the check to the advance.
Decide(c) ==
  /\ calls[c].at = "bound"
  /\ LET call == calls[c]
         p == call.permit
     IN  IF Passes(call) /\ InWindow(p, authorizers[call.authz].lastSeq)
         THEN /\ authorizers' = [authorizers EXCEPT ![call.authz].lastSeq[p.session] = p.seq]
              /\ accepted' = Append(accepted,
                   [permit |-> p, authz |-> call.authz, path |-> call.path,
                    line |-> call.line, now |-> call.now])
         ELSE UNCHANGED << authorizers, accepted >>
  /\ calls' = [calls EXCEPT ![c] = Idle]
  /\ UNCHANGED << identity, stream, provider, pty, restarts >>

Next ==
  \/ Reenroll \/ Connect \/ Restart
  \/ \E c \in Calls : Dispatch(c) \/ CheckDevice(c) \/ Bind(c) \/ Decide(c)

Spec == Init /\ [][Next]_vars

-----------------------------------------------------------------------------
(* Type invariant.                                                         *)
CallRecords ==
  LET Fields == [permit : Permits, now : Times, path : Capabilities,
                 line : Lines \union {NoLine}]
      With(f, at) == [at |-> at, permit |-> f.permit, now |-> f.now,
                      path |-> f.path, line |-> f.line]
  IN  {Idle} \union {With(f, at) : f \in Fields, at \in {"arrived", "checked"}}

TypeOK ==
  /\ identity \in Devices \union {None} /\ stream \in Devices \union {None}
  /\ \A i \in DOMAIN authorizers :
       /\ authorizers[i].device \in Devices
       /\ authorizers[i].lastSeq \in [Sessions -> Nat]
  /\ Len(authorizers) <= MaxAuthorizers
  /\ \A cache \in {provider, pty} :
       cache = Empty \/ /\ cache.authz \in DOMAIN authorizers
                        /\ authorizers[cache.authz].device = cache.device
  /\ \A c \in Calls :
       \/ calls[c].at = "bound" /\ calls[c].authz \in DOMAIN authorizers
       \/ calls[c] \in CallRecords
  /\ restarts \in 0..MaxRestarts

\* The process has served one device and was never restarted.
OneDevice ==
  /\ restarts = 0
  /\ \A i, j \in DOMAIN authorizers : authorizers[i].device = authorizers[j].device

(* Until the agent restarts or another device is served, a permit is used  *)
(* at most once, though it is delivered twice, out of order, to two        *)
(* goroutines at a time or once per capability: the seq window of          *)
(* permit.go, "keep the pilot operation single-use".                       *)
SingleUse ==
  OneDevice =>
    \A i, j \in DOMAIN accepted :
      accepted[i].permit.session = accepted[j].permit.session
      /\ accepted[i].permit.seq = accepted[j].permit.seq => i = j

(* A restart and a change of the device build new windows, so a permit may *)
(* be used again, but by another Authorizer each time and only while it is *)
(* short-lived: by the endpoint's clock no two uses of one permit are as   *)
(* far apart as the cap of its validity and the leeway at both ends        *)
(* ("validity cap and seq replay guard keep the pilot operation single-use *)
(* and short-lived", permit.go), though the broker signed an over-long     *)
(* window and the clock is set back in between.                            *)
ReplayIsBounded ==
  \A i, j \in DOMAIN accepted :
    i # j /\ accepted[i].permit = accepted[j].permit =>
      /\ accepted[i].authz # accepted[j].authz
      /\ accepted[j].now - accepted[i].now < MaxValidity + 2 * Skew

(* The comment on authorizerFor: "every caller for the same device id      *)
(* receives the SAME *operation.Authorizer, so the per-session seq guard   *)
(* is shared across capabilities"; so it is while the device stays.        *)
SharedAuthorizer ==
  OneDevice =>
    \A c, d \in Calls :
      calls[c].at = "bound" /\ calls[d].at = "bound" => calls[c].authz = calls[d].authz

-----------------------------------------------------------------------------
(* Across re-enrollments and restarts every Authorizer implements one      *)
(* replay window per session, for both capabilities and all goroutines,    *)
(* whatever happens to the caches around it.                               *)
Window == INSTANCE SeqWindow WITH
            Sessions <- (1..MaxAuthorizers) \X Sessions,
            last <- [w \in (1..MaxAuthorizers) \X Sessions |->
                       IF w[1] <= Len(authorizers) THEN authorizers[w[1]].lastSeq[w[2]]
                       ELSE 0]

ImplementsWindow == Window!Spec
===============================================================================
