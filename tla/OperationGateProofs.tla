-------------------------- MODULE OperationGateProofs --------------------------
(***************************************************************************)
(* The permit gate for any set of permits, devices, sessions and           *)
(* goroutines: a permit is used once, or soon again by another Authorizer, *)
(* and every Authorizer is one replay window.                              *)
(***************************************************************************)
EXTENDS OperationGate, SequenceTheorems, TLAPS

AuthorizerRecords == [device : Devices, lastSeq : [Sessions -> Nat]]
CacheRecords == [device : Devices \union {None}, authz : Nat]
Waiting == [at : {"arrived", "checked"}, permit : Permits, now : Times,
            path : Capabilities, line : Lines \union {NoLine}]
Deciding == [at : {"bound"}, permit : Permits, now : Times, path : Capabilities,
             line : Lines \union {NoLine}, authz : Nat]
UseRecords == [permit : Permits, authz : Nat, path : Capabilities,
               line : Lines \union {NoLine}, now : Times]

Typed ==
  /\ identity \in Devices \union {None} /\ stream \in Devices \union {None}
  /\ authorizers \in Seq(AuthorizerRecords) /\ Len(authorizers) <= MaxAuthorizers
  /\ provider \in CacheRecords /\ pty \in CacheRecords
  /\ calls \in [Calls -> {Idle} \union Waiting \union Deciding]
  /\ restarts \in 0..MaxRestarts
  /\ accepted \in Seq(UseRecords)

(* An Authorizer in use exists, and was built for the device at hand.      *)
Holds(a, device) == a \in DOMAIN authorizers /\ authorizers[a].device = device
Bindings ==
  /\ \A cache \in {provider, pty} : cache = Empty \/ Holds(cache.authz, cache.device)
  /\ \A c \in Calls : calls[c].at = "bound" => Holds(calls[c].authz, calls[c].permit.device)

(* A process that never restarted caches the Authorizer it built last, and *)
(* builds one only for a device other than the last one's.                 *)
Newest ==
  restarts = 0 =>
    /\ provider.authz = Len(authorizers)
    /\ \A i \in 1..(Len(authorizers) - 1) : authorizers[i].device # authorizers[i + 1].device

(* The window of an Authorizer covers what it allowed, in increasing order.*)
Covered ==
  \A i \in DOMAIN accepted :
    LET a == accepted[i] IN
    a.authz \in DOMAIN authorizers
    /\ a.permit.seq <= authorizers[a.authz].lastSeq[a.permit.session]
Ordered ==
  \A i, j \in DOMAIN accepted :
    i < j /\ accepted[i].authz = accepted[j].authz
      /\ accepted[i].permit.session = accepted[j].permit.session
    => accepted[i].permit.seq < accepted[j].permit.seq

(* A permit was allowed within its window and the leeway, by the reading of*)
(* the clock it was judged by, and its window is no longer than the cap.   *)
InTime(use) ==
  /\ use.permit.expires - use.permit.issued <= MaxValidity
  /\ use.permit.issued - Skew <= use.now /\ use.now < use.permit.expires + Skew
Timely == \A i \in DOMAIN accepted : InTime(accepted[i])

IInv == Typed /\ Bindings /\ Newest /\ Covered /\ Ordered /\ Timely

-----------------------------------------------------------------------------
(* What a permit passed when it was not refused.                           *)
LEMMA Passed ==
  ASSUME NEW call, call \in Deciding, Passes(call)
  PROVE  InTime(call) /\ call.permit.seq > 0
<1>1. call.now \in Int /\ call.permit \in PermitRecords
  BY PermitsAssumption, BoundsAssumption DEF Deciding
<1>2. InTime(call)
  BY <1>1, BoundsAssumption DEF Passes, Verified, IsFresh, PermitRecords, InTime
<1>3. call.permit.seq > 0
  BY DEF Passes, PTYPermits, ViewPermits
<1> QED BY <1>2, <1>3

(* A call is idle, waiting for its Authorizer or about to decide.          *)
LEMMA CallShape ==
  ASSUME Typed, NEW c \in Calls
  PROVE  /\ calls[c].at \in {"arrived", "checked"} => calls[c] \in Waiting
         /\ calls[c].at = "bound" => calls[c] \in Deciding
         /\ calls[c] \in Waiting => calls[c].at \in {"arrived", "checked"}
         /\ calls[c] \in Deciding => calls[c].at = "bound"
BY DEF Typed, Idle, Waiting, Deciding

-----------------------------------------------------------------------------
LEMMA InitHolds == Init => IInv
<1> SUFFICES ASSUME Init PROVE IInv
  OBVIOUS
<1> USE BoundsAssumption, NoneAssumption DEF Init, Empty, Idle
<1>1. Typed
  BY DEF Typed, CacheRecords
<1>2. Bindings
  BY DEF Bindings
<1>3. Newest /\ Covered /\ Ordered /\ Timely
  BY DEF Newest, Covered, Ordered, Timely
<1> QED BY <1>1, <1>2, <1>3 DEF IInv

(* The invariant speaks of the authorizers and of what was accepted; a step*)
(* that leaves both alone keeps those parts.                               *)
LEMMA SameHistory ==
  ASSUME IInv, UNCHANGED << authorizers, accepted >>
  PROVE  Covered' /\ Ordered' /\ Timely'
BY DEF IInv, Covered, Ordered, Timely

LEMMA EnvironmentHolds ==
  ASSUME IInv, Reenroll \/ Connect \/ Restart
  PROVE  IInv'
<1> USE BoundsAssumption, NoneAssumption
<1>1. UNCHANGED << authorizers, accepted >>
  BY DEF Reenroll, Connect, Restart
<1>2. CASE Reenroll \/ Connect
  <2>1. UNCHANGED << provider, pty, calls, restarts >>
    BY <1>2 DEF Reenroll, Connect
  <2>2. Typed'
    BY <1>1, <1>2, <2>1 DEF IInv, Typed, Reenroll, Connect
  <2>3. Bindings' /\ Newest'
    BY <1>1, <2>1 DEF IInv, Bindings, Holds, Newest
  <2> QED BY <1>1, <2>2, <2>3, SameHistory DEF IInv
<1>3. CASE Restart
  <2>1. Typed'
    BY <1>3 DEF IInv, Typed, Restart, Empty, CacheRecords
  <2>2. Bindings'
    BY <1>3 DEF Bindings, Restart, Empty, Idle
  <2>3. Newest'
    BY <1>3 DEF IInv, Typed, Newest, Restart
  <2> QED BY <1>1, <2>1, <2>2, <2>3, SameHistory DEF IInv
<1> QED BY <1>2, <1>3

LEMMA DispatchHolds ==
  ASSUME IInv, NEW c \in Calls, Dispatch(c) \/ CheckDevice(c)
  PROVE  IInv'
<1>1. UNCHANGED << identity, stream, authorizers, provider, pty, restarts, accepted >>
  BY DEF Dispatch, CheckDevice
<1>2. PICK r \in {Idle} \union Waiting :
        calls' = [calls EXCEPT ![c] = r]
  <2>1. CASE Dispatch(c)
    BY <2>1 DEF Dispatch, Waiting
  <2>2. CASE CheckDevice(c)
    <3>1. calls[c] \in Waiting
      BY <2>2, CallShape DEF IInv, CheckDevice
    <3>2. [calls[c] EXCEPT !.at = "checked"] \in Waiting
      BY <3>1 DEF Waiting
    <3> QED BY <2>2, <3>2 DEF CheckDevice
  <2> QED BY <2>1, <2>2
<1>3. Typed'
  BY <1>1, <1>2 DEF IInv, Typed
<1>4. Bindings'
  BY <1>1, <1>2 DEF IInv, Typed, Bindings, Holds, Idle, Waiting
<1>5. Newest'
  BY <1>1 DEF IInv, Newest
<1> QED BY <1>1, <1>3, <1>4, <1>5, SameHistory DEF IInv

-----------------------------------------------------------------------------
(* What AuthorizerFor returns exists for the device, and what existed stays*)
LEMMA AuthorizerForGives ==
  ASSUME Typed, Bindings, Newest, NEW d \in Devices, NEW a \in 1..MaxAuthorizers,
         AuthorizerFor(d, a), UNCHANGED restarts
  PROVE  /\ authorizers' \in Seq(AuthorizerRecords) /\ Len(authorizers') <= MaxAuthorizers
         /\ provider' \in CacheRecords /\ provider'.authz = a /\ provider'.device = d
         /\ DOMAIN authorizers \subseteq DOMAIN authorizers'
         /\ \A i \in DOMAIN authorizers : authorizers'[i] = authorizers[i]
         /\ a \in DOMAIN authorizers' /\ authorizers'[a].device = d
         /\ Newest'
<1> USE BoundsAssumption
<1>1. CASE Cached(provider, d)
  <2>1. a = provider.authz /\ UNCHANGED << authorizers, provider >>
    BY <1>1 DEF AuthorizerFor
  <2>2. a # 0 /\ provider.device = d /\ Holds(a, d)
    BY <1>1, <2>1 DEF Cached, Bindings, Empty
  <2> QED BY <2>1, <2>2 DEF Typed, Holds, Newest
<1>2. CASE ~Cached(provider, d)
  <2> DEFINE new == [device |-> d, lastSeq |-> [s \in Sessions |-> 0]]
  <2>1. /\ a = Len(authorizers) + 1 /\ a <= MaxAuthorizers
        /\ authorizers' = Append(authorizers, new)
        /\ provider' = [device |-> d, authz |-> a]
    BY <1>2 DEF AuthorizerFor
  <2>2. new \in AuthorizerRecords /\ new.device = d
    BY DEF AuthorizerRecords
  <2> HIDE DEF new
  <2>3. /\ authorizers' \in Seq(AuthorizerRecords) /\ Len(authorizers') = Len(authorizers) + 1
        /\ \A i \in 1..Len(authorizers) : authorizers'[i] = authorizers[i]
        /\ authorizers'[Len(authorizers) + 1] = new
    BY <2>1, <2>2, AppendProperties DEF Typed
  <2>4. /\ DOMAIN authorizers = 1..Len(authorizers) /\ Len(authorizers) \in Nat
        /\ DOMAIN authorizers' = 1..(Len(authorizers) + 1)
    BY <2>3, LenProperties DEF Typed
  <2>5. Newest'
    <3> SUFFICES ASSUME restarts = 0, NEW i \in 1..Len(authorizers)
                 PROVE  authorizers'[i].device # authorizers'[i + 1].device
      BY <2>1, <2>3, <2>4 DEF Newest
    <3>1. CASE i < Len(authorizers)
      <4>1. i + 1 \in 1..Len(authorizers) /\ i \in 1..(Len(authorizers) - 1)
        BY <2>4, <3>1
      <4> QED BY <2>3, <4>1 DEF Newest
    <3>2. CASE i = Len(authorizers)
      <4>1. provider.authz = i /\ provider.authz # 0
        BY <2>4, <3>2 DEF Newest
      <4>2. authorizers[i].device = provider.device /\ provider.device # d
        BY <1>2, <4>1 DEF Bindings, Holds, Cached, Empty
      <4> QED BY <2>2, <2>3, <3>2, <4>2
    <3>3. i < Len(authorizers) \/ i = Len(authorizers)
      <4>1. Len(authorizers) \in Nat /\ i \in 1..Len(authorizers)
        BY <2>4
      <4> QED BY <4>1
    <3> QED BY <3>1, <3>2, <3>3
  <2>6. provider' \in CacheRecords
    BY <2>1 DEF CacheRecords
  <2> QED BY <2>1, <2>2, <2>3, <2>4, <2>5, <2>6
<1> QED BY <1>1, <1>2

LEMMA BindHolds ==
  ASSUME IInv, NEW c \in Calls, Bind(c)
  PROVE  IInv'
<1> USE BoundsAssumption
<1> DEFINE call == calls[c]
           d == call.permit.device
<1>1. call \in Waiting /\ d \in Devices
  BY CallShape, PermitsAssumption DEF Bind, IInv, Waiting, PermitRecords
<1>2. PICK a \in 1..MaxAuthorizers :
        /\ IF call.path = "CONSTRAINED_PTY" /\ Cached(pty, d)
           THEN a = pty.authz /\ UNCHANGED << authorizers, provider, pty >>
           ELSE /\ AuthorizerFor(d, a)
                /\ IF call.path = "CONSTRAINED_PTY" THEN pty' = [device |-> d, authz |-> a]
                   ELSE UNCHANGED pty
        /\ calls' = [calls EXCEPT ![c] =
                       [at |-> "bound", permit |-> call.permit, now |-> call.now,
                        path |-> call.path, line |-> call.line, authz |-> a]]
  BY DEF Bind
<1> HIDE DEF d
<1>3. UNCHANGED << identity, stream, restarts, accepted >>
  BY DEF Bind
<1>4. /\ authorizers' \in Seq(AuthorizerRecords) /\ Len(authorizers') <= MaxAuthorizers
      /\ provider' \in CacheRecords
      /\ provider' = provider \/ (provider'.authz = a /\ provider'.device = d)
      /\ DOMAIN authorizers \subseteq DOMAIN authorizers'
      /\ \A i \in DOMAIN authorizers : authorizers'[i] = authorizers[i]
      /\ a \in DOMAIN authorizers' /\ authorizers'[a].device = d
      /\ Newest'
  <2>1. CASE call.path = "CONSTRAINED_PTY" /\ Cached(pty, d)
    BY <1>2, <1>3, <2>1 DEF IInv, Typed, Bindings, Cached, Holds, Newest, Empty
  <2>2. CASE ~(call.path = "CONSTRAINED_PTY" /\ Cached(pty, d))
    <3>1. AuthorizerFor(d, a)
      BY <1>2, <2>2
    <3> QED BY <1>1, <1>3, <3>1, AuthorizerForGives DEF IInv
  <2> QED BY <2>1, <2>2
<1>5. pty' = pty \/ pty' = [device |-> d, authz |-> a]
  BY <1>2
<1> DEFINE r == [at |-> "bound", permit |-> call.permit, now |-> call.now,
                 path |-> call.path, line |-> call.line, authz |-> a]
<1>6. /\ r \in Deciding /\ calls' = [calls EXCEPT ![c] = r]
      /\ r.at = "bound" /\ r.authz = a /\ r.permit.device = d
  BY <1>1, <1>2 DEF Waiting, Deciding, d
<1> HIDE DEF r
<1>7. Typed'
  BY <1>1, <1>3, <1>4, <1>5, <1>6 DEF IInv, Typed, CacheRecords
<1>8. Bindings'
  <2>1. \A cache \in {provider', pty'} : cache = Empty \/ Holds(cache.authz, cache.device)'
    BY <1>4, <1>5 DEF IInv, Bindings, Holds, Empty
  <2>2. \A b \in Calls : calls'[b].at = "bound" => Holds(calls[b].authz, calls[b].permit.device)'
    BY <1>4, <1>6 DEF IInv, Typed, Bindings, Holds
  <2> QED BY <2>1, <2>2 DEF Bindings
<1>9. Covered' /\ Ordered' /\ Timely'
  BY <1>3, <1>4 DEF IInv, Covered, Ordered, Timely
<1> QED BY <1>4, <1>7, <1>8, <1>9 DEF IInv

(* Authorize: refused, or the window moves from below the permit to it.    *)
LEMMA DecideGives ==
  ASSUME IInv, NEW c \in Calls, Decide(c)
  PROVE  /\ calls[c] \in Deciding /\ calls' = [calls EXCEPT ![c] = Idle]
         /\ UNCHANGED << identity, stream, provider, pty, restarts >>
         /\ Holds(calls[c].authz, calls[c].permit.device)
         /\ \/ UNCHANGED << authorizers, accepted >>
            \/ LET p == calls[c].permit
                   a == calls[c].authz
               IN  /\ Passes(calls[c]) /\ p.seq > authorizers[a].lastSeq[p.session]
                   /\ authorizers' = [authorizers EXCEPT ![a].lastSeq[p.session] = p.seq]
                   /\ accepted' = Append(accepted,
                        [permit |-> p, authz |-> a, path |-> calls[c].path,
                         line |-> calls[c].line, now |-> calls[c].now])
<1>1. calls[c] \in Deciding
  BY CallShape DEF Decide, IInv
<1>2. Holds(calls[c].authz, calls[c].permit.device)
  BY <1>1 DEF IInv, Bindings, Deciding
<1> QED BY <1>1, <1>2 DEF Decide, InWindow

LEMMA DecideHolds ==
  ASSUME IInv, NEW c \in Calls, Decide(c)
  PROVE  IInv'
<1> USE BoundsAssumption
<1> DEFINE call == calls[c]
           p == call.permit
           a == call.authz
           s == p.session
           use == [permit |-> p, authz |-> a, path |-> call.path,
                   line |-> call.line, now |-> call.now]
<1>1. call \in Deciding /\ calls' = [calls EXCEPT ![c] = Idle]
      /\ UNCHANGED << identity, stream, provider, pty, restarts >>
  BY DecideGives
<1>2. CASE UNCHANGED << authorizers, accepted >>
  <2>1. Typed'
    BY <1>1, <1>2 DEF IInv, Typed
  <2>2. Bindings' /\ Newest'
    BY <1>1, <1>2 DEF IInv, Typed, Bindings, Holds, Newest, Idle
  <2> QED BY <1>2, <2>1, <2>2, SameHistory DEF IInv
<1>3. CASE /\ Passes(call) /\ p.seq > authorizers[a].lastSeq[s]
           /\ authorizers' = [authorizers EXCEPT ![a].lastSeq[s] = p.seq]
           /\ accepted' = Append(accepted, use)
  <2>1. /\ p \in PermitRecords /\ s \in Sessions /\ p.seq \in Int
        /\ a \in DOMAIN authorizers /\ authorizers[a].device = p.device /\ p.seq > 0
    BY <1>1, <1>3, PermitsAssumption, DecideGives
       DEF Deciding, PermitRecords, Holds, Passes, PTYPermits, ViewPermits
  <2>2. use \in UseRecords
    BY <1>1 DEF Deciding, UseRecords
  <2>3. /\ use.permit = p /\ use.authz = a /\ use.path = call.path /\ use.line = call.line
        /\ use.now = call.now
    OBVIOUS
  <2>4. InTime(use)
    BY <1>1, <1>3, <2>3, Passed DEF InTime
  <2> HIDE DEF use
  <2>5. /\ accepted' \in Seq(UseRecords) /\ Len(accepted') = Len(accepted) + 1
        /\ \A i \in 1..Len(accepted) : accepted'[i] = accepted[i]
        /\ accepted'[Len(accepted) + 1] = use
    BY <1>3, <2>2, AppendProperties DEF IInv, Typed
  <2>6. /\ DOMAIN accepted = 1..Len(accepted) /\ Len(accepted) \in Nat
        /\ DOMAIN accepted' = 1..(Len(accepted) + 1)
    BY <2>5, LenProperties DEF IInv, Typed
  <2>7. /\ authorizers[a] \in AuthorizerRecords
        /\ [authorizers[a] EXCEPT !.lastSeq[s] = p.seq] \in AuthorizerRecords
        /\ authorizers' \in Seq(AuthorizerRecords) /\ Len(authorizers') = Len(authorizers)
        /\ DOMAIN authorizers' = DOMAIN authorizers
    <3>1. authorizers[a] \in AuthorizerRecords
      BY <2>1 DEF IInv, Typed
    <3>2. [authorizers[a] EXCEPT !.lastSeq[s] = p.seq] \in AuthorizerRecords
      BY <2>1, <3>1 DEF AuthorizerRecords
    <3>3. authorizers' = [authorizers EXCEPT ![a] = [authorizers[a] EXCEPT !.lastSeq[s] = p.seq]]
      BY <1>3
    <3> QED BY <2>1, <3>1, <3>2, <3>3, ExceptSeq DEF IInv, Typed
  <2>8. /\ \A i \in DOMAIN authorizers : authorizers'[i].device = authorizers[i].device
        /\ authorizers'[a].lastSeq[s] = p.seq
        /\ \A i \in DOMAIN authorizers, t \in Sessions :
             i # a \/ t # s => authorizers'[i].lastSeq[t] = authorizers[i].lastSeq[t]
    BY <1>3, <2>1, <2>7 DEF AuthorizerRecords, IInv, Typed
  <2>9. Typed'
    BY <1>1, <2>5, <2>7 DEF IInv, Typed
  <2>10. Bindings' /\ Newest'
    <3>1. Bindings'
      BY <1>1, <2>7, <2>8 DEF IInv, Typed, Bindings, Holds, Idle
    <3>2. Newest'
      BY <1>1, <2>7, <2>8, LenProperties DEF IInv, Typed, Newest
    <3> QED BY <3>1, <3>2
  \* Earlier uses stay covered, and the new one is above them all.
  <2>11. Covered'
    <3> SUFFICES ASSUME NEW i \in DOMAIN accepted'
                 PROVE  /\ accepted'[i].authz \in DOMAIN authorizers'
                        /\ accepted'[i].permit.seq <=
                             authorizers'[accepted'[i].authz].lastSeq[accepted'[i].permit.session]
      BY DEF Covered
    <3>1. CASE i = Len(accepted) + 1
      <4>1. accepted'[i].authz = a /\ accepted'[i].permit = p
        BY <2>3, <2>5, <3>1
      <4>2. a \in DOMAIN authorizers' /\ p.seq <= authorizers'[a].lastSeq[s]
        BY <2>1, <2>7, <2>8
      <4> QED BY <4>1, <4>2
    <3>2. CASE i \in DOMAIN accepted
      <4> DEFINE u == accepted[i]
      <4>1. accepted'[i] = u /\ u \in UseRecords
        BY <2>5, <2>6, <3>2 DEF IInv, Typed
      <4>2. /\ u.authz \in DOMAIN authorizers /\ u.permit.session \in Sessions
            /\ u.permit.seq \in Int
            /\ u.permit.seq <= authorizers[u.authz].lastSeq[u.permit.session]
        BY <3>2, <4>1, PermitsAssumption DEF IInv, Covered, UseRecords, PermitRecords
      <4> HIDE DEF u
      <4>3. CASE u.authz = a /\ u.permit.session = s
        <5>1. authorizers[a].lastSeq[s] \in Nat
          <6>1. authorizers[a].lastSeq \in [Sessions -> Nat]
            BY <2>7 DEF AuthorizerRecords
          <6> QED BY <2>1, <6>1
        <5>2. u.permit.seq <= p.seq
          BY <1>3, <2>1, <4>2, <4>3, <5>1
        <5> QED BY <2>7, <2>8, <4>1, <4>2, <4>3, <5>2
      <4>4. CASE ~(u.authz = a /\ u.permit.session = s)
        BY <2>7, <2>8, <4>1, <4>2, <4>4
      <4> QED BY <4>3, <4>4
    <3> QED BY <2>6, <3>1, <3>2
  <2>12. Ordered'
    <3> SUFFICES ASSUME NEW i \in DOMAIN accepted', NEW j \in DOMAIN accepted', i < j,
                        accepted'[i].authz = accepted'[j].authz,
                        accepted'[i].permit.session = accepted'[j].permit.session
                 PROVE  accepted'[i].permit.seq < accepted'[j].permit.seq
      BY DEF Ordered
    <3>1. i \in 1..Len(accepted) /\ accepted'[i] = accepted[i] /\ accepted[i] \in UseRecords
      BY <2>5, <2>6 DEF IInv, Typed
    <3>2. CASE j \in DOMAIN accepted
      BY <2>5, <2>6, <3>1, <3>2 DEF IInv, Ordered
    <3>3. CASE j = Len(accepted) + 1
      <4>1. accepted[i].authz = a /\ accepted[i].permit.session = s
        BY <2>3, <2>5, <3>1, <3>3
      <4>2. accepted[i].permit.seq <= authorizers[a].lastSeq[s]
        BY <2>6, <3>1, <4>1 DEF IInv, Covered
      <4>3. accepted[i].permit.seq \in Int /\ authorizers[a].lastSeq[s] \in Int
        <5>1. accepted[i].permit.seq \in Int
          BY <3>1, PermitsAssumption DEF UseRecords, PermitRecords
        <5>2. authorizers[a].lastSeq[s] \in Nat
          BY <2>1, <2>7 DEF AuthorizerRecords
        <5> QED BY <5>1, <5>2
      <4> QED BY <1>3, <2>1, <2>3, <2>5, <3>1, <3>3, <4>2, <4>3
    <3> QED BY <2>6, <3>2, <3>3
  <2>13. Timely'
    BY <2>4, <2>5, <2>6 DEF IInv, Timely
  <2> QED BY <2>9, <2>10, <2>11, <2>12, <2>13 DEF IInv
<1> QED BY <1>2, <1>3, DecideGives

LEMMA NextHolds == IInv /\ [Next]_vars => IInv'
<1> SUFFICES ASSUME IInv, [Next]_vars PROVE IInv'
  OBVIOUS
<1>1. CASE UNCHANGED vars
  <2>1. Typed' /\ Bindings' /\ Newest'
    BY <1>1 DEF vars, IInv, Typed, Bindings, Holds, Newest
  <2> QED BY <1>1, <2>1, SameHistory DEF vars, IInv
<1> QED BY <1>1, EnvironmentHolds, DispatchHolds, BindHolds, DecideHolds DEF Next

(* The inductive invariant: whatever the broker or the network delivers,   *)
(* however the calls interleave and whenever the agent re-enrolls.         *)
THEOREM Invariance == Spec => []IInv
<1>1. Init => IInv
  BY InitHolds
<1>2. IInv /\ [Next]_vars => IInv'
  BY NextHolds
<1> QED BY <1>1, <1>2, PTL DEF Spec

-----------------------------------------------------------------------------
(* Variables keep their types: a cached or bound Authorizer exists and was *)
(* built for the device it is cached under (authorizerFor, handlerFor).    *)
THEOREM TypeCorrect == Spec => []TypeOK
<1>1. IInv => TypeOK
  <2> SUFFICES ASSUME IInv PROVE TypeOK
    OBVIOUS
  <2> USE DEF IInv
  <2>1. identity \in Devices \union {None} /\ stream \in Devices \union {None}
        /\ Len(authorizers) <= MaxAuthorizers /\ restarts \in 0..MaxRestarts
    BY DEF Typed
  <2>2. \A i \in DOMAIN authorizers :
          authorizers[i].device \in Devices /\ authorizers[i].lastSeq \in [Sessions -> Nat]
    <3> SUFFICES ASSUME NEW i \in DOMAIN authorizers
                 PROVE  /\ authorizers[i].device \in Devices
                        /\ authorizers[i].lastSeq \in [Sessions -> Nat]
      OBVIOUS
    <3>1. authorizers[i] \in AuthorizerRecords
      BY DEF Typed
    <3> QED BY <3>1 DEF AuthorizerRecords
  <2>3. \A cache \in {provider, pty} :
          cache = Empty \/ /\ cache.authz \in DOMAIN authorizers
                           /\ authorizers[cache.authz].device = cache.device
    BY DEF Bindings, Holds
  <2>4. \A c \in Calls : \/ calls[c].at = "bound" /\ calls[c].authz \in DOMAIN authorizers
                         \/ calls[c] \in CallRecords
    <3> SUFFICES ASSUME NEW c \in Calls
                 PROVE  \/ calls[c].at = "bound" /\ calls[c].authz \in DOMAIN authorizers
                        \/ calls[c] \in CallRecords
      OBVIOUS
    <3>1. CASE calls[c] \in Waiting
      <4> DEFINE w == calls[c]
                 f == [permit |-> w.permit, now |-> w.now, path |-> w.path, line |-> w.line]
      <4>1. /\ w = [at |-> w.at, permit |-> f.permit, now |-> f.now, path |-> f.path,
                    line |-> f.line]
            /\ w.at \in {"arrived", "checked"}
            /\ f \in [permit : Permits, now : Times, path : Capabilities,
                      line : Lines \union {NoLine}]
        BY <3>1 DEF Waiting
      <4> HIDE DEF f, w
      <4> QED BY <4>1 DEF CallRecords, w
    <3>2. CASE calls[c] \in Deciding
      BY <3>2, CallShape DEF Bindings, Holds
    <3> QED BY <3>1, <3>2 DEF Typed, CallRecords
  <2> QED BY <2>1, <2>2, <2>3, <2>4 DEF TypeOK
<1> QED BY <1>1, Invariance, PTL

(* Whatever re-enrollments and restarts do, and wherever the clock is set: *)
(* one Authorizer never allows a permit twice (the seq window of Authorize *)
(* and AuthorizeViewOnly), and two Authorizers allow it only at readings   *)
(* of the clock less than the cap and twice the leeway apart (IsFresh).    *)
THEOREM ReplaysAreBounded == Spec => []ReplayIsBounded
<1>1. IInv => ReplayIsBounded
  <2> SUFFICES ASSUME IInv, NEW i \in DOMAIN accepted, NEW j \in DOMAIN accepted,
                      i # j, accepted[i].permit = accepted[j].permit
               PROVE  /\ accepted[i].authz # accepted[j].authz
                      /\ accepted[j].now - accepted[i].now < MaxValidity + 2 * Skew
    BY DEF ReplayIsBounded
  <2>1. /\ DOMAIN accepted = 1..Len(accepted) /\ Len(accepted) \in Nat
        /\ accepted[i] \in UseRecords /\ accepted[j] \in UseRecords
    BY LenProperties DEF IInv, Typed
  <2> DEFINE p == accepted[i].permit
  <2>2. /\ p.seq \in Int /\ p.issued \in Int /\ p.expires \in Int
        /\ accepted[i].now \in Int /\ accepted[j].now \in Int
    BY <2>1, PermitsAssumption, BoundsAssumption DEF UseRecords, PermitRecords
  \* The window of one Authorizer only grows, so it has allowed p once.
  <2>3. accepted[i].authz # accepted[j].authz
    <3>1. i < j \/ j < i
      BY <2>1
    <3> QED BY <2>2, <3>1 DEF IInv, Ordered
  \* Both readings are in the same window.
  <2>4. /\ p.expires - p.issued <= MaxValidity
        /\ p.issued - Skew <= accepted[i].now /\ accepted[j].now < p.expires + Skew
    BY DEF IInv, Timely, InTime
  <2> HIDE DEF p
  <2>5. accepted[j].now - accepted[i].now < MaxValidity + 2 * Skew
    BY <2>2, <2>4, BoundsAssumption
  <2> QED BY <2>3, <2>5
<1> QED BY <1>1, Invariance, PTL

(* With one device and no restart there is one Authorizer at most.         *)
LEMMA OnlyOne ==
  ASSUME IInv, OneDevice
  PROVE  DOMAIN authorizers \subseteq {1}
<1>1. DOMAIN authorizers = 1..Len(authorizers) /\ Len(authorizers) \in Nat
  BY LenProperties DEF IInv, Typed
<1>2. SUFFICES ASSUME Len(authorizers) > 1 PROVE FALSE
  BY <1>1
<1>3. authorizers[1].device # authorizers[1 + 1].device
  BY <1>1, <1>2 DEF IInv, OneDevice, Newest
<1> QED BY <1>1, <1>2, <1>3 DEF OneDevice

(* While one device is served without a restart no two uses share session  *)
(* and seq, though both capabilities and every goroutine may try: the      *)
(* window of permit.go is kept by one Authorizer (authorizerFor).          *)
THEOREM UsedOnce == Spec => []SingleUse
<1>1. IInv => SingleUse
  <2> SUFFICES ASSUME IInv, OneDevice, NEW i \in DOMAIN accepted, NEW j \in DOMAIN accepted,
                      accepted[i].permit.session = accepted[j].permit.session,
                      accepted[i].permit.seq = accepted[j].permit.seq, i # j
               PROVE  FALSE
    BY DEF SingleUse
  <2>1. accepted[i].authz = accepted[j].authz
    BY OnlyOne DEF IInv, Covered
  <2>2. accepted[i].permit.seq \in Int /\ i \in Int /\ j \in Int
    <3>1. DOMAIN accepted = 1..Len(accepted) /\ Len(accepted) \in Nat
          /\ accepted[i] \in UseRecords
      BY LenProperties DEF IInv, Typed
    <3> QED BY <3>1, PermitsAssumption DEF UseRecords, PermitRecords
  <2>3. i < j \/ j < i
    BY <2>2
  <2> QED BY <2>1, <2>2, <2>3 DEF IInv, Ordered
<1> QED BY <1>1, Invariance, PTL

(* Meanwhile every goroutine that holds an Authorizer holds the same one,  *)
(* for both capabilities (the comment on authorizerFor).                   *)
THEOREM SharedAlways == Spec => []SharedAuthorizer
<1>1. IInv => SharedAuthorizer
  BY OnlyOne DEF IInv, Bindings, Holds, SharedAuthorizer
<1> QED BY <1>1, Invariance, PTL

-----------------------------------------------------------------------------
(* The refinement: a pair of an Authorizer and a session is one window.    *)
windows == (1..MaxAuthorizers) \X Sessions
lastOf == [w \in windows |->
             IF w[1] <= Len(authorizers) THEN authorizers[w[1]].lastSeq[w[2]] ELSE 0]

LEMMA WindowStarts == Init => Window!Init
BY BoundsAssumption DEF Init, Window!Init

(* Building an Authorizer opens windows that stand at zero.                *)
LEMMA WindowKept ==
  ASSUME IInv, NEW d \in Devices, NEW a \in 1..MaxAuthorizers, AuthorizerFor(d, a)
  PROVE  lastOf' = lastOf
<1> DEFINE new == [device |-> d, lastSeq |-> [s \in Sessions |-> 0]]
<1>1. CASE UNCHANGED authorizers
  BY <1>1 DEF lastOf, windows
<1>2. CASE authorizers' = Append(authorizers, new)
  <2>1. new \in AuthorizerRecords /\ \A s \in Sessions : new.lastSeq[s] = 0
    BY DEF AuthorizerRecords
  <2> HIDE DEF new
  <2>2. /\ Len(authorizers') = Len(authorizers) + 1 /\ Len(authorizers) \in Nat
        /\ \A i \in 1..Len(authorizers) : authorizers'[i] = authorizers[i]
        /\ authorizers'[Len(authorizers) + 1] = new
    BY <1>2, <2>1, AppendProperties, LenProperties DEF IInv, Typed
  <2>3. SUFFICES ASSUME NEW w \in windows PROVE lastOf'[w] = lastOf[w]
    BY DEF lastOf, windows
  <2>4. w[1] \in 1..MaxAuthorizers /\ w[2] \in Sessions
    BY DEF windows
  <2>5. /\ lastOf[w] = IF w[1] <= Len(authorizers) THEN authorizers[w[1]].lastSeq[w[2]] ELSE 0
        /\ lastOf'[w] = IF w[1] <= Len(authorizers') THEN authorizers'[w[1]].lastSeq[w[2]] ELSE 0
    BY DEF lastOf, windows
  <2>6. CASE w[1] <= Len(authorizers)
    BY <2>2, <2>4, <2>5, <2>6, BoundsAssumption
  <2>7. CASE w[1] = Len(authorizers) + 1
    BY <2>1, <2>2, <2>4, <2>5, <2>7
  <2>8. CASE w[1] > Len(authorizers) + 1
    BY <2>2, <2>4, <2>5, <2>8, BoundsAssumption
  <2> QED BY <2>2, <2>4, <2>6, <2>7, <2>8, BoundsAssumption
<1> QED BY <1>1, <1>2 DEF AuthorizerFor

(* A decision that allows moves the window of its Authorizer and session.  *)
LEMMA WindowAccepts ==
  ASSUME IInv, NEW c \in Calls, Decide(c)
  PROVE  \/ lastOf' = lastOf
         \/ \E w \in windows : lastOf'[w] > lastOf[w]
                               /\ lastOf' = [lastOf EXCEPT ![w] = lastOf'[w]]
<1> USE BoundsAssumption
<1> DEFINE p == calls[c].permit
           a == calls[c].authz
           s == p.session
<1>1. CASE UNCHANGED authorizers
  BY <1>1 DEF lastOf, windows
<1>2. CASE /\ p.seq > authorizers[a].lastSeq[s]
           /\ authorizers' = [authorizers EXCEPT ![a].lastSeq[s] = p.seq]
  <2>1. a \in DOMAIN authorizers /\ s \in Sessions
    BY DecideGives, PermitsAssumption DEF Holds, Deciding, PermitRecords
  <2>2. /\ DOMAIN authorizers = 1..Len(authorizers) /\ Len(authorizers) \in Nat
        /\ Len(authorizers) <= MaxAuthorizers /\ authorizers[a] \in AuthorizerRecords
        /\ \A i \in DOMAIN authorizers : authorizers[i] \in AuthorizerRecords
        /\ authorizers' \in Seq(AuthorizerRecords)
    BY <2>1, LenProperties, DecideHolds DEF IInv, Typed
  <2>3. DOMAIN authorizers' = DOMAIN authorizers
    BY <1>2
  <2>4. Len(authorizers') = Len(authorizers)
    BY <2>2, <2>3, LenProperties
  <2>5. /\ authorizers'[a].lastSeq[s] = p.seq
        /\ \A i \in DOMAIN authorizers, t \in Sessions :
             i # a \/ t # s => authorizers'[i].lastSeq[t] = authorizers[i].lastSeq[t]
    BY <1>2, <2>1, <2>2 DEF AuthorizerRecords
  <2> DEFINE w0 == << a, s >>
  <2>6. w0 \in windows /\ w0[1] = a /\ w0[2] = s
    BY <2>1, <2>2 DEF windows
  <2>7. lastOf[w0] = authorizers[a].lastSeq[s] /\ lastOf'[w0] = p.seq
    BY <2>1, <2>2, <2>4, <2>5, <2>6 DEF lastOf
  <2>8. \A w \in windows : w # w0 => lastOf'[w] = lastOf[w]
    <3> SUFFICES ASSUME NEW w \in windows, w # w0 PROVE lastOf'[w] = lastOf[w]
      OBVIOUS
    <3>1. w[1] \in 1..MaxAuthorizers /\ w[2] \in Sessions /\ (w[1] # a \/ w[2] # s)
      BY DEF windows
    <3>2. /\ lastOf[w] = IF w[1] <= Len(authorizers) THEN authorizers[w[1]].lastSeq[w[2]] ELSE 0
          /\ lastOf'[w] = IF w[1] <= Len(authorizers') THEN authorizers'[w[1]].lastSeq[w[2]] ELSE 0
      BY DEF lastOf, windows
    <3>3. CASE w[1] <= Len(authorizers)
      BY <2>2, <2>4, <2>5, <3>1, <3>2, <3>3
    <3> QED BY <2>4, <3>2, <3>3
  <2> HIDE DEF w0
  <2>9. lastOf' = [lastOf EXCEPT ![w0] = lastOf'[w0]]
    BY <2>6, <2>8 DEF lastOf
  <2> QED BY <1>2, <2>6, <2>7, <2>9
<1> QED BY <1>1, <1>2, DecideGives

LEMMA WindowSteps == IInv /\ [Next]_vars => [Window!Next]_lastOf
<1> SUFFICES ASSUME IInv, [Next]_vars PROVE [Window!Next]_lastOf
  OBVIOUS
<1>1. CASE UNCHANGED authorizers
  BY <1>1 DEF lastOf, windows
<1>2. ASSUME NEW c \in Calls, Bind(c) PROVE lastOf' = lastOf
  <2>1. calls[c].permit.device \in Devices
    BY <1>2, CallShape, PermitsAssumption DEF Bind, IInv, Waiting, PermitRecords
  <2>2. UNCHANGED authorizers \/ \E a \in 1..MaxAuthorizers : AuthorizerFor(calls[c].permit.device, a)
    BY <1>2 DEF Bind
  <2> QED BY <2>1, <2>2, WindowKept DEF lastOf, windows
<1>3. ASSUME NEW c \in Calls, Decide(c) PROVE [Window!Next]_lastOf
  BY <1>3, WindowAccepts DEF Window!Next, Window!Accept, windows, lastOf
<1> QED BY <1>1, <1>2, <1>3 DEF Next, Reenroll, Connect, Restart, Dispatch, CheckDevice, vars

(* Every Authorizer is one replay window per session over both capabilities*)
(* and all goroutines, whatever re-enrollment and restarts do around it:   *)
(* the lock of Authorize spans the comparison and the advance.             *)
THEOREM Refinement == Spec => ImplementsWindow
<1>1. Init => Window!Init
  BY WindowStarts
<1>2. IInv /\ [Next]_vars => [Window!Next]_lastOf
  BY WindowSteps
<1> QED BY <1>1, <1>2, Invariance, PTL DEF Spec, ImplementsWindow, Window!Spec, lastOf, windows
===============================================================================
