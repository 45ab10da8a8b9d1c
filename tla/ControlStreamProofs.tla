-------------------------- MODULE ControlStreamProofs --------------------------
(***************************************************************************)
(* The CONTROL stream for every timing, interval and numbering: a watchdog *)
(* that never fires early, deadlines within their bounds, frames taken in  *)
(* increasing order, delays that measure the failures. Then KILL against   *)
(* what a stream has started.                                              *)
(***************************************************************************)
EXTENDS ControlStream, SessionKill, WellFoundedInduction, TLAPS

(* On a live stream the ticks left and the ticks passed make up the limit. *)
Watchdog ==
  /\ timer \in Nat /\ silence \in Nat /\ allowed \in Nat /\ fired \in BOOLEAN
  /\ phase = "stream" => timer + silence = allowed /\ (fired => timer = 0)

(* The guard remembers the last number accepted.                           *)
Numbering ==
  /\ guard \in [sequenced : BOOLEAN, last : Nat]
  /\ pair \in Int \X Int
  /\ pair[2] = guard.last
  /\ guard.sequenced => guard.last > 0
  /\ ~guard.sequenced => pair = << 0, 0 >>

(* What recvLoop handed over is an envelope.                               *)
Received == inbox # None => inbox \in Envelope

IInv ==
  /\ Watchdog /\ Numbering /\ Received
  /\ DeadlineBounded /\ NoPrematureWatchdog /\ FramesIncrease

-----------------------------------------------------------------------------
(* clampInterval keeps any duration in its range, negative ones included.  *)
LEMMA ClampInRange ==
  ASSUME NEW x \in Int
  PROVE  Clamp(x) \in MinInterval..MaxInterval
BY ControlAssumption DEF Clamp, Greatest, Least

LEMMA DurationIsInt ==
  ASSUME NEW millis \in Int
  PROVE  AsDuration(millis) \in Int
<1> DEFINE product == millis * Milli
<1>1. product \in Int
  BY ControlAssumption
<1>2. product % Width \in Int
  <2> HIDE DEF product
  <2> QED BY <1>1, ControlAssumption
<1> HIDE DEF product
<1>3. AsDuration(millis) = IF product % Width >= Width \div 2
                           THEN (product % Width) - Width ELSE product % Width
  BY DEF AsDuration, product
<1> QED BY <1>2, <1>3, ControlAssumption

(* A positive factor keeps the order.                                      *)
LEMMA Scaled ==
  ASSUME NEW a \in Nat, NEW b \in Nat, NEW f \in Nat, a <= b
  PROVE  a * f \in Nat /\ a * f <= b * f
OBVIOUS

(* A heartbeat's deadline is positive and within the clamped range.        *)
LEMMA DeadlineInRange ==
  ASSUME NEW x \in Int
  PROVE  LET d == Clamp(x) * HeartbeatMissFactor
         IN  /\ d \in Nat \ {0}
             /\ d \in (MinInterval * HeartbeatMissFactor)..(MaxInterval * HeartbeatMissFactor)
<1> DEFINE c == Clamp(x)
<1>1. c \in Nat /\ MinInterval <= c /\ c <= MaxInterval /\ c >= 1
  BY ClampInRange, ControlAssumption
<1> HIDE DEF c
<1>2. c * HeartbeatMissFactor \in Nat
      /\ MinInterval * HeartbeatMissFactor <= c * HeartbeatMissFactor
      /\ c * HeartbeatMissFactor <= MaxInterval * HeartbeatMissFactor
  BY <1>1, Scaled, ControlAssumption
<1>3. 1 * HeartbeatMissFactor <= c * HeartbeatMissFactor
  BY <1>1, Scaled, ControlAssumption
<1>4. MinInterval * HeartbeatMissFactor \in Nat /\ MaxInterval * HeartbeatMissFactor \in Nat
  BY Scaled, ControlAssumption
<1> QED BY <1>2, <1>3, <1>4, ControlAssumption DEF c

(* Admitting a frame keeps the numbering.                                  *)
LEMMA AdmitNumbers ==
  ASSUME Numbering, NEW seq \in Int, Admits(seq), Admit(seq)
  PROVE  Numbering' /\ FramesIncrease'
BY DEF Numbering, Admits, Admit, FramesIncrease

-----------------------------------------------------------------------------
LEMMA InitHolds == Init => IInv
<1> SUFFICES ASSUME Init PROVE IInv
  OBVIOUS
<1>1. Watchdog /\ Received /\ DeadlineBounded /\ NoPrematureWatchdog
  BY DEF Init, Watchdog, Received, DeadlineBounded, NoPrematureWatchdog
<1>2. Numbering /\ FramesIncrease
  BY DEF Init, FreshGuard, Numbering, FramesIncrease
<1> QED BY <1>1, <1>2 DEF IInv

(* An attempt that ends keeps what the ended stream counted; only the      *)
(* watchdog must have waited for its limit.                                *)
LEMMA EndKeeps ==
  ASSUME Watchdog, NoPrematureWatchdog, NEW why, EndAttempt(why), UNCHANGED watch,
         why = "watchdog" => silence >= allowed
  PROVE  Watchdog' /\ NoPrematureWatchdog' /\ Received'
BY DEF EndAttempt, watch, Watchdog, NoPrematureWatchdog, Received

LEMMA NextHolds == IInv /\ [Next]_vars => IInv'
<1> SUFFICES ASSUME IInv, [Next]_vars PROVE IInv'
  OBVIOUS
<1>1. CASE UNCHANGED vars
  BY <1>1 DEF vars, run, watch, frames, IInv, Watchdog, Numbering, Received, DeadlineBounded,
              NoPrematureWatchdog, FramesIncrease
<1>2. CASE IdentityChanges \/ Stop
  BY <1>2 DEF IdentityChanges, Stop, run, watch, frames, IInv, Watchdog, Numbering, Received,
              DeadlineBounded, NoPrematureWatchdog, FramesIncrease
<1>3. CASE Receive \/ Mute
  BY <1>3 DEF Receive, Mute, run, watch, IInv, Watchdog, Numbering, Received,
              DeadlineBounded, NoPrematureWatchdog, FramesIncrease
<1>4. CASE Tick
  BY <1>4 DEF Tick, run, frames, IInv, Watchdog, Numbering, Received,
              DeadlineBounded, NoPrematureWatchdog, FramesIncrease
<1>5. CASE Poll \/ Wake \/ PollStopped
  BY <1>5 DEF Poll, Wake, PollStopped, watch, frames, IInv, Watchdog, Numbering, Received,
              DeadlineBounded, NoPrematureWatchdog, FramesIncrease
<1>6. CASE Connected
  <2>1. Watchdog' /\ NoPrematureWatchdog' /\ Received'
    <3>1. fired' \in BOOLEAN /\ ~fired'
      BY <1>6 DEF Connected
    <3>2. /\ FirstHeartbeatDeadline \in Nat
          /\ timer' = FirstHeartbeatDeadline /\ silence' = 0
          /\ allowed' = FirstHeartbeatDeadline
      BY <1>6, ControlAssumption DEF Connected
    <3>3. phase' = "stream" /\ inbox' = None
      BY <1>6 DEF Connected
    <3>4. Watchdog'
      BY <3>1, <3>2 DEF Watchdog
    <3> QED BY <3>3, <3>4 DEF NoPrematureWatchdog, Received
  <2>2. DeadlineBounded'
    <3>1. allowed' = FirstHeartbeatDeadline
      BY <1>6 DEF Connected
    <3> QED BY <3>1, Zenon DEF DeadlineBounded
  <2>3. Numbering' /\ FramesIncrease'
    BY <1>6 DEF Connected, FreshGuard, Numbering, FramesIncrease
  <2> QED BY <2>1, <2>2, <2>3 DEF IInv
<1>7. CASE DialFails \/ StopStream \/ Eof
  <2>1. Watchdog' /\ NoPrematureWatchdog' /\ Received'
    BY <1>7, EndKeeps DEF DialFails, StopStream, Eof, IInv
  <2> QED BY <1>7, <2>1 DEF DialFails, StopStream, Eof, watch, IInv, Numbering,
                             DeadlineBounded, FramesIncrease
<1>8. CASE WatchdogFires
  \* The tick is in the channel, so no tick is left: the limit has passed.
  <2>1. silence >= allowed
    BY <1>8 DEF WatchdogFires, IInv, Watchdog
  <2>2. Watchdog' /\ NoPrematureWatchdog' /\ Received'
    BY <1>8, <2>1, EndKeeps DEF WatchdogFires, IInv
  <2> QED BY <1>8, <2>2 DEF WatchdogFires, watch, IInv, Numbering, DeadlineBounded,
                             FramesIncrease
<1>9. CASE Defect \/ TransportKill
  <2>1. Watchdog' /\ NoPrematureWatchdog' /\ Received'
    BY <1>9, EndKeeps DEF Defect, TransportKill, IInv
  <2>2. inbox.seq \in Int
    BY <1>9, ControlAssumption DEF Defect, TransportKill, Framed, IInv, Received, Envelope
  <2>3. Numbering' /\ FramesIncrease'
    <3>1. CASE Admits(inbox.seq) /\ Admit(inbox.seq)
      BY <2>2, <3>1, AdmitNumbers DEF IInv
    <3>2. CASE UNCHANGED << guard, pair >>
      BY <3>2 DEF IInv, Numbering, FramesIncrease
    <3> QED BY <1>9, <3>1, <3>2 DEF Defect, TransportKill
  <2>4. DeadlineBounded'
    BY <1>9 DEF Defect, TransportKill, watch, IInv, DeadlineBounded
  <2> QED BY <2>1, <2>3, <2>4 DEF IInv
<1>10. CASE Obey
  <2>1. inbox.seq \in Int
    BY <1>10, ControlAssumption DEF Obey, Framed, IInv, Received, Envelope
  <2>2. Numbering' /\ FramesIncrease'
    BY <1>10, <2>1, AdmitNumbers DEF Obey, IInv
  <2> QED BY <1>10, <2>2 DEF Obey, run, watch, IInv, Watchdog, Received, DeadlineBounded,
                              NoPrematureWatchdog
<1>11. CASE Heartbeat
  <2>1. inbox.seq \in Int /\ inbox.interval \in Int
    BY <1>11, ControlAssumption DEF Heartbeat, Framed, IInv, Received, Envelope
  <2>2. Numbering' /\ FramesIncrease'
    BY <1>11, <2>1, AdmitNumbers DEF Heartbeat, IInv
  <2> DEFINE d == Clamp(AsDuration(inbox.interval)) * HeartbeatMissFactor
  <2>3. timer' = d /\ fired' = FALSE /\ silence' = 0 /\ allowed' = d
    BY <1>11 DEF Heartbeat, ResetTimer
  <2>4. /\ d \in Nat \ {0}
        /\ d \in (MinInterval * HeartbeatMissFactor)..(MaxInterval * HeartbeatMissFactor)
    BY <2>1, DurationIsInt, DeadlineInRange
  <2>5. \/ phase' = phase /\ last' = last /\ inbox' = None
        \/ EndAttempt("ack")
    BY <1>11 DEF Heartbeat
  <2>6. phase = "stream"
    BY <1>11 DEF Heartbeat, Framed
  <2> HIDE DEF d
  <2>7. Watchdog'
    <3>1. fired' \in BOOLEAN /\ ~fired'
      BY <2>3
    <3> QED BY <2>3, <2>4, <3>1 DEF Watchdog
  <2>8. NoPrematureWatchdog' /\ Received'
    BY <2>5, <2>6 DEF EndAttempt, NoPrematureWatchdog, Received
  <2>9. DeadlineBounded'
    BY <2>3, <2>4, Zenon DEF DeadlineBounded
  <2> QED BY <2>2, <2>7, <2>8, <2>9 DEF IInv
<1> QED BY <1>1, <1>2, <1>3, <1>4, <1>5, <1>6, <1>7, <1>8, <1>9, <1>10, <1>11 DEF Next, Loop

(* The invariant the results below are read off.                           *)
THEOREM Invariance == Spec => []IInv
<1> QED BY InitHolds, NextHolds, PTL DEF Spec

(* resetTimer: a watchdog that ends a stream has seen the whole limit pass *)
(* since the last heartbeat.                                               *)
THEOREM WatchdogIsPatient == Spec => []NoPrematureWatchdog
<1>1. IInv => NoPrematureWatchdog
  BY DEF IInv
<1> QED BY <1>1, Invariance, PTL

(* clampInterval: no announced interval, however it overflows, puts the    *)
(* watchdog outside its range.                                             *)
THEOREM DeadlinesAreBounded == Spec => []DeadlineBounded
<1>1. IInv => DeadlineBounded
  BY DEF IInv
<1> QED BY <1>1, Invariance, PTL

(* inboundSeqGuard: no positive frame number is accepted twice on a stream. *)
THEOREM FramesAreOrdered == Spec => []FramesIncrease
<1>1. IInv => FramesIncrease
  BY DEF IInv
<1> QED BY <1>1, Invariance, PTL

(* The three together, for every number of attempts, beats and frames.      *)
THEOREM StreamsAreDisciplined == Spec => []StreamDiscipline
<1>1. NoPrematureWatchdog /\ DeadlineBounded /\ FramesIncrease => StreamDiscipline
  BY DEF StreamDiscipline
<1> QED BY <1>1, WatchdogIsPatient, DeadlinesAreBounded, FramesAreOrdered, PTL

-----------------------------------------------------------------------------
(* The reconnect delay. A set of numbers each of which has one before it in  *)
(* the set is empty: that is what stands for an induction here.              *)
LEMMA NoLeast ==
  ASSUME NEW Bad \in SUBSET Nat, \A n \in Bad : n # 0 /\ n - 1 \in Bad
  PROVE  Bad = {}
<1> DEFINE L == OpToRel(<, Nat)
<1>1. IsWellFoundedOn(L, Nat) /\ \A m, n \in Nat : << n, m >> \in L <=> n < m
  BY NatLessThanWellFounded DEF OpToRel
<1> HIDE DEF L
<1> SUFFICES ASSUME Bad # {} PROVE FALSE
  OBVIOUS
<1>2. PICK n \in Bad : \A m \in Bad : ~(<< m, n >> \in L)
  BY <1>1, WFMin
<1>3. n - 1 \in Bad /\ n - 1 < n
  BY <1>2
<1> QED BY <1>1, <1>2, <1>3

\* The doublings up to n, as a function that exists for every n.
UpTo(f, n) ==
  f = [d \in 0..n |-> IF d = 0 THEN BackoffMin ELSE 2 * f[d - 1]]

LEMMA UpToIs ==
  ASSUME NEW n \in Nat, NEW f, UpTo(f, n), NEW d \in 0..n
  PROVE  f[d] = IF d = 0 THEN BackoffMin ELSE 2 * f[d - 1]
BY DEF UpTo

LEMMA UpToExists == \A n \in Nat : \E f : UpTo(f, n)
<1> DEFINE Bad == {n \in Nat : ~\E f : UpTo(f, n)}
<1>1. ASSUME NEW n \in Bad PROVE n # 0 /\ n - 1 \in Bad
  <2>1. CASE n = 0
    <3>1. UpTo([d \in 0..0 |-> BackoffMin], 0)
      BY DEF UpTo
    <3> QED BY <2>1, <3>1
  <2>2. ASSUME n # 0, NEW f, UpTo(f, n - 1) PROVE FALSE
    <3> DEFINE g == [d \in 0..n |-> IF d = n THEN 2 * f[n - 1] ELSE f[d]]
    <3>1. \A d \in 0..n : d # 0 => d - 1 \in 0..(n - 1) /\ g[d - 1] = f[d - 1]
      OBVIOUS
    <3>2. \A d \in 0..(n - 1) : f[d] = IF d = 0 THEN BackoffMin ELSE 2 * f[d - 1]
      BY <2>2 DEF UpTo
    <3>3. ASSUME NEW d \in 0..n PROVE g[d] = IF d = 0 THEN BackoffMin ELSE 2 * g[d - 1]
      <4>1. CASE d = n
        BY <2>2, <3>1, <4>1
      <4>2. CASE d # n
        <5>1. d \in 0..(n - 1) /\ g[d] = f[d]
          BY <4>2
        <5>2. d # 0 => g[d - 1] = f[d - 1]
          BY <3>1
        <5> HIDE DEF g
        <5> QED BY <3>2, <5>1, <5>2
      <4> QED BY <4>1, <4>2
    <3>4. UpTo(g, n)
      <4>1. g = [d \in 0..n |-> g[d]]
        OBVIOUS
      <4> HIDE DEF g
      <4> QED BY <3>3, <4>1 DEF UpTo
    <3> QED BY <3>4
  <2> QED BY <2>1, <2>2
<1> HIDE DEF Bad
<1>2. Bad \in SUBSET Nat
  BY DEF Bad
<1>3. Bad = {}
  BY <1>1, <1>2, NoLeast
<1> QED BY <1>3 DEF Bad

LEMMA UpToAgree ==
  ASSUME NEW m \in Nat, NEW n \in Nat, m <= n, NEW f, NEW g, UpTo(f, m), UpTo(g, n)
  PROVE  f[m] = g[m]
<1> DEFINE Bad == {d \in Nat : d <= m /\ f[d] # g[d]}
<1>1. ASSUME NEW d \in 0..m
      PROVE  /\ f[d] = IF d = 0 THEN BackoffMin ELSE 2 * f[d - 1]
             /\ g[d] = IF d = 0 THEN BackoffMin ELSE 2 * g[d - 1]
  <2>1. d \in 0..n
    OBVIOUS
  <2> QED BY <2>1, UpToIs
<1>2. ASSUME NEW d \in Bad PROVE d # 0 /\ d - 1 \in Bad
  <2>1. d \in 0..m /\ f[d] # g[d]
    OBVIOUS
  <2>2. d # 0 /\ f[d - 1] # g[d - 1]
    BY <1>1, <2>1
  <2> QED BY <2>1, <2>2
<1> HIDE DEF Bad
<1>3. Bad = {}
  BY <1>2, NoLeast DEF Bad
<1> QED BY <1>3 DEF Bad

\* The definition of Doubled denotes what it says.
LEMMA DoubledIs ==
  ASSUME NEW n \in Nat
  PROVE  Doubled[n] = IF n = 0 THEN BackoffMin ELSE 2 * Doubled[n - 1]
<1> DEFINE Doubles(h) == h = [d \in Nat |-> IF d = 0 THEN BackoffMin ELSE 2 * h[d - 1]]
           F(d) == CHOOSE f : UpTo(f, d)
           h == [d \in Nat |-> F(d)[d]]
<1>1. \A d \in Nat : UpTo(F(d), d)
  BY UpToExists
<1> HIDE DEF F
<1>2. ASSUME NEW d \in Nat PROVE h[d] = IF d = 0 THEN BackoffMin ELSE 2 * h[d - 1]
  <2>1. F(d)[d] = IF d = 0 THEN BackoffMin ELSE 2 * F(d)[d - 1]
    BY <1>1, UpToIs
  <2>2. d # 0 => F(d)[d - 1] = F(d - 1)[d - 1]
    BY <1>1, UpToAgree
  <2>3. h[d] = F(d)[d] /\ (d # 0 => h[d - 1] = F(d - 1)[d - 1])
    OBVIOUS
  <2> QED BY <2>1, <2>2, <2>3
<1>3. Doubles(h)
  <2>1. h = [d \in Nat |-> h[d]]
    OBVIOUS
  <2> HIDE DEF h
  <2> QED BY <1>2, <2>1
<1>4. Doubled = CHOOSE f : Doubles(f)
  BY DEF Doubled
<1> HIDE DEF h
<1>5. Doubles(Doubled)
  <2> HIDE DEF Doubles
  <2> QED BY <1>3, <1>4
<1> QED BY <1>5

LEMMA DoubledGrows == \A n \in Nat : Doubled[n] \in Nat /\ Doubled[n] >= BackoffMin /\ Doubled[n] >= n
<1> DEFINE Bad == {n \in Nat : ~(Doubled[n] \in Nat /\ Doubled[n] >= BackoffMin /\ Doubled[n] > n)}
<1>1. ASSUME NEW n \in Bad PROVE n # 0 /\ n - 1 \in Bad
  <2>1. n # 0
    BY DoubledIs, ControlAssumption
  <2>2. n - 1 \in Nat /\ Doubled[n] = 2 * Doubled[n - 1]
    BY <2>1, DoubledIs
  <2>3. CASE Doubled[n - 1] \in Nat /\ Doubled[n - 1] >= BackoffMin /\ Doubled[n - 1] > n - 1
    <3> DEFINE w == Doubled[n - 1]
    <3>1. w \in Nat /\ w >= BackoffMin /\ w > n - 1 /\ Doubled[n] = 2 * w
      BY <2>2, <2>3
    <3> HIDE DEF w
    <3>2. 2 * w \in Nat /\ 2 * w >= BackoffMin /\ 2 * w > n
      BY <3>1, ControlAssumption
    <3> QED BY <3>1, <3>2
  <2> QED BY <2>1, <2>2, <2>3
<1> HIDE DEF Bad
<1>2. Bad \in SUBSET Nat
  BY DEF Bad
<1>3. Bad = {}
  BY <1>1, <1>2, NoLeast
<1> QED BY <1>3 DEF Bad

\* The cap is reached, and there is a first time.
LEMMA MaxFailsIs == MaxFails \in Nat /\ Doubled[MaxFails] >= BackoffMax
<1> DEFINE Reached(n) == Doubled[n] >= BackoffMax
           First(n) == Reached(n) /\ \A m \in 0..BackoffMax : Reached(m) => n <= m
           Bad == {n \in Nat : \E m \in 0..BackoffMax : Reached(m) /\ m <= n}
<1>1. BackoffMax \in 0..BackoffMax /\ Reached(BackoffMax)
  BY ControlAssumption, DoubledGrows
<1> HIDE DEF Reached
<1>2. \E n \in 0..BackoffMax : First(n)
  <2> SUFFICES ASSUME \A n \in 0..BackoffMax : ~First(n) PROVE FALSE
    OBVIOUS
  <2>1. ASSUME NEW n \in Bad PROVE n # 0 /\ n - 1 \in Bad
    <3>1. PICK m \in 0..BackoffMax : Reached(m) /\ m <= n
      OBVIOUS
    <3>2. PICK k \in 0..BackoffMax : Reached(k) /\ k < m
      BY <3>1
    <3> QED BY <3>1, <3>2, ControlAssumption
  <2>2. BackoffMax \in Bad
    BY <1>1, ControlAssumption
  <2>3. Bad \in SUBSET Nat
    OBVIOUS
  <2> HIDE DEF Bad
  <2> QED BY <2>1, <2>2, <2>3, NoLeast
<1>3. MaxFails = CHOOSE n \in 0..BackoffMax : First(n)
  BY DEF MaxFails, Reached
<1>4. MaxFails \in 0..BackoffMax /\ First(MaxFails)
  <2> HIDE DEF First
  <2> QED BY <1>2, <1>3
<1> QED BY <1>4, ControlAssumption DEF Reached

Loops ==
  /\ phase \in {"poll", "dial", "stream", "sleep", "returned"}
  /\ enrolled \in BOOLEAN /\ stopped \in BOOLEAN /\ healthy \in BOOLEAN /\ mute \in BOOLEAN
Delays == fails \in 0..MaxFails /\ BackoffMeasuresFailures

\* nextBackoff takes the delay of so many failures to that of one more.
LEMMA EndDelays ==
  ASSUME Delays, NEW why, EndAttempt(why)
  PROVE  Delays'
<1>1. MaxFails \in Nat /\ Doubled[MaxFails] >= BackoffMax
  BY MaxFailsIs
<1>2. /\ BackoffMin \in Nat /\ BackoffMax \in Nat /\ BackoffMin <= BackoffMax
      /\ fails \in Nat /\ fails <= MaxFails /\ backoff = Least(Doubled[fails], BackoffMax)
  BY <1>1, ControlAssumption DEF Delays, BackoffMeasuresFailures
<1>3. CASE stopped
  BY <1>3 DEF EndAttempt, Delays, BackoffMeasuresFailures
<1>4. CASE ~stopped /\ healthy
  <2>1. fails' = 0 /\ backoff' = BackoffMin /\ Doubled[0] = BackoffMin
    BY <1>4, DoubledIs DEF EndAttempt, BackoffAfter
  <2> QED BY <1>1, <1>2, <2>1 DEF Delays, BackoffMeasuresFailures, Least
<1>5. CASE ~stopped /\ ~healthy
  <2>1. fails' = Least(fails + 1, MaxFails) /\ backoff' = NextBackoff(backoff)
    BY <1>5 DEF EndAttempt, BackoffAfter
  <2>2. Doubled[fails] \in Nat /\ Doubled[fails] >= BackoffMin /\ Doubled[fails + 1] = 2 * Doubled[fails]
    BY <1>2, DoubledIs, DoubledGrows
  <2>3. CASE fails < MaxFails
    <3>1. fails' = fails + 1 /\ fails' \in 0..MaxFails
      BY <1>1, <1>2, <2>1, <2>3 DEF Least
    <3> DEFINE w == Doubled[fails]
    <3>2. w \in Nat /\ w >= BackoffMin /\ Doubled[fails'] = 2 * w /\ backoff = Least(w, BackoffMax)
      BY <1>2, <2>2, <3>1
    <3> HIDE DEF w
    <3>3. NextBackoff(backoff) = Least(2 * w, BackoffMax)
      BY <1>2, <3>2 DEF NextBackoff, Least, Greatest
    <3> QED BY <2>1, <3>1, <3>2, <3>3 DEF Delays, BackoffMeasuresFailures
  <2>4. CASE fails = MaxFails
    <3>1. fails' = fails /\ backoff = BackoffMax
      BY <1>1, <1>2, <2>1, <2>2, <2>4 DEF Least
    <3>2. NextBackoff(backoff) = BackoffMax
      BY <1>2, <3>1 DEF NextBackoff, Least, Greatest
    <3> QED BY <1>2, <2>1, <3>1, <3>2 DEF Delays, BackoffMeasuresFailures
  <2> QED BY <1>1, <1>2, <2>3, <2>4
<1> QED BY <1>3, <1>4, <1>5 DEF EndAttempt, Delays

LEMMA RunInit == Init => Loops /\ Delays
<1> SUFFICES ASSUME Init PROVE Loops /\ Delays
  OBVIOUS
<1>1. MaxFails \in Nat /\ Doubled[0] = BackoffMin
  BY MaxFailsIs, DoubledIs
<1>2. fails = 0 /\ backoff = BackoffMin
  BY DEF Init
<1>3. Delays
  BY <1>1, <1>2, ControlAssumption DEF Delays, BackoffMeasuresFailures, Least
<1>4. Loops
  BY DEF Init, Loops
<1> QED BY <1>3, <1>4

LEMMA RunStep == Loops /\ Delays /\ [Next]_vars => Loops' /\ Delays'
<1> SUFFICES ASSUME Loops, Delays, [Next]_vars PROVE Loops' /\ Delays'
  OBVIOUS
<1>1. ASSUME UNCHANGED << backoff, fails >> PROVE Delays'
  BY <1>1 DEF Delays, BackoffMeasuresFailures
<1>2. CASE UNCHANGED vars
  BY <1>1, <1>2 DEF vars, run, frames, Loops
<1>3. CASE IdentityChanges \/ Stop \/ Receive \/ Mute \/ Tick \/ Obey
  BY <1>1, <1>3 DEF IdentityChanges, Stop, Receive, Mute, Tick, Obey, run, frames, Loops
<1>4. CASE Poll \/ Connected \/ Wake \/ PollStopped
  BY <1>1, <1>4 DEF Poll, Connected, Wake, PollStopped, frames, Loops
<1>5. ASSUME NEW why, EndAttempt(why), UNCHANGED << enrolled, stopped >> PROVE Loops' /\ Delays'
  BY <1>5, EndDelays DEF EndAttempt, Loops
<1>6. CASE DialFails \/ StopStream \/ WatchdogFires \/ Eof \/ Defect \/ TransportKill
  BY <1>5, <1>6 DEF DialFails, StopStream, WatchdogFires, Eof, Defect, TransportKill
<1>7. CASE Heartbeat
  BY <1>1, <1>5, <1>7 DEF Heartbeat, Loops
<1> QED BY <1>2, <1>3, <1>4, <1>6, <1>7 DEF Next, Loop

(* Run and nextBackoff: the delay before the next dial is the shortest one     *)
(* doubled once per attempt that failed since the last healthy stream, up to   *)
(* the cap, whatever ended those attempts.                                     *)
THEOREM BackoffIsMeasured == Spec => []BackoffMeasuresFailures
<1>1. Delays => BackoffMeasuresFailures
  BY DEF Delays
<1> QED BY <1>1, RunInit, RunStep, PTL DEF Spec

(* The variables of Run, the watchdog and the guard keep their types.          *)
THEOREM TypeCorrect == Spec => []TypeOK
<1>1. ASSUME IInv, Loops, Delays PROVE TypeOK
  <2>1. backoff \in BackoffMin..BackoffMax
    <3>1. fails \in Nat
      BY <1>1, MaxFailsIs DEF Delays
    <3>2. Doubled[fails] \in Nat /\ Doubled[fails] >= BackoffMin
      BY <3>1, DoubledGrows
    <3> QED BY <1>1, <3>2, ControlAssumption DEF Delays, BackoffMeasuresFailures, Least
  <2>2. timer \in Nat /\ silence \in Nat /\ allowed \in Nat /\ fired \in BOOLEAN
    BY <1>1 DEF IInv, Watchdog
  <2>3. guard.sequenced \in BOOLEAN /\ guard.last \in Nat
    BY <1>1 DEF IInv, Numbering
  <2>4. inbox \in Envelope \union {None}
    BY <1>1 DEF IInv, Received
  <2> QED BY <1>1, <2>1, <2>2, <2>3, <2>4 DEF TypeOK, Loops, Delays
<1>2. IInv /\ Loops /\ Delays => TypeOK
  BY <1>1
<1> QED BY <1>2, Invariance, RunInit, RunStep, PTL DEF Spec

-----------------------------------------------------------------------------
(* KILL: the screen-stream registry and the acknowledgement, for any number *)
(* of sessions, dispatches, KILLs and CONTROL streams.                      *)
Place == {"none", "spawned", "refused", "running", "draining", "reporting", "gone"}

(* The registry maps a session to a screen stream or to nothing, and only  *)
(* screen streams ever queue for it.                                       *)
Registry ==
  /\ at \in [Dispatches -> Place]
  /\ screenCancels \in [Sessions -> Screens \union {Nothing}]
  /\ \A d \in Ptys : at[d] # "spawned"

(* What the KILLs found: screen streams, or nothing.                       *)
Kills ==
  /\ recv = Nothing \/ recv.entry \in Screens \union {Nothing}
  /\ \A w \in waiters : w.entry \in Screens \union {Nothing}
  /\ acked \subseteq Screens

KillInv == Registry /\ Kills /\ RunningIsRegistered /\ AckAfterStop /\ KillCancels

-----------------------------------------------------------------------------
LEMMA KillInitHolds == KillInit => KillInv
BY DispatchAssumption
   DEF KillInit, KillInv, Registry, Kills, RunningIsRegistered, AckAfterStop, KillCancels,
       Dispatches, Place, Registered

LEMMA KillNextHolds == KillInv /\ [KillNext]_killVars => KillInv'
<1> SUFFICES ASSUME KillInv, [KillNext]_killVars PROVE KillInv'
  OBVIOUS
<1> USE DispatchAssumption DEF Dispatches
<1>1. CASE UNCHANGED killVars
  BY <1>1 DEF killVars, KillInv, Registry, Kills, RunningIsRegistered, AckAfterStop,
              KillCancels, Registered
<1>2. CASE StreamUp \/ StreamDown
  BY <1>2 DEF StreamUp, StreamDown, registry, history, KillInv, Registry, Kills,
              RunningIsRegistered, AckAfterStop, KillCancels, Registered
<1>3. ASSUME NEW s \in Sessions, ObeyKill(s) PROVE KillInv'
  BY <1>3 DEF ObeyKill, registry, history, KillInv, Registry, Kills,
              RunningIsRegistered, AckAfterStop, KillCancels, Registered
<1>4. CASE ApplyKill
  <2> DEFINE w0 == [session |-> recv.session, entry |-> recv.entry,
                    started |-> recv.started, on |-> stream]
  <2>1. waiters' = waiters \union {w0} /\ w0.entry = recv.entry
    BY <1>4 DEF ApplyKill
  <2>2. Registry' /\ RunningIsRegistered' /\ AckAfterStop'
    BY <1>4 DEF ApplyKill, history, KillInv, Registry, RunningIsRegistered, AckAfterStop, Registered
  <2>3. Kills'
    BY <1>4, <2>1 DEF ApplyKill, history, KillInv, Kills
  <2>4. KillCancels'
    BY <1>4, <2>1 DEF ApplyKill, CancelEntry, KillInv, KillCancels
  <2> QED BY <2>2, <2>3, <2>4 DEF KillInv
<1>5. ASSUME NEW w \in waiters, SendAck(w) PROVE KillInv'
  \* The stream the KILL found is a screen stream, so Ready says it is gone.
  <2> DEFINE found == w.entry
  <2>1. found \in Screens \union {Nothing}
    BY DEF KillInv, Kills
  <2>2. /\ acked' = IF found = Nothing THEN acked ELSE acked \union {found}
        /\ found \in Screens => at[found] = "gone"
        /\ at' = at
    BY <1>5 DEF SendAck, Ready
  <2>3. AckAfterStop' /\ acked' \subseteq Screens
    <3> HIDE DEF found
    <3> QED BY <2>1, <2>2 DEF KillInv, Kills, AckAfterStop
  <2> QED BY <1>5, <2>3 DEF SendAck, registry, KillInv, Registry, Kills,
              RunningIsRegistered, KillCancels, Registered
<1>6. ASSUME NEW w \in waiters, DropAck(w) PROVE KillInv'
  BY <1>6 DEF DropAck, registry, history, KillInv, Registry, Kills,
              RunningIsRegistered, AckAfterStop, KillCancels, Registered
<1>7. ASSUME NEW d \in Dispatches, Push(d) PROVE KillInv'
  BY <1>7 DEF Push, Move, StartOf, registry, history, KillInv, Registry, Kills, Place,
              RunningIsRegistered, AckAfterStop, KillCancels, Registered
<1>8. ASSUME NEW d \in Dispatches, Register(d) PROVE KillInv'
  <2>1. d \in Screens /\ SessionOf[d] \in Sessions
    BY <1>8 DEF Register, Move, KillInv, Registry
  <2>2. \/ at' = [at EXCEPT ![d] = "running"]
           /\ screenCancels' = [screenCancels EXCEPT ![SessionOf[d]] = d]
        \/ at' = [at EXCEPT ![d] = "refused"] /\ screenCancels' = screenCancels
    BY <1>8 DEF Register, Move
  <2>3. Registry'
    BY <2>1, <2>2 DEF KillInv, Registry, Place
  <2>4. AckAfterStop'
    BY <1>8, <2>2 DEF Register, Move, history, KillInv, Registry, Kills, AckAfterStop
  <2>5. Kills' /\ KillCancels'
    BY <1>8 DEF Register, history, KillInv, Kills, KillCancels
  <2>6. RunningIsRegistered'
    \* The compare-and-set: the slot was free, so it was nobody else's.
    BY <1>8, <2>1 DEF Register, Move, KillInv, Registry, RunningIsRegistered, Registered
  <2> QED BY <2>3, <2>4, <2>5, <2>6 DEF KillInv
<1>9. ASSUME NEW d \in Dispatches, SendFrame(d) PROVE KillInv'
  BY <1>9 DEF SendFrame, registry, KillInv, Registry, Kills,
              RunningIsRegistered, AckAfterStop, KillCancels, Registered
<1>10. ASSUME NEW d \in Dispatches, HandleReturns(d) \/ DrainEnds(d) PROVE KillInv'
  <2>1. Registry' /\ Kills' /\ AckAfterStop' /\ KillCancels'
    BY <1>10 DEF HandleReturns, DrainEnds, Move, registry, history, KillInv, Registry, Kills,
                 Place, AckAfterStop, KillCancels
  <2>2. RunningIsRegistered'
    BY <1>10 DEF HandleReturns, DrainEnds, Move, registry, KillInv, Registry,
                 RunningIsRegistered, Registered
  <2> QED BY <2>1, <2>2 DEF KillInv
<1>11. ASSUME NEW d \in Dispatches, Unregister(d) PROVE KillInv'
  <2>1. Registry' /\ Kills' /\ AckAfterStop' /\ KillCancels'
    BY <1>11 DEF Unregister, Move, history, KillInv, Registry, Kills, Place,
                 AckAfterStop, KillCancels
  <2>2. RunningIsRegistered'
    BY <1>11 DEF Unregister, Move, KillInv, Registry, RunningIsRegistered, Registered
  <2> QED BY <2>1, <2>2 DEF KillInv
<1> QED BY <1>1, <1>2, <1>3, <1>4, <1>5, <1>6, <1>7, <1>8, <1>9, <1>10, <1>11
        DEF KillNext, Ends

(* The invariant the three results below are read off.                     *)
THEOREM KillInvariance == KillSpec => []KillInv
<1> QED BY KillInitHolds, KillNextHolds, PTL DEF KillSpec

(* registerScreenCancel's compare-and-set: a running screen stream is      *)
(* always the one a KILL of its session finds, and it is the only one.     *)
THEOREM StreamsAreReachable == KillSpec => []RunningIsRegistered
<1>1. KillInv => RunningIsRegistered
  BY DEF KillInv
<1> QED BY <1>1, KillInvariance, PTL

(* AGENT_KILL_APPLIED is sent only after the screen dispatch its KILL      *)
(* found has returned and unregistered.                                    *)
THEOREM AckFollowsStop == KillSpec => []AckAfterStop
<1>1. KillInv => AckAfterStop
  BY DEF KillInv
<1> QED BY <1>1, KillInvariance, PTL

(* A KILL that waits for its stream has cancelled it.                      *)
THEOREM WaitingKillCancelled == KillSpec => []KillCancels
<1>1. KillInv => KillCancels
  BY DEF KillInv
<1> QED BY <1>1, KillInvariance, PTL

(* Every stream is within reach of a KILL, which is acknowledged after it. *)
THEOREM KillReachesStreams == KillSpec => []KillReaches
<1>1. RunningIsRegistered /\ AckAfterStop => KillReaches
  BY DEF KillReaches
<1> QED BY <1>1, StreamsAreReachable, AckFollowsStop, PTL
================================================================================
