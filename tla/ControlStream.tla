----------------------------- MODULE ControlStream -----------------------------
(***************************************************************************)
(* The CONTROL connection of internal/remotebridge/harness/harness.go: the *)
(* reconnect loop of Run and the stream of connectOnce, with its heartbeat *)
(* watchdog, its inbound sequence guard and the reasons a stream ends.     *)
(*                                                                         *)
(* The broker and the enrollment are the environment.  Time passes  *)
(* in ticks while a stream is up; a tick stands for the shortest interval. *)
(***************************************************************************)
EXTENDS Integers

CONSTANTS
  None,
  BackoffMin, BackoffMax,
  FirstHeartbeatDeadline, HeartbeatMissFactor,
  MinInterval, MaxInterval,   \* minHeartbeatInterval, maxHeartbeatInterval
  Milli, Width,               \* time.Millisecond, and the 2^64 a Duration wraps at
  Announced,                  \* the heartbeat_interval_millis a broker announces
  Seqs                        \* the frame_seq values a broker stamps

ASSUME ControlAssumption ==
  /\ BackoffMin \in Nat \ {0} /\ BackoffMax \in Nat /\ BackoffMin <= BackoffMax
  /\ FirstHeartbeatDeadline \in Nat \ {0} /\ HeartbeatMissFactor \in Nat \ {0}
  /\ MinInterval \in Nat \ {0} /\ MaxInterval \in Nat /\ MinInterval <= MaxInterval
  /\ Milli \in Nat \ {0} /\ Width \in Nat \ {0}
  /\ Announced \subseteq Int /\ Seqs \subseteq Int

VARIABLES
  enrolled,             \* DeviceIDProvider returns an identity
  stopped,              \* Run's context was cancelled
  phase,                \* where Run is
  backoff,
  healthy,              \* a valid heartbeat arrived on this stream
  timer,                \* ticks before the watchdog fires
  fired,                \* its channel holds the tick
  guard,                \* inboundSeqGuard
  inbox,                \* the envelope recvLoop pipelined, or None
  mute,                 \* the broker sends no heartbeat on this stream any more
  silence, allowed,     \* history: ticks since the last heartbeat, and the limit then set
  pair,                 \* history: the last two sequence numbers the stream accepted
  fails,                \* history: attempts since the last healthy stream, saturating
  last                  \* history: why the last stream ended

run == << phase, backoff, healthy, fails, last >>
watch == << timer, fired, silence, allowed >>
frames == << guard, inbox, mute, pair >>
vars == << enrolled, stopped, run, watch, frames >>

FreshGuard == [sequenced |-> FALSE, last |-> 0]

\* The shortest delay, doubled n times; and how often that takes it to the cap.
Doubled[n \in Nat] == IF n = 0 THEN BackoffMin ELSE 2 * Doubled[n - 1]
MaxFails == CHOOSE n \in 0..BackoffMax :
  Doubled[n] >= BackoffMax /\ \A m \in 0..BackoffMax : Doubled[m] >= BackoffMax => n <= m

Least(a, b) == IF a <= b THEN a ELSE b
Greatest(a, b) == IF a <= b THEN b ELSE a

Init ==
  /\ enrolled \in BOOLEAN /\ stopped = FALSE
  /\ phase = "poll" /\ backoff = BackoffMin /\ healthy = FALSE
  /\ timer = 0 /\ fired = FALSE /\ guard = FreshGuard /\ inbox = None /\ mute = FALSE
  /\ silence = 0 /\ allowed = 0 /\ pair = << 0, 0 >> /\ fails = 0 /\ last = "none"

-----------------------------------------------------------------------------
(* The environment.                                                        *)

\* Enrollment, or a credential that was dropped.
IdentityChanges ==
  /\ enrolled' = ~enrolled
  /\ UNCHANGED << stopped, run, watch, frames >>

Stop ==
  /\ ~stopped /\ stopped' = TRUE
  /\ UNCHANGED << enrolled, run, watch, frames >>

Envelope ==
  [kind : {"beat"}, seq : Seqs, interval : Announced] \union
  [kind : {"kill", "killTransport", "other", "unsupported", "malformed", "eof"}, seq : Seqs]

\* A frame arrives, or the receive fails, and recvLoop pipelines it.
Receive ==
  /\ phase = "stream" /\ inbox = None
  /\ inbox' \in Envelope
  /\ mute => inbox'.kind # "beat"
  /\ UNCHANGED << enrolled, stopped, run, watch, guard, mute, pair >>

\* The broker hangs: half-open, or alive but no longer serving this stream.
Mute ==
  /\ phase = "stream" /\ ~mute /\ mute' = TRUE
  /\ UNCHANGED << enrolled, stopped, run, watch, guard, inbox, pair >>

Tick ==
  /\ phase = "stream" /\ timer > 0
  /\ timer' = timer - 1 /\ fired' = (timer = 1)
  /\ silence' = silence + 1
  /\ UNCHANGED << enrolled, stopped, run, allowed, frames >>

-----------------------------------------------------------------------------
(* Run.                                                                    *)

\* The identity is read once per attempt; without one Run never dials.
Poll ==
  /\ phase = "poll" /\ enrolled
  /\ phase' = "dial" /\ healthy' = FALSE
  /\ UNCHANGED << enrolled, stopped, backoff, fails, last, watch, frames >>

\* Faulty variants, for the mutation of the model.
ResetKeepingTick(d) == timer' = d /\ UNCHANGED fired

\* nextBackoff.
NextBackoff(b) == Greatest(Least(b * 2, BackoffMax), BackoffMin)

\* Run's choice after an attempt: a healthy stream resets the backoff.
BackoffAfter(b, ok) == IF ok THEN BackoffMin ELSE NextBackoff(b)

\* A faulty variant, for the mutation of the model.
EndForGood(why) ==
  /\ phase' = IF stopped \/ why = "defect" THEN "returned" ELSE "sleep"
  /\ backoff' = IF stopped THEN backoff ELSE BackoffAfter(backoff, healthy)
  /\ fails' = IF stopped THEN fails ELSE IF healthy THEN 0 ELSE Least(fails + 1, MaxFails)
  /\ last' = why
  /\ inbox' = None /\ mute' = FALSE
  /\ UNCHANGED healthy

\* connectOnce returns; Run sleeps the backoff, or returns if its context is done.
EndAttempt(why) ==
  /\ phase' = IF stopped THEN "returned" ELSE "sleep"
  /\ backoff' = IF stopped THEN backoff ELSE BackoffAfter(backoff, healthy)
  /\ fails' = IF stopped THEN fails ELSE IF healthy THEN 0 ELSE Least(fails + 1, MaxFails)
  /\ last' = why
  /\ inbox' = None /\ mute' = FALSE
  /\ UNCHANGED healthy

\* The dial, the stream or the hello failed, or DialTimeout expired.
DialFails ==
  /\ phase = "dial" /\ EndAttempt("dial")
  /\ UNCHANGED << enrolled, stopped, watch, guard, pair >>

\* AgentHello was sent: a fresh watchdog, a fresh guard.
Connected ==
  /\ phase = "dial" /\ ~stopped /\ phase' = "stream"
  /\ timer' = FirstHeartbeatDeadline /\ fired' = FALSE
  /\ silence' = 0 /\ allowed' = FirstHeartbeatDeadline
  /\ guard' = FreshGuard /\ pair' = << 0, 0 >> /\ inbox' = None /\ mute' = FALSE
  /\ UNCHANGED << enrolled, stopped, backoff, healthy, fails, last >>

\* The backoff has passed, or the context is done.
Wake ==
  /\ phase = "sleep"
  /\ phase' \in IF stopped THEN {"poll", "returned"} ELSE {"poll"}
  /\ UNCHANGED << enrolled, stopped, backoff, healthy, fails, last, watch, frames >>

\* The identity wait ends with the context too.
PollStopped ==
  /\ phase = "poll" /\ stopped /\ ~enrolled
  /\ phase' = "returned"
  /\ UNCHANGED << enrolled, stopped, backoff, healthy, fails, last, watch, frames >>

-----------------------------------------------------------------------------
(* connectOnce's select loop: of the ready cases, any.                     *)

\* inboundSeqGuard.admit.
Admits(seq) ==
  \/ (seq = 0 /\ ~guard.sequenced)
  \/ (seq > 0) /\ (guard.sequenced => seq > guard.last)

Admit(seq) ==
  /\ guard' = IF seq > 0 THEN [sequenced |-> TRUE, last |-> seq] ELSE guard
  /\ pair' = << pair[2], seq >>

\* The announced milliseconds as a Duration: int64 arithmetic, which wraps.
AsDuration(millis) ==
  LET wrapped == (millis * Milli) % Width
  IN  IF wrapped >= Width \div 2 THEN wrapped - Width ELSE wrapped

\* clampInterval.
Clamp(d) == Greatest(MinInterval, Least(d, MaxInterval))

\* resetTimer stops the timer and drains its channel.
ResetTimer(d) == timer' = d /\ fired' = FALSE

StopStream ==
  /\ phase = "stream" /\ stopped /\ EndAttempt("stopped")
  /\ UNCHANGED << enrolled, stopped, watch, guard, pair >>

\* A faulty variant, for the mutation of the model.
WatchdogOfFreshStream ==
  /\ phase = "stream" /\ fired /\ ~healthy /\ EndAttempt("watchdog")
  /\ UNCHANGED << enrolled, stopped, watch, guard, pair >>

WatchdogFires ==
  /\ phase = "stream" /\ fired /\ EndAttempt("watchdog")
  /\ UNCHANGED << enrolled, stopped, watch, guard, pair >>

Eof ==
  /\ phase = "stream" /\ inbox # None /\ inbox.kind = "eof" /\ EndAttempt("eof")
  /\ UNCHANGED << enrolled, stopped, watch, guard, pair >>

Framed == phase = "stream" /\ inbox # None /\ inbox.kind # "eof"

\* handleInbound refuses the frame, or its decoder does: the stream is closed.
Defect ==
  /\ Framed
  /\ \/ ~Admits(inbox.seq)
     \/ inbox.kind \in {"unsupported", "malformed"}
     \/ inbox.kind = "beat" /\ inbox.interval <= 0
  /\ EndAttempt("defect")
  /\ IF Admits(inbox.seq) THEN Admit(inbox.seq) ELSE UNCHANGED << guard, pair >>
  /\ UNCHANGED << enrolled, stopped, watch >>

\* A transport KILL is obeyed and ends the stream; Run reconnects as usual.
TransportKill ==
  /\ Framed /\ inbox.kind = "killTransport" /\ Admits(inbox.seq)
  /\ Admit(inbox.seq) /\ EndAttempt("killed")
  /\ UNCHANGED << enrolled, stopped, watch >>

\* Error frames, session KILLs, prompts, challenges and operations: the loop goes on.
Obey ==
  /\ Framed /\ inbox.kind \in {"kill", "other"} /\ Admits(inbox.seq)
  /\ Admit(inbox.seq) /\ inbox' = None
  /\ UNCHANGED << enrolled, stopped, run, watch, mute >>

Heartbeat ==
  /\ Framed /\ inbox.kind = "beat" /\ inbox.interval > 0 /\ Admits(inbox.seq)
  /\ Admit(inbox.seq)
  /\ LET d == Clamp(AsDuration(inbox.interval)) * HeartbeatMissFactor
     IN  ResetTimer(d) /\ silence' = 0 /\ allowed' = d
  /\ \/ /\ healthy' = TRUE /\ inbox' = None
        /\ UNCHANGED << phase, backoff, fails, last, mute >>
     \/ EndAttempt("ack")     \* the acknowledgement could not be sent
  /\ UNCHANGED << enrolled, stopped >>

Loop == StopStream \/ WatchdogFires \/ Eof \/ Defect \/ TransportKill \/ Obey \/ Heartbeat

Next ==
  \/ IdentityChanges \/ Stop \/ Receive \/ Mute \/ Tick
  \/ Poll \/ DialFails \/ Connected \/ Wake \/ PollStopped \/ Loop

Spec == Init /\ [][Next]_vars

(* The goroutines and timers run, time passes, DialTimeout caps a dial and *)
(* the sleeps are finite.  Nothing is assumed of the broker: it need not   *)
(* send, accept a dial or close.                                           *)
Fairness ==
  /\ WF_vars(Poll \/ PollStopped)
  /\ WF_vars(DialFails \/ Connected)
  /\ WF_vars(Wake)
  /\ WF_vars(Tick)
  /\ WF_vars(StopStream) /\ WF_vars(WatchdogFires)

FairSpec == Spec /\ Fairness

-----------------------------------------------------------------------------
(* Type invariant.                                                         *)
TypeOK ==
  /\ enrolled \in BOOLEAN /\ stopped \in BOOLEAN /\ healthy \in BOOLEAN /\ mute \in BOOLEAN /\ fired \in BOOLEAN
  /\ phase \in {"poll", "dial", "stream", "sleep", "returned"}
  /\ backoff \in BackoffMin..BackoffMax /\ fails \in 0..MaxFails
  /\ timer \in Nat /\ silence \in Nat /\ allowed \in Nat
  /\ guard.sequenced \in BOOLEAN /\ guard.last \in Nat
  /\ inbox \in Envelope \union {None}

(* Whatever interval a broker announces, an overflowing one included, the  *)
(* watchdog is set within the clamped range times the miss factor.         *)
DeadlineBounded ==
  allowed \in {0, FirstHeartbeatDeadline}
              \union (MinInterval * HeartbeatMissFactor)..(MaxInterval * HeartbeatMissFactor)

(* The watchdog never ends a stream whose last heartbeat is younger than   *)
(* the limit set when it arrived: a tick of the earlier deadline does not  *)
(* survive resetTimer.                                                     *)
NoPrematureWatchdog == phase # "stream" /\ last = "watchdog" => silence >= allowed

(* The frames a stream accepts are unsequenced until the first positive    *)
(* number, and strictly increasing from it: none is taken twice.           *)
FramesIncrease ==
  \/ pair[2] = 0 /\ pair[1] = 0
  \/ pair[2] > pair[1] /\ pair[1] >= 0

(* An accepted stream: no watchdog before its deadline, no deadline out of   *)
(* bounds, no number twice.                                                *)
StreamDiscipline == NoPrematureWatchdog /\ DeadlineBounded /\ FramesIncrease

(* The reconnect delay is the minimum doubled once per attempt since the   *)
(* last healthy stream, up to the cap, whatever ended those attempts.      *)
BackoffMeasuresFailures == backoff = Least(Doubled[fails], BackoffMax)

(* A stream on which the broker sends no heartbeat ends, even if it still  *)
(* sends other frames.                                                     *)
SilentStreamEnds == (phase = "stream" /\ mute) ~> phase # "stream"

(* An enrolled agent goes on trying: no failure ends the reconnect loop.   *)
KeepsTrying ==
  <>[](enrolled /\ ~stopped) => []<>(phase \in {"dial", "stream"})

(* The loop goes on for ever, and waits between attempts for as long as the  *)
(* failures since the last healthy stream ask for.                         *)
Reconnects ==
  /\ []BackoffMeasuresFailures
  /\ KeepsTrying
===============================================================================
