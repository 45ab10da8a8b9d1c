------------------------------ MODULE SessionKill ------------------------------
(***************************************************************************)
(* KILL against running operations: the CONTROL receive loop, obeyKill and *)
(* the screen-stream registry of internal/remotebridge/harness/harness.go  *)
(* and the dispatch goroutines of harness/dispatch.go.                     *)
(*                                                                         *)
(* The receive loop handles one broker envelope at a time; each operation  *)
(* runs in a goroutine of its own (a dispatch here) and a session KILL     *)
(* reaches a screen stream only through the registry.  The AGENT_KILL_     *)
(* APPLIED acknowledgement is sent by one more goroutine, which waits for  *)
(* the dispatch the KILL found to have returned.                           *)
(*                                                                         *)
(* What a dispatcher does with its DATA stream is ScreenView's subject.    *)
(* Here it may send as long as it runs, and it returns, sooner or later,   *)
(* once its context is done.                                               *)
(***************************************************************************)
EXTENDS Naturals, FiniteSets

CONSTANTS
  Sessions,
  Screens, Ptys,        \* dispatches, one per permit the broker pushes
  SessionOf,            \* the session of each
  Nothing,
  MaxKills,             \* bound on the session KILLs
  MaxStreams            \* bound on the CONTROL streams

Dispatches == Screens \union Ptys

ASSUME DispatchAssumption ==
  /\ Screens \intersect Ptys = {}
  /\ SessionOf \in [Dispatches -> Sessions]
  /\ Nothing \notin Dispatches
ASSUME BoundsAssumption == MaxKills \in Nat /\ MaxStreams \in Nat

VARIABLES
  stream,               \* number of the CONTROL stream, 0 before the first
  up,                   \* its context is live
  at,                   \* where each dispatch is
  on,                   \* the stream each dispatch was started by
  cancelled,            \* dispatches whose own cancel was called
  screenCancels,        \* the dispatch registered for a session, or Nothing
  recv,                 \* the KILL the receive loop is applying, or Nothing
  waiters,              \* acknowledgements waiting for a dispatch to return
  kills,                \* session KILLs obeyed
  acked,                \* history: dispatches a KILL found and whose ACK was sent
  early,                \* history: screen streams started before a KILL whose ACK was sent
  leaked                \* history: one of these sent a frame after that ACK

registry == << cancelled, screenCancels >>
history == << acked, early, leaked >>
killVars == << stream, up, at, on, cancelled, screenCancels, recv, waiters,
           kills, acked, early, leaked >>

KillInit ==
  /\ stream = 0 /\ up = FALSE
  /\ at = [d \in Dispatches |-> "none"]
  /\ on = [d \in Dispatches |-> 0]
  /\ cancelled = {}
  /\ screenCancels = [s \in Sessions |-> Nothing]
  /\ recv = Nothing /\ waiters = {}
  /\ kills = 0
  /\ acked = {} /\ early = {} /\ leaked = FALSE

\* A dispatch's context is a child of its stream's.
CtxLive(d) == d \notin cancelled /\ up /\ on[d] = stream

Registered(d) == at[d] \in {"running", "draining", "reporting"}

Move(d, from, to) == at[d] = from /\ at' = [at EXCEPT ![d] = to]

-----------------------------------------------------------------------------
(* The CONTROL stream.                                                     *)

\* connectOnce reached AgentHello; the previous one has returned.
StreamUp ==
  /\ ~up /\ stream < MaxStreams
  /\ stream' = stream + 1 /\ up' = TRUE
  /\ UNCHANGED << at, on, registry, recv, waiters, kills, history >>

\* Transport KILL, broker close, watchdog, defect: connectOnce returns and cancels sctx.
StreamDown ==
  /\ up /\ recv = Nothing
  /\ up' = FALSE
  /\ UNCHANGED << stream, at, on, registry, recv, waiters, kills, history >>

\* Only a screen stream is registered; a PTY operation runs at once.
StartOf(d) == IF d \in Screens THEN "spawned" ELSE "running"

\* An operation push: its goroutine starts, even if its session was killed before.
Push(d) ==
  /\ up /\ recv = Nothing
  /\ Move(d, "none", StartOf(d))
  /\ on' = [on EXCEPT ![d] = stream]
  /\ UNCHANGED << stream, up, registry, recv, waiters, kills, history >>

\* obeyKill, under its lock: record the KILL and look up what runs.
ObeyKill(s) ==
  /\ up /\ recv = Nothing /\ kills < MaxKills
  /\ kills' = kills + 1
  /\ recv' = [session |-> s, entry |-> screenCancels[s],
              started |-> {d \in Screens : SessionOf[d] = s /\ at[d] # "none"}]
  /\ UNCHANGED << stream, up, at, on, registry, waiters, history >>

\* Faulty variants, for the mutation of the model.
AckAtOnce(w) == TRUE
CancelNothing(entry) == cancelled

\* The entry's cancel, called after the lock was released.
CancelEntry(entry) == IF entry = Nothing THEN cancelled ELSE cancelled \union {entry}

\* Then the goroutine that will acknowledge is started.
ApplyKill ==
  /\ recv # Nothing
  /\ cancelled' = CancelEntry(recv.entry)
  /\ waiters' = waiters \union
       {[session |-> recv.session, entry |-> recv.entry, started |-> recv.started, on |-> stream]}
  /\ recv' = Nothing
  /\ UNCHANGED << stream, up, at, on, screenCancels, kills, history >>

\* The KILL found no entry, or the one it found has closed its done channel.
Ready(w) == w.entry \in Screens => at[w.entry] = "gone"

SendAck(w) ==
  /\ w \in waiters /\ up /\ w.on = stream /\ Ready(w)
  /\ waiters' = waiters \ {w}
  /\ acked' = IF w.entry = Nothing THEN acked ELSE acked \union {w.entry}
  /\ early' = early \union w.started
  /\ UNCHANGED << stream, up, at, on, registry, recv, kills, leaked >>

\* sctx ended first, or the send failed on the dead stream.
DropAck(w) ==
  /\ w \in waiters /\ ~(up /\ w.on = stream)
  /\ waiters' = waiters \ {w}
  /\ UNCHANGED << stream, up, at, on, registry, recv, kills, history >>

-----------------------------------------------------------------------------
(* A dispatch.                                                             *)

\* Compare-and-set: a session that already has a stream refuses the second.
Register(d) ==
  /\ IF screenCancels[SessionOf[d]] = Nothing
     THEN /\ Move(d, "spawned", "running")
          /\ screenCancels' = [screenCancels EXCEPT ![SessionOf[d]] = d]
     ELSE Move(d, "spawned", "refused") /\ UNCHANGED screenCancels
  /\ UNCHANGED << stream, up, on, cancelled, recv, waiters, kills, history >>

SendFrame(d) ==
  /\ at[d] = "running"
  /\ leaked' = (leaked \/ d \in early)
  /\ UNCHANGED << stream, up, at, on, registry, recv, waiters, kills,
                  acked, early >>

\* The dispatcher returned, or the DATA stream could not be opened; CloseSend.
HandleReturns(d) ==
  /\ Move(d, "running", "draining")
  /\ UNCHANGED << stream, up, on, registry, recv, waiters, kills, history >>

\* The broker closed its half, or the grace timer cancelled the stream; then the report.
DrainEnds(d) ==
  /\ Move(d, "draining", "reporting")
  /\ UNCHANGED << stream, up, on, registry, recv, waiters, kills, history >>

\* unregisterScreenCancel and the deferred cancel.
Unregister(d) ==
  /\ Move(d, "reporting", "gone")
  /\ cancelled' = cancelled \union {d}
  /\ screenCancels' = IF screenCancels[SessionOf[d]] = d
                      THEN [screenCancels EXCEPT ![SessionOf[d]] = Nothing]
                      ELSE screenCancels
  /\ UNCHANGED << stream, up, on, recv, waiters, kills, history >>

Ends(d) == HandleReturns(d) \/ DrainEnds(d) \/ Unregister(d)

KillNext ==
  \/ StreamUp \/ StreamDown \/ ApplyKill
  \/ \E s \in Sessions : ObeyKill(s)
  \/ \E w \in waiters : SendAck(w) \/ DropAck(w)
  \/ \E d \in Dispatches : Push(d) \/ Register(d) \/ SendFrame(d) \/ Ends(d)

KillSpec == KillInit /\ [][KillNext]_killVars

(* The receive loop and the goroutines run; a dispatcher whose context is  *)
(* done returns (ScreenView!StopEndsDispatch), the drain is bounded by its *)
(* grace timer.  Nothing is assumed of the broker.                         *)
KillFairness ==
  /\ WF_killVars(ApplyKill)
  /\ WF_killVars(\E w \in waiters : SendAck(w) \/ DropAck(w))
  /\ \A d \in Dispatches :
       /\ WF_killVars(Register(d))
       /\ WF_killVars(~CtxLive(d) /\ HandleReturns(d))
       /\ WF_killVars(DrainEnds(d)) /\ WF_killVars(Unregister(d))

KillFairSpec == KillSpec /\ KillFairness

-----------------------------------------------------------------------------
(* Type invariant.                                                         *)
Kill == [session : Sessions, entry : Screens \union {Nothing}, started : SUBSET Screens]

KillTypeOK ==
  /\ stream \in 0..MaxStreams /\ up \in BOOLEAN
  /\ at \in [Dispatches ->
       {"none", "spawned", "refused", "running", "draining", "reporting", "gone"}]
  /\ on \in [Dispatches -> 0..MaxStreams]
  /\ screenCancels \in [Sessions -> Screens \union {Nothing}]
  /\ recv \in Kill \union {Nothing}
  /\ \A w \in waiters : w.entry \in Screens \union {Nothing} /\ w.on \in 1..MaxStreams
  /\ kills \in 0..MaxKills
  /\ cancelled \union acked \union early \subseteq Dispatches /\ leaked \in BOOLEAN

(* Every running screen stream can be reached by a KILL of its session:    *)
(* the registry holds it and nobody else, so one stream per session.       *)
RunningIsRegistered ==
  \A d \in Screens : Registered(d) <=> screenCancels[SessionOf[d]] = d

(* AGENT_KILL_APPLIED never races ahead of the stream its KILL found: that *)
(* dispatch has returned, was reported and sends nothing more.             *)
AckAfterStop == \A d \in acked : at[d] = "gone"

(* A KILL finds what streams and is acknowledged once that has stopped.      *)
KillReaches == RunningIsRegistered /\ AckAfterStop

(* A KILL takes hold: once the receive loop applied it, the context of the *)
(* stream it found is done, for good.                                      *)
KillCancels ==
  \A w \in waiters : w.entry # Nothing => w.entry \in cancelled

(* Every KILL taken off the wire is applied and then acknowledged, unless  *)
(* its CONTROL stream is gone first; and a screen stream whose context is  *)
(* done ends, so that its session can be streamed again.                   *)
KillResolved ==
  /\ recv # Nothing ~> recv = Nothing
  /\ \A s \in Sessions :
       (\E w \in waiters : w.session = s) ~> ~(\E w \in waiters : w.session = s)
  /\ \A d \in Screens :
       (Registered(d) /\ ~CtxLive(d)) ~> at[d] = "gone"

(* obeyKill's comment: "no screen frame may egress after a kill"; once the *)
(* broker has the acknowledgement, no stream it had started may send.      *)
NoFrameAfterAck == ~leaked
===============================================================================
