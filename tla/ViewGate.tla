------------------------------- MODULE ViewGate -------------------------------
(***************************************************************************)
(* The fail-closed source gate of one VIEW_ONLY screen view and its        *)
(* bounded drop-tolerant frame queue: type ViewSession of                  *)
(* internal/remotebridge/dataplane/session.go, as operators on a record.   *)
(* Every method of the Go type takes the session mutex for its whole body, *)
(* so each operator is one indivisible step of the modules that use it.    *)
(*                                                                         *)
(* A frame is its capture-order tag, a natural number: Offer copies the    *)
(* payload, so nothing the gate does depends on the bytes.                 *)
(***************************************************************************)
EXTENDS Naturals, Sequences

CONSTANT Cap            \* depth of the in-flight queue (DefaultQueueCap = 32)

\* NewViewSession replaces a cap <= 0 by the default, so a session's is positive.
ASSUME CapAssumption == Cap \in Nat \ {0}

VARIABLE view           \* the session

View == [recordingReady : BOOLEAN, recordingNotRequired : BOOLEAN,
         active : BOOLEAN, aborted : BOOLEAN, queue : Seq(Nat),
         queued : Nat, droppedGate : Nat, droppedBackpres : Nat,
         flushed : Nat, drained : Nat]

\* A fresh session is closed: neither recording input is set and it is not active.
NewViewSession ==
  [recordingReady |-> FALSE, recordingNotRequired |-> FALSE,
   active |-> FALSE, aborted |-> FALSE, queue |-> << >>,
   queued |-> 0, droppedGate |-> 0, droppedBackpres |-> 0,
   flushed |-> 0, drained |-> 0]

CanSend(v) ==
  (v.recordingReady \/ v.recordingNotRequired) /\ v.active /\ ~v.aborted

\* Faulty variants of the operations, for the mutation of the model.
RoomWithoutNewest(v) ==
  IF Len(v.queue) >= Cap THEN SubSeq(v.queue, 1, Len(v.queue) - 1) ELSE v.queue
FlushUncounted(v) == [v EXCEPT !.queue = << >>]
DeactivateOnly(v) == [v EXCEPT !.active = FALSE]

\* The queue after the oldest frame made room for one more, if it had to.
Room(v) == IF Len(v.queue) >= Cap THEN Tail(v.queue) ELSE v.queue

Offer(v, f) ==
  IF ~CanSend(v)
  THEN [v EXCEPT !.droppedGate = @ + 1]
  ELSE [v EXCEPT !.queue = Append(Room(v), f),
                 !.droppedBackpres = @ + (Len(v.queue) - Len(Room(v))),
                 !.queued = @ + 1]

\* How many frames Drain(n) hands out, and which.
DrainCount(v, n) ==
  IF v.aborted THEN 0 ELSE IF n > Len(v.queue) THEN Len(v.queue) ELSE n

DrainedFrames(v, n) == SubSeq(v.queue, 1, DrainCount(v, n))

Drain(v, n) ==
  [v EXCEPT !.queue = SubSeq(v.queue, DrainCount(v, n) + 1, Len(v.queue)),
            !.drained = @ + DrainCount(v, n)]

Flush(v) == [v EXCEPT !.flushed = @ + Len(v.queue), !.queue = << >>]

SetRecordingReady(v, ready) ==
  LET w == [v EXCEPT !.recordingReady = ready]
  IN  IF ready THEN w ELSE Flush(w)

SetRecordingNotRequired(v, notRequired) ==
  LET w == [v EXCEPT !.recordingNotRequired = notRequired]
  IN  IF notRequired THEN w ELSE Flush(w)

Activate(v) == [v EXCEPT !.active = TRUE]

Deactivate(v) == Flush([v EXCEPT !.active = FALSE])

Abort(v) == Flush([v EXCEPT !.aborted = TRUE])

-----------------------------------------------------------------------------
(* What the queue and the counters of a session must satisfy. *)

\* Every frame the gate admitted is accounted for exactly once: still queued,
\* handed to the sender, flushed by a gate close, or evicted by backpressure.
Accounted(v) ==
  v.queued = Len(v.queue) + v.drained + v.flushed + v.droppedBackpres

\* A gate that is shut, for whatever reason, holds no frame.
ShutHoldsNothing(v) == CanSend(v) \/ v.queue = << >>

Increasing(s) == \A i, j \in DOMAIN s : i < j => s[i] < s[j]
===============================================================================
