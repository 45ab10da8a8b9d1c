----------------------------- MODULE ViewSession -----------------------------
(***************************************************************************)
(* A ViewSession driven by callers that use its whole interface in any     *)
(* order: a producer that offers frames, a sender that drains them, and    *)
(* the owners of the recording policy, of the view and of the local abort. *)
(* internal/remotebridge/dataplane/session.go.                             *)
(***************************************************************************)
EXTENDS ViewGate

CONSTANT MaxOffers      \* bound on the frames offered

ASSUME MaxOffersAssumption == MaxOffers \in Nat

VARIABLES
  offered,              \* frames offered so far; the tag of the last one
  admitted,             \* history: the tag of the last frame the gate admitted
  egress                \* history: the frames handed to the sender, in order

sessionVars == << view, offered, admitted, egress >>

SessionInit ==
  /\ view = NewViewSession
  /\ offered = 0
  /\ admitted = 0
  /\ egress = << >>

OfferFrame ==
  /\ offered < MaxOffers
  /\ offered' = offered + 1
  /\ view' = Offer(view, offered')
  /\ admitted' = IF CanSend(view) THEN offered' ELSE admitted
  /\ UNCHANGED egress

DrainFrames ==
  \E n \in 1..Cap :
    /\ view' = Drain(view, n)
    /\ egress' = egress \o DrainedFrames(view, n)
    /\ UNCHANGED << offered, admitted >>

\* The calls that move the gate.
MoveGate ==
  /\ \/ \E b \in BOOLEAN : view' = SetRecordingReady(view, b)
     \/ \E b \in BOOLEAN : view' = SetRecordingNotRequired(view, b)
     \/ view' = Activate(view)
     \/ view' = Deactivate(view)
     \/ view' = Abort(view)
  /\ UNCHANGED << offered, admitted, egress >>

SessionNext == OfferFrame \/ DrainFrames \/ MoveGate

SessionSpec == SessionInit /\ [][SessionNext]_sessionVars

-----------------------------------------------------------------------------
(* Type invariant: the shape of the session and a queue within its cap. *)
SessionTypeOK ==
  /\ view \in View
  /\ Len(view.queue) <= Cap
  /\ offered \in 0..MaxOffers
  /\ admitted \in 0..offered
  /\ egress \in Seq(Nat)

(* No frame is lost without a counter and none is counted twice, whatever  *)
(* the order of offers, drains and gate changes (the counters telemetry    *)
(* reads from Counters()).                                                 *)
EveryFrameAccounted == Accounted(view)

(* However the gate came to be shut (recorder lost, acknowledgement        *)
(* withdrawn, view ended, local abort) nothing is left in flight behind it:*)
(* the file's "no in-flight frame survives a gate close".                  *)
GateCloseFlushes == ShutHoldsNothing(view)

(* Drop-tolerant means the oldest frame goes: the queue is always the last *)
(* run of admitted frames without a hole, and the sender sees frames in    *)
(* capture order.                                                          *)
FreshestSurvives ==
  /\ \A i \in DOMAIN view.queue : view.queue[i] = admitted - Len(view.queue) + i
  /\ Increasing(egress \o view.queue)

(* A local abort is irreversible and final for the sender: the session     *)
(* never reopens and hands out no frame after it.                          *)
AbortIsFinal ==
  [][view.aborted => view'.aborted /\ egress' = egress]_sessionVars
===============================================================================
