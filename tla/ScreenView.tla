------------------------------ MODULE ScreenView ------------------------------
(***************************************************************************)
(* One VIEW_ONLY dispatch: Dispatcher.Handle of                            *)
(* internal/remotebridge/screenview/dispatcher.go, with the pump goroutine *)
(* it starts (dataplane/pump.go), the pump's watcher goroutine and the     *)
(* frame producer behind them, around one ViewGate session.                *)
(*                                                                         *)
(* Three goroutines interleave with the two events that stop a view: the   *)
(* harness cancels the dispatch (session KILL, transport teardown) and the *)
(* permit expires.  An action is what one goroutine does between two       *)
(* points where another can act: the select of Handle, a context check, a  *)
(* session call, a send.                                                   *)
(*                                                                         *)
(* A frame is the number of its capture.  The drain cadence is left out:   *)
(* the ticker may fire whenever Handle waits.                              *)
(***************************************************************************)
EXTENDS ViewGate

CONSTANTS
  Batch,                \* frames pulled per drain (defaultDrainBatch = 8)
  MaxFrames             \* bound on the frames captured

ASSUME BatchAssumption == Batch \in Nat \ {0}
ASSUME MaxFramesAssumption == MaxFrames \in Nat

VARIABLES
  ctx,                  \* streamCtx: live, or the cause of its end
  handler,              \* where Handle is
  last,                 \* the drain in progress is the one before EndStream
  result,               \* what Handle returned
  batch,                \* drained frames not yet sent
  sent,                 \* frames sent on the DATA stream
  endSent,              \* the terminal EndStream was sent
  pump,                 \* where Pump.Run is
  watcher,              \* where its watcher goroutine is
  made,                 \* frames captured; the one the pump holds while offering
  closed,               \* the producer was closed
  failed,               \* the producer's Err is not nil
  late                  \* history: frames sent after the context was done

handlerVars == << handler, last, result, batch >>
wireVars == << sent, endSent, late >>
captureVars == << pump, watcher, made, closed, failed >>
vars == << ctx, handlerVars, wireVars, view, captureVars >>

Init ==
  /\ ctx = "live"
  /\ handler = "start" /\ last = FALSE /\ result = "none" /\ batch = << >>
  /\ sent = << >> /\ endSent = FALSE /\ late = 0
  /\ view = NewViewSession
  /\ pump = "idle" /\ watcher = "idle"
  /\ made = 0 /\ closed = FALSE /\ failed = FALSE

\* Handle's deferred cancelStream ends the context of the pump with the dispatch.
CtxDone == ctx # "live" \/ handler = "done"

Return(r) == handler' = "done" /\ result' = r /\ UNCHANGED << last, batch >>

\* What an ended context makes Handle return.
Cause == IF ctx = "expired" THEN "expired" ELSE "cancelled"

-----------------------------------------------------------------------------
(* The events that stop a view.                                            *)

Cancel ==
  /\ ctx = "live" /\ handler # "done"
  /\ ctx' = "canceled"
  /\ UNCHANGED << handlerVars, wireVars, view, captureVars >>

\* The deadline exists from the moment streamCtx does.
Expire ==
  /\ ctx = "live" /\ handler \notin {"start", "done"}
  /\ ctx' = "expired"
  /\ UNCHANGED << handlerVars, wireVars, view, captureVars >>

-----------------------------------------------------------------------------
(* Faulty variants, for the mutation of the model.                         *)

ProceedUnchecked(next) == handler' = next /\ UNCHANGED << last, result, batch, view >>
SourceTrusted ==
  /\ handler = "source"
  /\ handler' = "drain" /\ last' = TRUE /\ UNCHANGED << result, batch, view >>
  /\ UNCHANGED << ctx, wireVars, captureVars >>
SendFailsQuietly ==
  /\ handler = "send" /\ batch # << >>
  /\ Return("sendFailed")
  /\ UNCHANGED << ctx, wireVars, view, captureVars >>
BatchSentLooping ==
  /\ handler = "send" /\ batch = << >>
  /\ handler' = "select"
  /\ UNCHANGED << ctx, last, result, batch, wireVars, view, captureVars >>
WatchKillOnly == watcher = "wait" /\ ctx # "live"

-----------------------------------------------------------------------------
(* Handle.                                                                 *)

\* The permit is refused, or was used up by the time it was accepted.
Refuse ==
  /\ handler = "start"
  /\ Return("denied") \/ Return("expired")
  /\ UNCHANGED << ctx, wireVars, view, captureVars >>

Begin ==
  /\ handler = "start"
  /\ handler' = "open"
  /\ view' = Activate(SetRecordingNotRequired(view, TRUE))
  /\ UNCHANGED << ctx, last, result, batch, wireVars, captureVars >>

StartPump ==
  /\ handler = "open"
  /\ handler' = "select"
  /\ pump' = "check" /\ watcher' = "wait"
  /\ UNCHANGED << ctx, last, result, batch, wireVars, view, made, closed, failed >>

\* newProducer failed, possibly because the context ended under it.
StartFails ==
  /\ handler = "open"
  /\ view' = Abort(view)
  /\ Return(IF ctx = "live" THEN "startFailed" ELSE Cause)
  /\ UNCHANGED << ctx, wireVars, captureVars >>

\* After a ready case: abort if the context is done, proceed to next otherwise.
ProceedIfLive(next) ==
  IF ctx = "live"
  THEN handler' = next /\ UNCHANGED << last, result, batch, view >>
  ELSE view' = Abort(view) /\ Return(Cause)

SelectDone ==
  /\ handler = "select" /\ ctx # "live"
  /\ view' = Abort(view) /\ Return(Cause)
  /\ UNCHANGED << ctx, wireVars, captureVars >>

SelectPumpDone ==
  /\ handler = "select" /\ pump = "done"
  /\ ProceedIfLive("source")
  /\ UNCHANGED << ctx, wireVars, captureVars >>

SelectTick ==
  /\ handler = "select"
  /\ ProceedIfLive("drain")
  /\ UNCHANGED << ctx, wireVars, captureVars >>

CheckSource ==
  /\ handler = "source"
  /\ IF failed
     THEN view' = Abort(view) /\ Return("sourceFailed")
     ELSE handler' = "drain" /\ last' = TRUE /\ UNCHANGED << result, batch, view >>
  /\ UNCHANGED << ctx, wireVars, captureVars >>

DrainGate ==
  /\ handler = "drain"
  /\ handler' = "send"
  /\ batch' = DrainedFrames(view, Batch)
  /\ view' = Drain(view, Batch)
  /\ UNCHANGED << ctx, last, result, wireVars, captureVars >>

SendFrame ==
  /\ handler = "send" /\ batch # << >>
  /\ sent' = Append(sent, Head(batch))
  /\ batch' = Tail(batch)
  /\ late' = IF ctx = "live" THEN late ELSE late + 1
  /\ UNCHANGED << ctx, handler, last, result, endSent, view, captureVars >>

SendFails ==
  /\ handler = "send" /\ batch # << >>
  /\ view' = Abort(view)
  /\ Return("sendFailed")
  /\ UNCHANGED << ctx, wireVars, captureVars >>

BatchSent ==
  /\ handler = "send" /\ batch = << >>
  /\ handler' = IF last THEN "end" ELSE "select"
  /\ UNCHANGED << ctx, last, result, batch, wireVars, view, captureVars >>

\* Best effort: a failed send of the EndStream is ignored.
EndStream ==
  /\ handler = "end"
  /\ endSent' \in BOOLEAN
  /\ Return("clean")
  /\ UNCHANGED << ctx, sent, late, view, captureVars >>

-----------------------------------------------------------------------------
(* Pump.Run and its watcher.                                               *)

PumpCheck ==
  /\ pump = "check"
  /\ pump' = IF CtxDone \/ view.aborted THEN "close" ELSE "next"
  /\ UNCHANGED << ctx, handlerVars, wireVars, view, watcher, made, closed, failed >>

\* Next yields a frame; a prefetched first frame is replayed even once closed.
Capture ==
  /\ pump = "next" /\ made < MaxFrames
  /\ closed => made = 0
  /\ made' = made + 1
  /\ pump' = "offer"
  /\ UNCHANGED << ctx, handlerVars, wireVars, view, watcher, closed, failed >>

\* Next reports the end: the source is exhausted, failed or was closed.
CaptureEnds ==
  /\ pump = "next"
  /\ pump' = "close"
  /\ failed' \in BOOLEAN
  /\ UNCHANGED << ctx, handlerVars, wireVars, view, watcher, made, closed >>

PumpOffer ==
  /\ pump = "offer"
  /\ view' = Offer(view, made)
  /\ pump' = "check"
  /\ UNCHANGED << ctx, handlerVars, wireVars, watcher, made, closed, failed >>

PumpClose ==
  /\ pump = "close"
  /\ closed' = TRUE
  /\ pump' = "done"
  /\ UNCHANGED << ctx, handlerVars, wireVars, view, watcher, made, failed >>

WatchFires == watcher = "wait" /\ (CtxDone \/ view.aborted)

WatcherClose ==
  /\ WatchFires
  /\ closed' = TRUE
  /\ watcher' = "done"
  /\ UNCHANGED << ctx, handlerVars, wireVars, view, pump, made, failed >>

WatcherStop ==
  /\ watcher = "wait" /\ pump = "done"
  /\ watcher' = "done"
  /\ UNCHANGED << ctx, handlerVars, wireVars, view, pump, made, closed, failed >>

-----------------------------------------------------------------------------
Handle ==
  \/ Refuse \/ Begin \/ StartPump \/ StartFails
  \/ SelectDone \/ SelectPumpDone \/ SelectTick \/ CheckSource
  \/ DrainGate \/ SendFrame \/ SendFails \/ BatchSent \/ EndStream

Run == PumpCheck \/ Capture \/ CaptureEnds \/ PumpOffer \/ PumpClose

Watch == WatcherClose \/ WatcherStop

\* The dispatch returned and its goroutines have exited.
Quiet == handler = "done" /\ pump \in {"idle", "done"} /\ watcher \in {"idle", "done"}

Stop == Quiet /\ UNCHANGED vars

Next == Cancel \/ Expire \/ Handle \/ Run \/ Watch \/ Stop

(* A goroutine that can move does, except that a source may stay silent    *)
(* until it is closed; sends return (with an error when the stream broke). *)
(* Go's select picks at random among its ready cases, so a case that stays *)
(* ready is taken: strong fairness.                                        *)
Fairness ==
  /\ WF_vars(Handle)
  /\ SF_vars(SelectPumpDone)
  /\ WF_vars(PumpCheck) /\ WF_vars(PumpOffer) /\ WF_vars(PumpClose)
  /\ WF_vars(closed /\ CaptureEnds)
  /\ WF_vars(Watch)

Spec == Init /\ [][Next]_vars

FairSpec == Spec /\ Fairness

-----------------------------------------------------------------------------
(* Type invariant.                                                         *)
TypeOK ==
  /\ ctx \in {"live", "canceled", "expired"}
  /\ handler \in {"start", "open", "select", "source", "drain", "send", "end", "done"}
  /\ result \in {"none", "denied", "expired", "cancelled", "startFailed",
                 "sourceFailed", "sendFailed", "clean"}
  /\ pump \in {"idle", "check", "next", "offer", "close", "done"}
  /\ watcher \in {"idle", "wait", "done"}
  /\ last \in BOOLEAN /\ endSent \in BOOLEAN /\ closed \in BOOLEAN /\ failed \in BOOLEAN
  /\ view \in View /\ Len(view.queue) <= Cap
  /\ batch \in Seq(Nat) /\ Len(batch) <= Batch /\ sent \in Seq(Nat)
  /\ made \in 0..MaxFrames /\ late \in Nat

(* What the context check before each drain buys: a KILL or an expiry that *)
(* lands while a batch is being sent lets at most that batch out.          *)
LateBounded == late <= Batch

(* EndStream tells the broker the view ended well.  It is sent only after  *)
(* the source ended by itself and without error, never for a view that was *)
(* aborted: "a capture failure cannot accidentally become a normal         *)
(* EndStream" (dataplane/producer.go).                                     *)
EndStreamMeansClean ==
  endSent => result = "clean" /\ pump = "done" /\ ~failed /\ ~view.aborted

(* A dispatch that did not end cleanly leaves an aborted, empty gate, so a *)
(* pump still running cannot queue a frame behind it.                      *)
FaultShutsGate ==
  handler = "done" /\ result # "clean" => ~CanSend(view) /\ view.queue = << >>

(* A cancelled or expired view returns, and so does one whose source ended:*)
(* neither is starved by a ticker that keeps firing.                       *)
StopEndsDispatch == (ctx # "live" \/ pump = "done") ~> handler = "done"

(* However the dispatch ended, its capture is released: the pump leaves a  *)
(* blocked Next, the producer is closed and both goroutines exit.          *)
CaptureReleased == handler = "done" ~> Quiet /\ (pump = "done" => closed)

-----------------------------------------------------------------------------
(* A dispatch implements the feed the broker is promised: the goroutines,  *)
(* the gate and its bounded queue deliver in order, at most one batch late *)
(* and with a regular end only after a regular end of the source.          *)
Phase == CASE handler = "start" -> "idle"
           [] handler = "done" -> "ended"
           [] OTHER -> "streaming"

Source == IF pump # "done" THEN "live" ELSE IF failed THEN "failed" ELSE "ended"

Feed == INSTANCE LiveFeed WITH
          Frames <- 1..MaxFrames, Slack <- Batch,
          phase <- Phase, source <- Source, stopped <- ctx # "live",
          delivered <- sent, slack <- Batch - late, marked <- endSent

ImplementsFeed == Feed!Spec
===============================================================================
