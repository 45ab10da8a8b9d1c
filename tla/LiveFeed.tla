------------------------------- MODULE LiveFeed -------------------------------
(***************************************************************************)
(* What a VIEW_ONLY dispatch promises the broker, without the goroutines,  *)
(* the gate and the queue that keep the promise: a feed that delivers      *)
(* captured frames newest-last, may be stopped at any time, delivers at    *)
(* most Slack more frames once it was stopped, and marks its end as        *)
(* regular only when the source ended regularly.                           *)
(***************************************************************************)
EXTENDS Naturals, Sequences

CONSTANTS
  Frames,               \* the frames a source can produce, numbers in capture order
  Slack                 \* frames that may still be delivered after a stop

VARIABLES
  phase,                \* "idle", "streaming" or "ended"
  source,               \* "live", "ended" or "failed"
  stopped,              \* the dispatch was cancelled or its permit expired
  delivered,            \* the frames delivered
  slack,                \* how many more may be delivered after a stop
  marked                \* the regular end was announced

vars == << phase, source, stopped, delivered, slack, marked >>

Init ==
  /\ phase = "idle" /\ source = "live" /\ stopped = FALSE
  /\ delivered = << >> /\ slack = Slack
  /\ marked = FALSE

Refuse ==
  /\ phase = "idle"
  /\ phase' = "ended"
  /\ UNCHANGED << source, stopped, delivered, slack, marked >>

Begin ==
  /\ phase = "idle"
  /\ phase' = "streaming"
  /\ UNCHANGED << source, stopped, delivered, slack, marked >>

Stop ==
  /\ phase # "ended" /\ ~stopped
  /\ stopped' = TRUE
  /\ UNCHANGED << phase, source, delivered, slack, marked >>

Deliver(f) ==
  /\ phase = "streaming"
  /\ \A i \in DOMAIN delivered : delivered[i] < f
  /\ delivered' = Append(delivered, f)
  /\ stopped => slack > 0
  /\ slack' = IF stopped THEN slack - 1 ELSE slack
  /\ UNCHANGED << phase, source, stopped, marked >>

SourceEnds ==
  /\ source = "live"
  /\ source' \in {"ended", "failed"}
  /\ UNCHANGED << phase, stopped, delivered, slack, marked >>

\* The announcement is best effort, and true when it is made.
End ==
  /\ phase = "streaming"
  /\ phase' = "ended"
  /\ marked' \in {FALSE, source = "ended"}
  /\ UNCHANGED << source, stopped, delivered, slack >>

Next == Refuse \/ Begin \/ Stop \/ SourceEnds \/ End \/ \E f \in Frames : Deliver(f)

Spec == Init /\ [][Next]_vars
===============================================================================
