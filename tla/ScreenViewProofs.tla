--------------------------- MODULE ScreenViewProofs ---------------------------
(***************************************************************************)
(* The operations of a ViewSession, one VIEW_ONLY dispatch around it and a *)
(* session in the hands of arbitrary callers: for every cap, batch, source *)
(* and number of frames.                                                   *)
(***************************************************************************)
EXTENDS ScreenView, ViewSession, SequenceTheorems, TLAPS

(* What every operation of the gate keeps true of the session.             *)
GoodView(v) ==
  /\ v \in View
  /\ Len(v.queue) <= Cap
  /\ Accounted(v)
  /\ ShutHoldsNothing(v)

(* A fresh session is well formed, accounts for every frame and holds none.*)
LEMMA NewGood == GoodView(NewViewSession)
  BY CapAssumption DEF GoodView, View, NewViewSession, Accounted, ShutHoldsNothing

(* The updates the operations of the gate are made of stay in View.        *)
LEMMA QueueUpdate ==
  ASSUME NEW v \in View, NEW q \in Seq(Nat), NEW n \in Nat
  PROVE  /\ [v EXCEPT !.flushed = n, !.queue = q] \in View
         /\ [v EXCEPT !.queue = q, !.drained = n] \in View
         /\ \A m \in Nat :
              [v EXCEPT !.queue = q, !.droppedBackpres = m, !.queued = n] \in View
  BY DEF View

(* Flushing what an arbitrary gate change left in the queue restores the   *)
(* two properties of a session, whatever the gate inputs became.           *)
LEMMA FlushGood ==
  ASSUME NEW v \in View, Len(v.queue) <= Cap, Accounted(v)
  PROVE  GoodView(Flush(v))
<1> DEFINE w == Flush(v)
<1>1. Len(v.queue) \in Nat /\ << >> \in Seq(Nat) /\ Len(<< >>) = 0
  BY DEF View
<1>2. w = [v EXCEPT !.flushed = v.flushed + Len(v.queue), !.queue = << >>]
  BY DEF Flush, View
<1> HIDE DEF w
<1>3. w \in View /\ w.queue = << >>
  <2>1. v.flushed + Len(v.queue) \in Nat
    BY <1>1 DEF View
  <2>2. w \in View
    BY <2>1, <1>1, <1>2, QueueUpdate
  <2>3. QED
    BY <2>2, <1>2 DEF View
<1>4. Accounted(w)
  BY <1>1, <1>2 DEF Accounted, View
<1>5. ShutHoldsNothing(w) /\ Len(w.queue) <= Cap
  BY <1>1, <1>3, CapAssumption DEF ShutHoldsNothing
<1>6. QED
  BY <1>3, <1>4, <1>5 DEF GoodView, w

(* Offer: an admitted frame enters the queue within the cap, a refused one *)
(* only counts.                                                            *)
LEMMA OfferGood ==
  ASSUME NEW v, GoodView(v), NEW f \in Nat
  PROVE  GoodView(Offer(v, f))
<1>1. CASE ~CanSend(v)
  <2> DEFINE w == Offer(v, f)
  <2>1. v \in View /\ Accounted(v) /\ v.queue = << >>
    BY <1>1 DEF GoodView, ShutHoldsNothing
  <2>2. w = [v EXCEPT !.droppedGate = v.droppedGate + 1]
    BY <1>1 DEF Offer
  <2> HIDE DEF w
  <2>3. w \in View /\ w.queue = << >>
    BY <2>1, <2>2 DEF View
  <2>4. Accounted(w)
    BY <2>1, <2>2 DEF Accounted, View
  <2>5. Len(w.queue) <= Cap
    BY <2>3, CapAssumption
  <2>6. QED
    BY <2>3, <2>4, <2>5 DEF GoodView, ShutHoldsNothing, w
<1>2. CASE CanSend(v)
  <2>1. /\ Room(v) \in Seq(Nat)
        /\ Len(Room(v)) <= Len(v.queue)
        /\ Len(Room(v)) + 1 <= Cap
    BY CapAssumption DEF GoodView, View, Room
  <2>2. /\ Append(Room(v), f) \in Seq(Nat)
        /\ Len(Append(Room(v), f)) = Len(Room(v)) + 1
    BY <2>1
  <2> DEFINE w == Offer(v, f)
  <2>3. w = [v EXCEPT !.queue = Append(Room(v), f),
                      !.droppedBackpres = @ + (Len(v.queue) - Len(Room(v))),
                      !.queued = @ + 1]
    BY <1>2 DEF Offer
  <2>4. v \in View /\ Accounted(v) /\ Len(v.queue) \in Nat /\ Len(Room(v)) \in Nat
    BY <2>1, CapAssumption DEF GoodView, View
  <2>5. w \in View /\ w.queue = Append(Room(v), f)
    <3> DEFINE m == v.droppedBackpres + (Len(v.queue) - Len(Room(v)))
               n == v.queued + 1
    <3>1. m \in Nat /\ n \in Nat
      BY <2>1, <2>4 DEF View
    <3>2. w = [v EXCEPT !.queue = Append(Room(v), f),
                        !.droppedBackpres = m, !.queued = n]
      BY <2>3, <2>4 DEF View
    <3> HIDE DEF m, n, w
    <3>3. w \in View
      BY <3>1, <3>2, <2>2, <2>4, QueueUpdate
    <3>4. QED
      BY <3>2, <3>3, <2>4 DEF View
  <2>6. CanSend(w)
    BY <1>2, <2>3, <2>4 DEF CanSend, View
  <2>7. Accounted(w)
    BY SMTT(30), <2>1, <2>2, <2>3, <2>4 DEF Accounted, View
  <2>8. QED
    BY <2>1, <2>2, <2>5, <2>6, <2>7 DEF GoodView, ShutHoldsNothing
<1>3. QED
  BY <1>1, <1>2

(* Drain: what leaves the queue is counted, and the rest stays within it.  *)
LEMMA DrainGood ==
  ASSUME NEW v, GoodView(v), NEW n \in Nat
  PROVE  /\ GoodView(Drain(v, n))
         /\ DrainedFrames(v, n) \in Seq(Nat)
         /\ Len(DrainedFrames(v, n)) <= n
<1> DEFINE k == DrainCount(v, n)
           L == Len(v.queue)
           rest == SubSeq(v.queue, k + 1, L)
<1>1. v \in View /\ v.queue \in Seq(Nat) /\ L \in Nat /\ L <= Cap /\ Accounted(v)
  BY DEF GoodView, View
<1>2. k \in 0..L
  BY <1>1 DEF DrainCount
<1>3. rest \in Seq(Nat) /\ Len(rest) = L - k
  BY SMTT(30), <1>1, <1>2
<1>4. SubSeq(v.queue, 1, k) \in Seq(Nat) /\ Len(SubSeq(v.queue, 1, k)) <= n
  <2>1. k \in Nat /\ k <= n /\ k <= L
    BY <1>1 DEF DrainCount
  <2>2. SubSeq(v.queue, 1, k) \in Seq(Nat) /\ Len(SubSeq(v.queue, 1, k)) = k
    BY <1>1, <2>1
  <2>3. QED
    BY <2>1, <2>2
<1>5. Drain(v, n) = [v EXCEPT !.queue = rest, !.drained = @ + k]
  BY DEF Drain
<1> HIDE DEF k, L, rest
<1>6. Drain(v, n) \in View /\ Drain(v, n).queue = rest
  <2> DEFINE d == v.drained + k
  <2>1. d \in Nat /\ Drain(v, n) = [v EXCEPT !.queue = rest, !.drained = d]
    BY <1>1, <1>2, <1>5 DEF View, L
  <2> HIDE DEF d
  <2>2. Drain(v, n) \in View
    <3>1. v \in View /\ rest \in Seq(Nat) /\ d \in Nat
      BY <1>1, <1>3, <2>1
    <3>2. [v EXCEPT !.queue = rest, !.drained = d] \in View
      BY <3>1, QueueUpdate
    <3>3. QED
      BY <2>1, <3>2
  <2>3. QED
    BY <2>1, <2>2, <1>1 DEF View
<1>7. Accounted(Drain(v, n))
  BY <1>1, <1>2, <1>3, <1>5 DEF Accounted, View, L
<1>8. L = 0 => rest = << >>
  BY <1>2, <1>3
<1>9. ShutHoldsNothing(v)
  BY DEF GoodView
<1>10. ShutHoldsNothing(Drain(v, n))
  <2>1. v.queue = << >> => rest = << >>
    BY <1>1, <1>8 DEF L
  <2>2. CanSend(Drain(v, n)) = CanSend(v)
    BY <1>1, <1>5 DEF CanSend, View
  <2>3. QED
    BY <2>1, <2>2, <1>6, <1>9 DEF ShutHoldsNothing
<1>11. Len(Drain(v, n).queue) <= Cap
  BY <1>1, <1>2, <1>3, <1>6, CapAssumption
<1>12. QED
  BY <1>4, <1>6, <1>7, <1>10, <1>11 DEF GoodView, DrainedFrames, k

-----------------------------------------------------------------------------
(* A gate change touches neither the queue nor its counters before the      *)
(* flush that follows it, so FlushGood applies to what it leaves.           *)
LEMMA MoveGood ==
  ASSUME NEW v, GoodView(v), NEW b \in BOOLEAN
  PROVE  /\ GoodView(SetRecordingReady(v, b))
         /\ GoodView(SetRecordingNotRequired(v, b))
         /\ GoodView(Activate(v))
         /\ GoodView(Deactivate(v))
         /\ GoodView(Abort(v))
<1>1. v \in View /\ Len(v.queue) <= Cap /\ Accounted(v) /\ ShutHoldsNothing(v)
  BY DEF GoodView
<1> DEFINE r == [v EXCEPT !.recordingReady = b]
           q == [v EXCEPT !.recordingNotRequired = b]
           a == [v EXCEPT !.active = TRUE]
           d == [v EXCEPT !.active = FALSE]
           x == [v EXCEPT !.aborted = TRUE]
<1>2. /\ r \in View /\ q \in View /\ a \in View /\ d \in View /\ x \in View
      /\ \A w \in {r, q, a, d, x} :
           /\ w.queue = v.queue /\ w.queued = v.queued /\ w.drained = v.drained
           /\ w.flushed = v.flushed /\ w.droppedBackpres = v.droppedBackpres
  BY <1>1 DEF View
<1>3. \A w \in {r, q, a, d, x} : Len(w.queue) <= Cap /\ Accounted(w)
  BY <1>1, <1>2 DEF Accounted
<1>4. GoodView(Flush(r)) /\ GoodView(Flush(q)) /\ GoodView(Flush(d)) /\ GoodView(Flush(x))
  BY <1>2, <1>3, FlushGood
\* Opening the gate needs no flush: what was shut held nothing, what was open stays.
<1>5. (b => CanSend(r) \/ ~CanSend(v)) /\ (b => CanSend(q) \/ ~CanSend(v))
      /\ (CanSend(a) \/ ~CanSend(v))
  BY <1>1 DEF CanSend, View
<1>6. (b => GoodView(r)) /\ (b => GoodView(q)) /\ GoodView(a)
  BY <1>1, <1>2, <1>3, <1>5 DEF GoodView, ShutHoldsNothing
<1>7. QED
  BY <1>4, <1>6
  DEF SetRecordingReady, SetRecordingNotRequired, Activate, Deactivate, Abort

(* What the gate changes do to the abort, which is what shuts it for good. *)
LEMMA AbortedFacts ==
  ASSUME NEW v \in View, NEW f \in Nat, NEW n \in Nat
  PROVE  /\ Abort(v).aborted /\ ~CanSend(Abort(v))
         /\ Offer(v, f).aborted = v.aborted
         /\ Drain(v, n).aborted = v.aborted
         /\ Activate(SetRecordingNotRequired(v, TRUE)).aborted = v.aborted
         /\ CanSend(Offer(v, f)) = CanSend(v)
<1>1. Abort(v).aborted /\ ~CanSend(Abort(v))
  BY DEF Abort, Flush, CanSend, View
<1>2. /\ Offer(v, f).aborted = v.aborted
      /\ CanSend(Offer(v, f)) = CanSend(v)
  BY DEF Offer, CanSend, View
<1>3. Drain(v, n).aborted = v.aborted
  BY DEF Drain, View
<1>4. Activate(SetRecordingNotRequired(v, TRUE)).aborted = v.aborted
  BY DEF Activate, SetRecordingNotRequired, View
<1>5. QED
  BY <1>1, <1>2, <1>3, <1>4

(* The frames of a queue are the run of numbers that ends at m.            *)
RunTo(q, m) == \A i \in DOMAIN q : q[i] = m - Len(q) + i

(* Backpressure evicts the oldest frame: an admitted frame extends the run,*)
(* or starts one in an empty queue.                                        *)
LEMMA OfferRun ==
  ASSUME NEW v, GoodView(v), CanSend(v), NEW f \in Nat,
         v.queue # << >> => RunTo(v.queue, f - 1)
  PROVE  /\ RunTo(Offer(v, f).queue, f)
         /\ Offer(v, f).queue # << >>
         /\ Len(Offer(v, f).queue) <= Len(v.queue) + 1
<1> DEFINE q == v.queue
           r == Room(v)
<1>1. q \in Seq(Nat) /\ Len(q) \in Nat /\ DOMAIN q = 1..Len(q) /\ v \in View
  BY DEF GoodView, View
<1> HIDE DEF q
<1>0. q # << >> => \A i \in 1..Len(q) : q[i] = f - 1 - Len(q) + i
  BY <1>1 DEF RunTo, q
<1>2. Offer(v, f).queue = Append(r, f)
  BY <1>1 DEF Offer, View, q
<1>3. r \in Seq(Nat) /\ Len(r) \in Nat /\ Len(r) <= Len(q)
      /\ \A i \in 1..Len(r) : r[i] = f - 1 - Len(r) + i
  <2>1. CASE Len(q) >= Cap
    <3>1. q # << >>
      BY <1>1, <2>1, CapAssumption
    <3>2. /\ r = Tail(q) /\ r \in Seq(Nat) /\ Len(r) = Len(q) - 1
          /\ \A i \in 1..Len(r) : r[i] = q[i + 1]
      BY <1>1, <2>1, <3>1, HeadTailProperties DEF Room, q
    <3>3. \A i \in 1..Len(q) : q[i] = f - 1 - Len(q) + i
      BY <1>0, <3>1
    <3>4. Len(r) \in Nat /\ Len(r) <= Len(q)
      BY <1>1, <3>2, LenProperties
    <3>5. ASSUME NEW i \in 1..Len(r) PROVE r[i] = f - 1 - Len(r) + i
      <4>1. i + 1 \in 1..Len(q)
        BY <1>1, <3>2, <3>4
      <4>2. q[i + 1] = f - 1 - Len(q) + (i + 1)
        BY <3>3, <4>1
      <4> QED BY <1>1, <3>2, <4>2
    <3> QED BY <3>2, <3>4, <3>5
  <2>2. CASE ~(Len(q) >= Cap)
    <3>1. r = q
      BY <2>2 DEF Room, q
    <3>2. CASE q = << >>
      BY <1>1, <3>1, <3>2
    <3>3. CASE q # << >>
      BY <1>0, <1>1, <3>1, <3>3
    <3> QED BY <3>2, <3>3
  <2> QED BY <2>1, <2>2
<1> HIDE DEF r
<1>4. /\ Len(Append(r, f)) = Len(r) + 1
      /\ \A i \in 1..Len(r) : Append(r, f)[i] = r[i]
      /\ Append(r, f)[Len(r) + 1] = f
      /\ DOMAIN Append(r, f) = 1..(Len(r) + 1)
  BY <1>3, AppendProperties, LenProperties
<1>5. ASSUME NEW i \in 1..(Len(r) + 1)
      PROVE  Append(r, f)[i] = f - (Len(r) + 1) + i
  <2>1. CASE i = Len(r) + 1
    BY <1>3, <1>4, <2>1
  <2>2. CASE i \in 1..Len(r)
    BY <1>3, <1>4, <2>2
  <2> QED BY <1>3, <2>1, <2>2
<1>6. RunTo(Append(r, f), f) /\ Append(r, f) # << >>
  <2> DEFINE w == Append(r, f)
  <2>1. /\ Len(w) = Len(r) + 1 /\ DOMAIN w = 1..(Len(r) + 1)
        /\ \A i \in 1..(Len(r) + 1) : w[i] = f - (Len(r) + 1) + i
    BY <1>4, <1>5
  <2> HIDE DEF w
  <2>2. RunTo(w, f)
    BY <2>1 DEF RunTo
  <2>3. w # << >>
    BY <1>3, <2>1
  <2> QED BY <2>2, <2>3 DEF w
<1> QED BY <1>2, <1>3, <1>4, <1>6 DEF q

(* Drain hands out the front of the run and keeps the rest.                *)
LEMMA DrainRun ==
  ASSUME NEW v, GoodView(v), NEW n \in Nat, NEW m \in Nat, RunTo(v.queue, m)
  PROVE  /\ RunTo(Drain(v, n).queue, m)
         /\ Len(DrainedFrames(v, n)) \in Nat
         /\ Len(DrainedFrames(v, n)) + Len(Drain(v, n).queue) = Len(v.queue)
         /\ \A i \in 1..Len(DrainedFrames(v, n)) :
              DrainedFrames(v, n)[i] = m - Len(v.queue) + i
<1> DEFINE q == v.queue
           L == Len(q)
           k == DrainCount(v, n)
           d == SubSeq(q, 1, k)
           t == SubSeq(q, k + 1, L)
<1>1. q \in Seq(Nat) /\ L \in Nat /\ v \in View /\ \A i \in 1..L : q[i] = m - L + i
  BY DEF GoodView, View, RunTo
<1>2. k \in 0..L
  BY <1>1 DEF DrainCount
<1>3. DrainedFrames(v, n) = d /\ Drain(v, n).queue = t
  BY <1>1 DEF DrainedFrames, Drain, View
<1> HIDE DEF k, L, q
<1>4. Len(d) = k /\ DOMAIN d = 1..k /\ \A i \in 1..k : d[i] = q[i]
  BY <1>1, <1>2 DEF L
<1>5. Len(t) = L - k /\ DOMAIN t = 1..(L - k) /\ \A i \in 1..(L - k) : t[i] = q[i + k]
  BY <1>1, <1>2, SMTT(30) DEF L
<1> HIDE DEF d, t
<1>6. \A i \in 1..k : d[i] = m - L + i
  BY <1>1, <1>2, <1>4
<1>7. ASSUME NEW i \in 1..(L - k) PROVE t[i] = m - (L - k) + i
  <2>1. i + k \in 1..L /\ t[i] = q[i + k]
    BY <1>1, <1>2, <1>5
  <2> QED BY <1>1, <1>2, <2>1
<1>8. RunTo(t, m)
  BY <1>5, <1>7 DEF RunTo
<1>9. Len(d) \in Nat /\ Len(d) + Len(t) = L
  BY <1>1, <1>2, <1>4, <1>5
<1> QED BY <1>3, <1>4, <1>6, <1>8, <1>9 DEF q, L

-----------------------------------------------------------------------------
(* One VIEW_ONLY dispatch.                                                 *)

Control ==
  /\ ctx \in {"live", "canceled", "expired"}
  /\ handler \in {"start", "open", "select", "source", "drain", "send", "end", "done"}
  /\ result \in {"none", "denied", "expired", "cancelled", "startFailed",
                 "sourceFailed", "sendFailed", "clean"}
  /\ pump \in {"idle", "check", "next", "offer", "close", "done"}
  /\ watcher \in {"idle", "wait", "done"}
  /\ last \in BOOLEAN /\ endSent \in BOOLEAN /\ closed \in BOOLEAN /\ failed \in BOOLEAN

Data ==
  /\ GoodView(view)
  /\ batch \in Seq(Nat) /\ Len(batch) <= Batch
  /\ sent \in Seq(Nat) /\ late \in Nat
  /\ made \in 0..MaxFrames

\* A drain starts only under a context seen live, so only its batch can be late.
Budget ==
  /\ ctx = "live" => late = 0
  /\ handler \in {"start", "open", "source", "drain"} => late = 0
  /\ handler = "send" => late + Len(batch) <= Batch
  /\ late <= Batch

\* The way to EndStream leads through a source that ended and did not fail.
Ending ==
  /\ handler = "source" \/ last => pump = "done"
  /\ last => ~failed
  /\ handler = "end" => last
  /\ endSent => last /\ handler = "done" /\ result = "clean"

\* Handle aborts the gate exactly when it returns for another reason.
Shutting ==
  /\ handler = "start" => view = NewViewSession
  /\ handler # "done" => ~view.aborted
  /\ handler = "done" /\ result = "clean" => ~view.aborted
  /\ handler = "done" /\ result # "clean" => ~CanSend(view)
  /\ pump \in {"check", "next", "offer", "close", "done"} => handler \notin {"start", "open"}

IInv == Control /\ Data /\ Budget /\ Ending /\ Shutting

LEMMA InitIInv == Init => IInv
<1>1. ~CanSend(NewViewSession) /\ ~NewViewSession.aborted
  BY DEF NewViewSession, CanSend
<1>2. << >> \in Seq(Nat) /\ Len(<< >>) = 0
  OBVIOUS
<1>3. Batch \in Nat /\ 0 <= Batch /\ 0 \in 0..MaxFrames
  BY BatchAssumption, MaxFramesAssumption
<1> SUFFICES ASSUME Init PROVE IInv
  OBVIOUS
<1>4. Control /\ Ending /\ Shutting
  BY <1>1 DEF Init, Control, Ending, Shutting
<1>5. Data
  BY <1>2, <1>3, NewGood DEF Init, Data
<1>6. Budget
  BY <1>2, <1>3 DEF Init, Budget
<1>7. QED
  BY <1>4, <1>5, <1>6 DEF IInv

(* The steps of the context and of Handle.                                 *)
LEMMA HandleIInv ==
  ASSUME IInv, Cancel \/ Expire \/ Handle
  PROVE  IInv'
<1> USE DEF IInv, Control, Data, Budget, Ending, Shutting,
            handlerVars, wireVars, captureVars, Return
<1>1. view \in View /\ GoodView(Abort(view)) /\ Abort(view).aborted /\ ~CanSend(Abort(view))
  <2>1. view \in View
    BY DEF GoodView
  <2>2. QED
    BY <2>1, MoveGood, AbortedFacts, 0 \in Nat
<1>2. ~CanSend(NewViewSession)
  BY DEF NewViewSession, CanSend
<1>a. CASE Cancel \/ Expire
  BY <1>a DEF Cancel, Expire
<1>b. CASE Refuse
  BY <1>b, <1>2 DEF Refuse
<1>c. CASE Begin
  <2>1. GoodView(SetRecordingNotRequired(view, TRUE))
    BY MoveGood
  <2>2. GoodView(view')
    BY <1>c, <2>1, MoveGood DEF Begin
  <2>3. view'.aborted = view.aborted
    BY <1>1, <1>c, AbortedFacts, 0 \in Nat DEF Begin
  <2>4. QED
    BY <1>c, <2>2, <2>3 DEF Begin
<1>d. CASE StartPump
  BY <1>d DEF StartPump
<1>e. CASE StartFails
  BY <1>e, <1>1 DEF StartFails, Cause
<1>f. CASE SelectDone
  BY <1>f, <1>1 DEF SelectDone, Cause
<1>g. CASE SelectPumpDone
  BY <1>g, <1>1 DEF SelectPumpDone, ProceedIfLive, Cause
<1>h. CASE SelectTick
  BY <1>h, <1>1 DEF SelectTick, ProceedIfLive, Cause
<1>i. CASE CheckSource
  BY <1>i, <1>1 DEF CheckSource
<1>j. CASE DrainGate
  <2>1. Batch \in Nat
    BY BatchAssumption
  <2>2. /\ GoodView(view') /\ batch' \in Seq(Nat)
        /\ Len(batch') \in Nat /\ Len(batch') <= Batch
    BY <1>j, <2>1, DrainGood DEF DrainGate
  <2>3. view'.aborted = view.aborted
    BY <1>j, <1>1, <2>1, AbortedFacts, 0 \in Nat DEF DrainGate
  <2>4. QED
    BY <1>j, <2>1, <2>2, <2>3 DEF DrainGate
<1>k. CASE SendFrame
  <2>1. /\ Head(batch) \in Nat /\ Tail(batch) \in Seq(Nat)
        /\ Len(batch) \in Nat /\ Len(Tail(batch)) = Len(batch) - 1
    BY <1>k DEF SendFrame
  <2>2. Append(sent, Head(batch)) \in Seq(Nat)
    BY <2>1
  <2>3. QED
    BY <1>k, <2>1, <2>2, BatchAssumption DEF SendFrame
<1>l. CASE SendFails
  BY <1>l, <1>1 DEF SendFails
<1>m. CASE BatchSent
  BY <1>m DEF BatchSent
<1>n. CASE EndStream
  BY <1>n DEF EndStream
<1>o. QED
  BY <1>a, <1>b, <1>c, <1>d, <1>e, <1>f, <1>g, <1>h, <1>i, <1>j, <1>k, <1>l, <1>m, <1>n
  DEF Handle

(* The steps of the pump, of its watcher and the stuttering ones.          *)
LEMMA CaptureIInv ==
  ASSUME IInv, Run \/ Watch \/ UNCHANGED vars
  PROVE  IInv'
<1> USE DEF IInv, Control, Data, Budget, Ending, Shutting, handlerVars, wireVars, captureVars
<1>1. CASE PumpCheck
  BY <1>1 DEF PumpCheck
<1>2. CASE Capture
  BY <1>2, MaxFramesAssumption DEF Capture
<1>3. CASE CaptureEnds
  BY <1>3 DEF CaptureEnds
<1>4. CASE PumpOffer
  <2>1. view \in View /\ made \in Nat
    BY MaxFramesAssumption DEF GoodView
  <2>2. /\ GoodView(view') /\ view'.aborted = view.aborted
        /\ CanSend(view') = CanSend(view)
    BY <1>4, <2>1, OfferGood, AbortedFacts DEF PumpOffer
  <2>3. QED
    BY <1>4, <2>2 DEF PumpOffer
<1>5. CASE PumpClose
  BY <1>5 DEF PumpClose
<1>6. CASE Watch
  <2>1. CASE WatcherClose
    BY <2>1 DEF WatcherClose, WatchFires, CtxDone
  <2>2. CASE WatcherStop
    BY <2>2 DEF WatcherStop
  <2>3. QED
    BY <1>6, <2>1, <2>2 DEF Watch
<1>7. CASE UNCHANGED vars
  BY <1>7 DEF vars
<1>8. QED
  BY <1>1, <1>2, <1>3, <1>4, <1>5, <1>6, <1>7 DEF Run

THEOREM Invariance == Spec => []IInv
<1>1. IInv /\ [Next]_vars => IInv'
  BY HandleIInv, CaptureIInv DEF Next, Stop
<1>2. QED
  BY <1>1, InitIInv, PTL DEF Spec

(* Every variable of a dispatch keeps its type and its bounds.             *)
THEOREM TypeCorrect == Spec => []TypeOK
<1>1. IInv => TypeOK
  BY DEF IInv, Control, Data, GoodView, TypeOK
<1>2. QED
  BY <1>1, Invariance, PTL

(* A KILL or an expiry lets at most the batch being sent out, whatever the *)
(* interleaving of Handle, the pump and its watcher.                       *)
THEOREM AtMostOneBatchLate == Spec => []LateBounded
<1>1. IInv => LateBounded
  BY DEF IInv, Budget, LateBounded
<1>2. QED
  BY <1>1, Invariance, PTL

(* EndStream is sent only for a view whose source ended well.              *)
THEOREM EndStreamIsTrue == Spec => []EndStreamMeansClean
<1>1. IInv => EndStreamMeansClean
  BY DEF IInv, Ending, Shutting, EndStreamMeansClean
<1>2. QED
  BY <1>1, Invariance, PTL

(* A view that ended in any other way has a shut and empty gate.           *)
THEOREM FaultsShutTheGate == Spec => []FaultShutsGate
<1>1. IInv => FaultShutsGate
  BY DEF IInv, Data, Shutting, GoodView, ShutHoldsNothing, FaultShutsGate
<1>2. QED
  BY <1>1, Invariance, PTL

-----------------------------------------------------------------------------
(* The order of the frames: what was sent, the batch being sent and the    *)
(* queue hold captured frames, oldest first, each below the next.          *)

\* The last frame the pump offered.
PumpOffered == IF pump = "offer" THEN made - 1 ELSE made
\* The last frame that left the queue.
Left == PumpOffered - Len(view.queue)

Order ==
  /\ pump = "offer" => made >= 1
  /\ RunTo(view.queue, PumpOffered) /\ Left >= 0
  /\ Increasing(batch) /\ \A i \in DOMAIN batch : batch[i] \in 1..Left
  /\ Increasing(sent) /\ \A i \in DOMAIN sent : sent[i] \in 1..Left
  /\ \A i \in DOMAIN sent, j \in DOMAIN batch : sent[i] < batch[j]

LEMMA OrderInit == Init => Order
BY DEF Init, Order, PumpOffered, Left, NewViewSession, RunTo, Increasing

(* What can happen to the queue: it keeps, loses or empties its run, while *)
(* the frames that left it are no fewer than before.                       *)
LEMMA OrderKept ==
  ASSUME IInv, IInv', Order, UNCHANGED << batch, sent >>,
         RunTo(view.queue, PumpOffered)', Left' >= Left, pump' = "offer" => made' >= 1
  PROVE  Order'
<1>1. Left \in Int /\ Left' \in Int
  BY SMTT(30), MaxFramesAssumption DEF IInv, Data, GoodView, View, Left, PumpOffered
<1>2. \A k \in 1..Left : k \in 1..Left'
  BY <1>1
<1>3. Left' >= 0
  BY <1>1 DEF Order
<1> HIDE DEF Left, PumpOffered
<1> QED BY <1>2, <1>3 DEF Order, Increasing

LEMMA QueueFacts ==
  ASSUME NEW v \in View
  PROVE  /\ Abort(v).queue = << >>
         /\ Activate(SetRecordingNotRequired(v, TRUE)).queue = v.queue
         /\ \A f \in Nat : ~CanSend(v) => Offer(v, f).queue = v.queue
BY DEF Abort, Flush, Activate, SetRecordingNotRequired, Offer, View

LEMMA OrderNext == IInv /\ IInv' /\ Order /\ [Next]_vars => Order'
<1> SUFFICES ASSUME IInv, IInv', Order, [Next]_vars PROVE Order'
  OBVIOUS
<1> USE MaxFramesAssumption
<1>1. /\ view \in View /\ view.queue \in Seq(Nat) /\ Len(view.queue) \in Nat
      /\ made \in Nat /\ PumpOffered \in Int /\ Left \in Int /\ 0 <= Left
      /\ batch \in Seq(Nat) /\ sent \in Seq(Nat) /\ PumpOffered \in Nat
  BY SMTT(30) DEF IInv, Data, GoodView, View, Order, PumpOffered, Left
<1>2. CASE UNCHANGED << batch, sent, view, pump, made >>
  BY <1>1, <1>2, OrderKept DEF Order, PumpOffered, Left
\* Handle shuts the gate, or opens it.
<1>3. CASE /\ UNCHANGED << batch, sent, pump, made >>
           /\ view'.queue = << >> \/ view'.queue = view.queue
  <2>1. PumpOffered' = PumpOffered /\ Left' >= Left
    BY <1>1, <1>3 DEF PumpOffered, Left
  <2>2. RunTo(view.queue, PumpOffered)'
    BY <1>3, <2>1 DEF Order, RunTo
  <2> QED BY <1>3, <2>1, <2>2, OrderKept DEF Order
<1>4. CASE DrainGate
  <2>1. /\ handler = "drain" /\ batch' = DrainedFrames(view, Batch)
        /\ view' = Drain(view, Batch) /\ UNCHANGED << sent, pump, made >>
    BY <1>4 DEF DrainGate, wireVars, captureVars
  <2> DEFINE L == Len(view.queue)
  <2>2. /\ RunTo(view'.queue, PumpOffered)
        /\ Len(batch') \in Nat /\ Len(batch') + Len(view'.queue) = L
        /\ \A i \in 1..Len(batch') : batch'[i] = PumpOffered - L + i
    <3>1. GoodView(view) /\ RunTo(view.queue, PumpOffered) /\ PumpOffered \in Nat
      BY <1>1 DEF IInv, Data, Order
    <3>2. Batch \in Nat
      BY BatchAssumption
    <3> HIDE DEF PumpOffered
    <3> QED BY <2>1, <3>1, <3>2, DrainRun
  <2>3. PumpOffered' = PumpOffered /\ Left' = Left + Len(batch') /\ Left = PumpOffered - L
        /\ DOMAIN batch' = 1..Len(batch')
    <3>1. batch' \in Seq(Nat) /\ Len(view'.queue) \in Nat
      BY DEF IInv, Data, GoodView, View
    <3>2. PumpOffered' = PumpOffered
      BY <2>1 DEF PumpOffered
    <3>3. Left' = PumpOffered - Len(view'.queue) /\ Left = PumpOffered - L
      BY <3>2 DEF Left
    <3>4. Left' = Left + Len(batch')
      <4>1. L \in Int /\ Len(batch') \in Int /\ Len(view'.queue) \in Int
            /\ Len(view'.queue) = L - Len(batch')
        BY <1>1, <2>2, <3>1
      <4> HIDE DEF L, Left, PumpOffered
      <4> QED BY <1>1, <3>3, <4>1
    <3>5. DOMAIN batch' = 1..Len(batch')
      BY <3>1, LenProperties
    <3> QED BY <3>2, <3>3, <3>4, <3>5
  <2> HIDE DEF L
  <2>4. ASSUME NEW i \in DOMAIN batch' PROVE batch'[i] \in 1..Left' /\ batch'[i] > Left
    BY SMTT(30), <1>1, <2>2, <2>3
  <2>5. Increasing(batch')
    BY <1>1, <2>2, <2>3 DEF Increasing
  <2>6. \A i \in DOMAIN sent : sent[i] \in 1..Left' /\ sent[i] <= Left
    BY <1>1, <2>2, <2>3 DEF Order
  <2>7. \A i \in DOMAIN sent, j \in DOMAIN batch' : sent[i] < batch'[j]
    <3> SUFFICES ASSUME NEW i \in DOMAIN sent, NEW j \in DOMAIN batch' PROVE sent[i] < batch'[j]
      OBVIOUS
    <3>1. sent[i] \in Int /\ batch'[j] \in Int
      BY <2>4, <2>6
    <3> QED BY <1>1, <2>4, <2>6, <3>1
  <2>8. Left' >= 0
    BY <1>1, <2>2, <2>3
  <2> QED BY <2>1, <2>2, <2>3, <2>4, <2>5, <2>6, <2>7, <2>8 DEF Order, Increasing
<1>5. CASE SendFrame
  <2>1. /\ batch # << >> /\ sent' = Append(sent, Head(batch)) /\ batch' = Tail(batch)
        /\ UNCHANGED << view, pump, made >>
    BY <1>5 DEF SendFrame, captureVars
  <2>2. PumpOffered' = PumpOffered /\ Left' = Left
    BY <2>1 DEF PumpOffered, Left
  <2>3. /\ Len(batch) \in Nat /\ Len(batch) > 0 /\ DOMAIN batch = 1..Len(batch)
        /\ Head(batch) = batch[1] /\ DOMAIN batch' = 1..(Len(batch) - 1)
        /\ \A i \in 1..(Len(batch) - 1) : batch'[i] = batch[i + 1]
    BY <1>1, <2>1, HeadTailProperties, LenProperties
  <2>4. /\ Len(sent) \in Nat /\ DOMAIN sent = 1..Len(sent)
        /\ DOMAIN sent' = 1..(Len(sent) + 1)
        /\ \A i \in 1..Len(sent) : sent'[i] = sent[i]
        /\ sent'[Len(sent) + 1] = batch[1]
    <3>1. batch[1] \in Nat
      BY <1>1, <2>3
    <3> QED BY <1>1, <2>1, <2>3, <3>1, AppendProperties, LenProperties
  <2>5. /\ 1 \in DOMAIN batch
        /\ \A i \in DOMAIN batch' : i + 1 \in DOMAIN batch /\ 1 < i + 1 /\ batch'[i] = batch[i + 1]
    BY <2>3
  <2>6. Increasing(batch') /\ \A i \in DOMAIN batch' : batch'[i] \in 1..Left /\ batch[1] < batch'[i]
    <3>1. \A i, j \in DOMAIN batch' : i < j => i + 1 < j + 1
      BY <2>3
    <3> QED BY <2>5, <3>1 DEF Order, Increasing
  <2>7. \A i \in DOMAIN sent' : i \in DOMAIN sent \/ i = Len(sent) + 1
    BY <2>4
  <2>8. \A i \in DOMAIN sent' : sent'[i] \in 1..Left
    BY <2>4, <2>5, <2>7 DEF Order
  <2>9. \A i \in DOMAIN sent', j \in DOMAIN batch' : sent'[i] < batch'[j]
    BY <2>4, <2>5, <2>6, <2>7 DEF Order
  <2>10. Increasing(sent')
    <3> SUFFICES ASSUME NEW i \in DOMAIN sent', NEW j \in DOMAIN sent', i < j
                 PROVE  sent'[i] < sent'[j]
      BY DEF Increasing
    <3>1. i \in DOMAIN sent
      BY <2>4
    <3>2. CASE j \in DOMAIN sent
      BY <2>4, <3>1, <3>2 DEF Order, Increasing
    <3>3. CASE j = Len(sent) + 1
      BY <2>4, <2>5, <3>1, <3>3 DEF Order
    <3> QED BY <2>7, <3>2, <3>3
  <2> QED BY <2>1, <2>2, <2>6, <2>8, <2>9, <2>10 DEF Order, Increasing
<1>6. CASE Capture
  <2>1. /\ pump = "next" /\ pump' = "offer" /\ made' = made + 1
        /\ UNCHANGED << batch, sent, view >>
    BY <1>6 DEF Capture, handlerVars, wireVars
  <2>2. PumpOffered' = PumpOffered /\ Left' = Left
    BY <1>1, <2>1 DEF PumpOffered, Left
  <2> QED BY <1>1, <2>1, <2>2, OrderKept DEF Order
<1>7. CASE PumpOffer
  <2>1. /\ pump = "offer" /\ pump' = "check" /\ view' = Offer(view, made)
        /\ UNCHANGED << batch, sent, made >> /\ made >= 1
    BY <1>7 DEF PumpOffer, handlerVars, wireVars, Order
  <2>2. PumpOffered = made - 1 /\ PumpOffered' = made
    BY <1>1, <2>1 DEF PumpOffered
  <2>3. CASE CanSend(view)
    <3>1. RunTo(view'.queue, made) /\ Len(view'.queue) <= Len(view.queue) + 1
      BY <1>1, <2>1, <2>2, <2>3, OfferRun DEF IInv, Data, Order
    <3>2. Len(view'.queue) \in Nat
      BY DEF IInv, Data, GoodView, View
    <3>3. Left' >= Left
      BY <1>1, <2>2, <3>1, <3>2 DEF Left
    <3> QED BY <2>1, <2>2, <3>1, <3>3, OrderKept
  <2>4. CASE ~CanSend(view)
    <3>1. view.queue = << >> /\ view'.queue = << >>
      BY <1>1, <2>1, <2>4, QueueFacts DEF IInv, Data, GoodView, ShutHoldsNothing
    <3>2. RunTo(view'.queue, made) /\ Left' >= Left
      BY <1>1, <2>2, <3>1 DEF RunTo, Left
    <3> QED BY <2>1, <2>2, <3>2, OrderKept
  <2> QED BY <2>3, <2>4
<1>8. CASE PumpCheck \/ CaptureEnds \/ PumpClose
  <2>1. UNCHANGED << batch, sent, view, made >> /\ pump # "offer" /\ pump' # "offer"
    BY <1>8 DEF PumpCheck, CaptureEnds, PumpClose, handlerVars, wireVars
  <2>2. PumpOffered' = PumpOffered /\ Left' = Left
    BY <2>1 DEF PumpOffered, Left
  <2> QED BY <1>1, <2>1, <2>2, OrderKept DEF Order
<1>9. CASE StartPump
  <2>1. UNCHANGED << batch, sent, view, made >> /\ pump' # "offer" /\ pump # "offer"
    BY <1>9 DEF StartPump, IInv, Shutting, Control, handlerVars, wireVars
  <2>2. PumpOffered' = PumpOffered /\ Left' = Left
    BY <2>1 DEF PumpOffered, Left
  <2> QED BY <1>1, <2>1, <2>2, OrderKept DEF Order
<1>10. CASE Begin \/ StartFails \/ SelectDone \/ SelectPumpDone \/ SelectTick \/ CheckSource
            \/ SendFails
  <2>1. UNCHANGED << batch, sent, pump, made >>
    BY <1>10 DEF Begin, StartFails, SelectDone, SelectPumpDone, SelectTick, CheckSource,
                 SendFails, ProceedIfLive, Return, wireVars, captureVars
  <2>2. view' = view \/ view' = Abort(view)
        \/ view' = Activate(SetRecordingNotRequired(view, TRUE))
    BY <1>10 DEF Begin, StartFails, SelectDone, SelectPumpDone, SelectTick, CheckSource,
                 SendFails, ProceedIfLive
  <2> QED BY <1>1, <1>3, <2>1, <2>2, QueueFacts
<1>11. CASE Cancel \/ Expire \/ Refuse \/ BatchSent \/ EndStream \/ Watch \/ UNCHANGED vars
  BY <1>2, <1>11 DEF Cancel, Expire, Refuse, BatchSent, EndStream, Watch, WatcherClose,
       WatcherStop, Return, vars, handlerVars, wireVars, captureVars
<1> QED BY <1>4, <1>5, <1>6, <1>7, <1>8, <1>9, <1>10, <1>11 DEF Next, Handle, Run, Stop

-----------------------------------------------------------------------------
(* The refinement, one step of the dispatch at a time.                     *)

FeedVars == << Phase, Source, ctx # "live", sent, Batch - late, endSent >>

\* What the handler's state says of the feed.
LEMMA FeedState ==
  ASSUME IInv
  PROVE  /\ Phase = "idle" <=> handler = "start"
         /\ Phase = "ended" <=> handler = "done"
         /\ Phase = "streaming" <=> handler \notin {"start", "done"}
BY DEF Phase, IInv, Control

LEMMA FeedStarts == Init => Feed!Init
BY BatchAssumption DEF Init, Feed!Init, Phase, Source

LEMMA FeedStutters ==
  ASSUME IInv, IInv', UNCHANGED << ctx, sent, late, endSent, Source >>,
         handler' = handler \/ {handler, handler'} \cap {"start", "done"} = {}
  PROVE  UNCHANGED FeedVars
<1>1. Phase' = Phase
  BY DEF Phase, IInv, Control
<1> QED BY <1>1 DEF FeedVars

LEMMA FeedEnds ==
  ASSUME IInv, IInv', UNCHANGED << ctx, sent, late, Source >>,
         handler \notin {"start", "done"}, handler' = "done",
         endSent' = FALSE \/ (Source = "ended" /\ endSent' = TRUE)
  PROVE  Feed!Next
<1>1. Phase = "streaming" /\ Phase' = "ended"
  BY FeedState DEF Phase
<1>2. endSent' \in {FALSE, Source = "ended"}
  BY DEF IInv, Control
<1> QED BY <1>1, <1>2 DEF Feed!Next, Feed!End

LEMMA FeedSteps == IInv /\ IInv' /\ Order /\ [Next]_vars => [Feed!Next]_FeedVars
<1> SUFFICES ASSUME IInv, IInv', Order, [Next]_vars PROVE [Feed!Next]_FeedVars
  OBVIOUS
<1> USE DEF handlerVars, wireVars, captureVars
<1>1. CASE Cancel \/ Expire
  <2>1. /\ ctx = "live" /\ ctx' # "live" /\ handler # "done"
        /\ UNCHANGED << handlerVars, wireVars, captureVars >>
    BY <1>1 DEF Cancel, Expire
  <2>2. Phase' = Phase /\ Source' = Source /\ Phase # "ended"
    BY <2>1, FeedState DEF Phase, Source
  <2> QED BY <2>1, <2>2 DEF Feed!Next, Feed!Stop
<1>2. CASE Refuse
  <2>1. /\ handler = "start" /\ handler' = "done"
        /\ UNCHANGED << ctx, wireVars, captureVars >>
    BY <1>2 DEF Refuse, Return
  <2> QED BY <2>1 DEF Feed!Next, Feed!Refuse, Phase, Source
<1>3. CASE Begin
  <2>1. /\ handler = "start" /\ handler' = "open"
        /\ UNCHANGED << ctx, wireVars, captureVars >>
    BY <1>3 DEF Begin
  <2> QED BY <2>1 DEF Feed!Next, Feed!Begin, Phase, Source
<1>4. CASE SendFrame
  <2>1. /\ handler = "send" /\ handler' = handler /\ batch # << >>
        /\ sent' = Append(sent, Head(batch)) /\ late' = IF ctx = "live" THEN late ELSE late + 1
        /\ UNCHANGED << ctx, endSent, pump, failed >>
    BY <1>4 DEF SendFrame
  <2>2. /\ Phase = "streaming" /\ Phase' = Phase /\ Source' = Source
    BY <2>1, FeedState DEF Phase, Source
  <2>3. /\ batch \in Seq(Nat) /\ Len(batch) \in Nat /\ Len(batch) >= 1
        /\ 1 \in DOMAIN batch /\ Head(batch) = batch[1]
    BY <2>1, HeadTailProperties, LenProperties DEF IInv, Data
  <2>4. batch[1] \in 1..MaxFrames /\ \A i \in DOMAIN sent : sent[i] < batch[1]
    <3>1. made \in Nat /\ made <= MaxFrames /\ Len(view.queue) \in Nat
      BY MaxFramesAssumption DEF IInv, Data, GoodView, View
    <3>2. Left \in Int /\ Left <= made
      BY <3>1 DEF Left, PumpOffered
    <3>3. batch[1] \in 1..Left
      BY <2>3 DEF Order
    <3>4. batch[1] \in 1..MaxFrames
      BY <3>1, <3>2, <3>3, MaxFramesAssumption
    <3> QED BY <2>3, <3>4 DEF Order
  <2>5. /\ ctx # "live" => Batch - late > 0
        /\ Batch - late' = IF ctx # "live" THEN (Batch - late) - 1 ELSE Batch - late
    <3>1. Batch \in Int /\ late \in Int /\ late + Len(batch) <= Batch
      BY <2>1, BatchAssumption DEF IInv, Data, Budget
    <3> QED BY <2>1, <2>3, <3>1
  <2>6. Feed!Deliver(batch[1])
    BY <2>1, <2>2, <2>3, <2>4, <2>5 DEF Feed!Deliver
  <2> QED BY <2>4, <2>6 DEF Feed!Next
<1>5. CASE PumpClose
  <2>1. /\ pump # "done" /\ pump' = "done"
        /\ UNCHANGED << ctx, handler, sent, late, endSent, failed >>
    BY <1>5 DEF PumpClose
  <2>2. Source = "live" /\ Source' \in {"ended", "failed"} /\ Phase' = Phase
    BY <2>1 DEF Source, Phase
  <2> QED BY <2>1, <2>2 DEF Feed!Next, Feed!SourceEnds
<1>6. CASE EndStream
  <2>1. /\ handler = "end" /\ handler' = "done" /\ endSent' \in BOOLEAN
        /\ UNCHANGED << ctx, sent, late, captureVars >>
    BY <1>6 DEF EndStream, Return
  <2>2. Source = "ended" /\ Source' = Source
    BY <2>1 DEF IInv, Ending, Source
  <2> QED BY <2>1, <2>2, FeedEnds
<1>7. CASE StartFails \/ SelectDone \/ SelectPumpDone \/ SelectTick \/ CheckSource \/ SendFails
  <2>1. /\ handler \notin {"start", "done", "end"} /\ handler' # "start"
        /\ UNCHANGED << ctx, wireVars, captureVars >> /\ Source' = Source
    BY <1>7 DEF StartFails, SelectDone, SelectPumpDone, SelectTick, CheckSource, SendFails,
                ProceedIfLive, Return, Source
  <2>2. endSent' = FALSE
    BY <2>1 DEF IInv, Control, Ending
  <2>3. CASE handler' = "done"
    BY <2>1, <2>2, <2>3, FeedEnds
  <2>4. CASE handler' # "done"
    BY <2>1, <2>4, FeedStutters
  <2> QED BY <2>3, <2>4
<1>8. CASE StartPump \/ DrainGate \/ BatchSent
  <2>1. /\ handler \notin {"start", "done"} /\ handler' \notin {"start", "done"}
        /\ UNCHANGED << ctx, wireVars >> /\ Source' = Source
    BY <1>8 DEF StartPump, DrainGate, BatchSent, Source, IInv, Shutting, Control
  <2> QED BY <2>1, FeedStutters
<1>9. CASE PumpCheck \/ Capture \/ CaptureEnds \/ PumpOffer \/ Watch \/ UNCHANGED vars
  <2>1. UNCHANGED << ctx, handler, wireVars >> /\ Source' = Source
    BY <1>9 DEF PumpCheck, Capture, CaptureEnds, PumpOffer, Watch, WatcherClose, WatcherStop,
                vars, Source
  <2> QED BY <2>1, FeedStutters
<1> QED BY <1>1, <1>2, <1>3, <1>4, <1>5, <1>6, <1>7, <1>8, <1>9 DEF Next, Handle, Run, Stop

(* A dispatch implements the feed: the goroutines, the gate and its bounded*)
(* queue deliver captured frames in order and each once, at most one batch *)
(* after a stop, and announce a regular end only after one (Handle, Pump). *)
THEOREM Refinement == Spec => ImplementsFeed
<1>1. Init => Order /\ Feed!Init
  BY OrderInit, FeedStarts
<1>2. IInv /\ IInv' /\ Order /\ [Next]_vars => Order'
  BY OrderNext
<1>3. IInv /\ IInv' /\ Order /\ [Next]_vars => [Feed!Next]_FeedVars
  BY FeedSteps
<1> QED BY <1>1, <1>2, <1>3, Invariance, PTL
        DEF Spec, ImplementsFeed, Feed!Spec, Feed!vars, FeedVars

-----------------------------------------------------------------------------
(* A ViewSession in the hands of arbitrary callers (ViewSession), with any *)
(* number of frames offered.  Its operations are those of the gate.        *)

(* A shut gate refuses frames, so what is queued was offered without a gap;*)
(* what was handed out came before it, in order.                           *)
SInv ==
  /\ GoodView(view)
  /\ offered \in 0..MaxOffers /\ admitted \in 0..offered /\ egress \in Seq(Nat)
  /\ RunTo(view.queue, admitted)
  /\ view.queue # << >> => admitted = offered
  /\ Increasing(egress)
  /\ \A i \in DOMAIN egress : egress[i] <= admitted - Len(view.queue)

LEMMA SessionBegins == SessionInit => SInv
BY NewGood, MaxOffersAssumption DEF SessionInit, SInv, NewViewSession, RunTo, Increasing

(* What the calls that move the gate do to the queue.                      *)
LEMMA GateMoves ==
  ASSUME SInv, MoveGate
  PROVE  /\ GoodView(view') /\ view'.queue \in {view.queue, << >>}
         /\ view.aborted => view'.aborted
         /\ UNCHANGED << offered, admitted, egress >>
<1>1. view \in View
  BY DEF SInv, GoodView
<1>2. UNCHANGED << offered, admitted, egress >>
      /\ \/ \E b \in BOOLEAN : view' = SetRecordingReady(view, b)
         \/ \E b \in BOOLEAN : view' = SetRecordingNotRequired(view, b)
         \/ view' \in {Activate(view), Deactivate(view), Abort(view)}
  BY DEF MoveGate
<1>3. GoodView(view')
  BY <1>2, MoveGood DEF SInv
<1>4. view'.queue \in {view.queue, << >>} /\ (view.aborted => view'.aborted)
  BY <1>1, <1>2 DEF SetRecordingReady, SetRecordingNotRequired, Activate, Deactivate, Abort,
                    Flush, View
<1> QED BY <1>2, <1>3, <1>4

LEMMA SessionMoves == SInv /\ [SessionNext]_sessionVars => SInv'
<1> SUFFICES ASSUME SInv, [SessionNext]_sessionVars PROVE SInv'
  OBVIOUS
<1>1. /\ offered \in Nat /\ admitted \in Nat /\ admitted <= offered /\ view \in View
      /\ view.queue \in Seq(Nat) /\ Len(view.queue) \in Nat
  BY DEF SInv, GoodView, View
<1>0. /\ Increasing(egress) /\ egress \in Seq(Nat)
      /\ \A i \in DOMAIN egress : egress[i] \in Nat /\ egress[i] <= admitted - Len(view.queue)
  BY DEF SInv
<1>2. CASE OfferFrame
  <2>1. /\ offered' = offered + 1 /\ offered' \in 0..MaxOffers /\ offered' \in Nat
        /\ egress' = egress
        /\ view' = Offer(view, offered')
        /\ admitted' = IF CanSend(view) THEN offered' ELSE admitted
    BY <1>1, <1>2, MaxOffersAssumption DEF OfferFrame, SInv
  <2>2. GoodView(view') /\ Len(view'.queue) \in Nat
    <3>1. GoodView(view')
      BY <2>1, OfferGood DEF SInv
    <3> QED BY <3>1 DEF GoodView, View
  <2>3. CASE CanSend(view)
    <3>1. view.queue # << >> => RunTo(view.queue, offered' - 1)
      BY <1>1, <2>1 DEF SInv
    <3>2. RunTo(view'.queue, offered') /\ Len(view'.queue) <= Len(view.queue) + 1
      BY <1>1, <2>1, <2>3, <3>1, OfferRun DEF SInv
    <3>0. view.queue = << >> \/ admitted = offered
      BY DEF SInv
    <3>3. admitted - Len(view.queue) <= offered' - Len(view'.queue)
      <4> DEFINE L == Len(view.queue)
                 L1 == Len(view'.queue)
      <4>1. L \in Nat /\ L1 \in Nat /\ L1 <= L + 1 /\ (L = 0 \/ admitted = offered)
            /\ L1 # 0
        <5>1. view.queue = << >> => Len(view.queue) = 0
          BY <1>1
        <5>2. view'.queue # << >> /\ view'.queue \in Seq(Nat)
          BY <1>1, <2>1, <2>2, <2>3, <3>1, OfferRun DEF SInv, GoodView, View
        <5>3. Len(view'.queue) # 0
          BY <5>2
        <5> QED BY <1>1, <2>2, <3>0, <3>2, <5>1, <5>3
      <4>2. admitted <= offered /\ offered' = offered + 1 /\ admitted \in Nat /\ offered \in Nat
        BY <1>1, <2>1
      <4> HIDE DEF L, L1
      <4>3. admitted - L <= offered' - L1
        <5>1. CASE admitted = offered
          BY <4>1, <4>2, <5>1
        <5>2. CASE L = 0
          BY <4>1, <4>2, <5>2
        <5> QED BY <4>1, <5>1, <5>2
      <4> QED BY <4>3 DEF L, L1
    <3>4. \A i \in DOMAIN egress : egress[i] <= offered' - Len(view'.queue)
      <4> SUFFICES ASSUME NEW i \in DOMAIN egress
                   PROVE  egress[i] <= offered' - Len(view'.queue)
        OBVIOUS
      <4> DEFINE e == egress[i]
                 o == offered' - Len(view'.queue)
                 a == admitted - Len(view.queue)
      <4>1. e \in Nat /\ e <= a
        BY <1>0
      <4>2. a \in Int /\ o \in Int /\ a <= o
        <5>1. offered' \in Nat /\ Len(view'.queue) \in Nat
          BY <2>1, <2>2
        <5>2. a \in Int /\ o \in Int
          BY <1>1, <5>1
        <5> QED BY <3>3, <5>2
      <4> HIDE DEF e, a, o
      <4>3. e <= o
        BY <4>1, <4>2
      <4> QED BY <4>3 DEF e, o
    <3>5. admitted' = offered' /\ offered' \in 0..offered'
      BY <2>1, <2>3
    <3> QED BY <1>0, <2>1, <2>2, <3>2, <3>4, <3>5 DEF SInv
  <2>4. CASE ~CanSend(view)
    <3>1. view.queue = << >> /\ view'.queue = << >>
      BY <1>1, <2>1, <2>4, QueueFacts DEF SInv, GoodView, ShutHoldsNothing
    <3> QED BY <1>1, <2>1, <2>2, <2>4, <3>1 DEF SInv
  <2> QED BY <2>3, <2>4
<1>3. CASE DrainFrames
  <2>1. PICK n \in 1..Cap :
          /\ view' = Drain(view, n) /\ egress' = egress \o DrainedFrames(view, n)
          /\ UNCHANGED << offered, admitted >>
    BY <1>3 DEF DrainFrames
  <2> DEFINE d == DrainedFrames(view, n)
             L == Len(view.queue)
             E == Len(egress)
  <2>2. n \in Nat
    BY CapAssumption
  <2>3. GoodView(view') /\ d \in Seq(Nat)
    BY <2>1, <2>2, DrainGood DEF SInv
  <2>4. /\ RunTo(view'.queue, admitted) /\ Len(d) \in Nat
        /\ Len(d) + Len(view'.queue) = L
        /\ \A i \in 1..Len(d) : d[i] = admitted - L + i
    BY <1>1, <2>1, <2>2, DrainRun DEF SInv
  <2> HIDE DEF d
  <2>5. /\ egress' \in Seq(Nat) /\ E \in Nat /\ Len(egress') = E + Len(d)
        /\ DOMAIN egress = 1..E /\ DOMAIN egress' = 1..(E + Len(d))
        /\ \A i \in 1..E : egress'[i] = egress[i]
        /\ \A i \in (E + 1)..(E + Len(d)) : egress'[i] = d[i - E]
    BY <2>1, <2>3, <2>4, ConcatProperties, LenProperties DEF SInv, d
  <2>6. Len(view'.queue) \in Nat /\ Len(view'.queue) = L - Len(d) /\ L \in Nat
    BY <1>1, <2>3, <2>4 DEF GoodView, View
  <2>7. \A i \in 1..E : egress'[i] \in Nat /\ egress'[i] <= admitted - L
    BY <1>0, <2>5
  <2> HIDE DEF L, E
  <2>8. ASSUME NEW i \in (E + 1)..(E + Len(d))
        PROVE  egress'[i] = admitted - L + (i - E)
    <3>1. i - E \in 1..Len(d)
      BY <2>4, <2>5
    <3> QED BY <2>4, <2>5, <3>1
  <2>9. ASSUME NEW i \in DOMAIN egress' PROVE egress'[i] <= admitted - Len(view'.queue)
    <3>1. CASE i \in 1..E
      BY <1>1, <2>4, <2>6, <2>7, <3>1
    <3>2. CASE i \in (E + 1)..(E + Len(d))
      <4>1. egress'[i] = admitted - L + (i - E)
        BY <2>8, <3>2
      <4> QED BY <1>1, <2>4, <2>5, <2>6, <3>2, <4>1
    <3> QED BY <2>4, <2>5, <3>1, <3>2
  <2>10. Increasing(egress')
    <3> SUFFICES ASSUME NEW i \in DOMAIN egress', NEW j \in DOMAIN egress', i < j
                 PROVE  egress'[i] < egress'[j]
      BY DEF Increasing
    <3>1. CASE j \in 1..E
      <4>1. /\ i \in DOMAIN egress /\ j \in DOMAIN egress
            /\ egress'[i] = egress[i] /\ egress'[j] = egress[j]
        BY <2>4, <2>5, <3>1
      <4> QED BY <1>0, <4>1 DEF Increasing
    <3>2. CASE i \in 1..E /\ j \in (E + 1)..(E + Len(d))
      <4>1. egress'[j] = admitted - L + (j - E)
        BY <2>8, <3>2
      <4> QED BY SMTT(30), <1>1, <2>4, <2>5, <2>6, <2>7, <3>2, <4>1
    <3>3. CASE i \in (E + 1)..(E + Len(d)) /\ j \in (E + 1)..(E + Len(d))
      <4>1. egress'[i] = admitted - L + (i - E) /\ egress'[j] = admitted - L + (j - E)
        BY <2>8, <3>3
      <4> QED BY <1>1, <2>4, <2>5, <2>6, <3>3, <4>1
    <3> QED BY <2>4, <2>5, <3>1, <3>2, <3>3
  <2>11. view'.queue # << >> => admitted' = offered'
    <3>1. view.queue = << >> => view'.queue = << >>
      BY <2>3, <2>4, <2>6 DEF L, GoodView, View
    <3> QED BY <2>1, <3>1 DEF SInv
  <2> QED BY <2>1, <2>3, <2>4, <2>5, <2>9, <2>10, <2>11 DEF SInv
<1>4. CASE MoveGate
  <2>1. /\ GoodView(view') /\ view'.queue \in {view.queue, << >>}
        /\ UNCHANGED << offered, admitted, egress >>
    BY <1>4, GateMoves
  <2>2. CASE view'.queue = view.queue
    BY <2>1, <2>2 DEF SInv
  <2>3. CASE view'.queue = << >>
    <3>1. \A i \in DOMAIN egress : egress[i] <= admitted
      BY <1>1 DEF SInv
    <3> QED BY <1>1, <2>1, <2>3, <3>1 DEF SInv, RunTo
  <2> QED BY <2>1, <2>2, <2>3
<1>5. CASE UNCHANGED sessionVars
  BY <1>5 DEF sessionVars, SInv
<1> QED BY <1>2, <1>3, <1>4, <1>5 DEF SessionNext

THEOREM SessionInvariance == SessionSpec => []SInv
<1>1. SessionInit => SInv
  BY SessionBegins
<1>2. SInv /\ [SessionNext]_sessionVars => SInv'
  BY SessionMoves
<1> QED BY <1>1, <1>2, PTL DEF SessionSpec

(* The queue never outgrows the cap and every field keeps its type.        *)
THEOREM SessionTypeCorrect == SessionSpec => []SessionTypeOK
<1>1. SInv => SessionTypeOK
  BY DEF SInv, GoodView, SessionTypeOK
<1> QED BY <1>1, SessionInvariance, PTL

(* Every frame the gate admitted is queued, sent, flushed or evicted, in   *)
(* whatever order the callers offer, drain and move the gate.              *)
THEOREM FrameAccounting == SessionSpec => []EveryFrameAccounted
<1>1. SInv => EveryFrameAccounted
  BY DEF SInv, GoodView, EveryFrameAccounted
<1> QED BY <1>1, SessionInvariance, PTL

(* No in-flight frame survives a gate close, whichever call closed it.     *)
THEOREM ShutGateIsEmpty == SessionSpec => []GateCloseFlushes
<1>1. SInv => GateCloseFlushes
  BY DEF SInv, GoodView, GateCloseFlushes
<1> QED BY <1>1, SessionInvariance, PTL

(* The queue is the newest run of admitted frames and the sender sees      *)
(* frames in capture order, each once (Offer's drop of the oldest).        *)
THEOREM FreshestFirst == SessionSpec => []FreshestSurvives
<1>1. ASSUME SInv PROVE FreshestSurvives
  <2> DEFINE q == view.queue
             c == egress \o q
  <2>1. /\ q \in Seq(Nat) /\ egress \in Seq(Nat) /\ admitted \in Int
        /\ \A i \in DOMAIN q : q[i] = admitted - Len(q) + i
    BY <1>1 DEF SInv, GoodView, View, RunTo
  <2> HIDE DEF q
  <2>2. /\ Len(q) \in Nat /\ Len(egress) \in Nat /\ DOMAIN q = 1..Len(q)
        /\ DOMAIN egress = 1..Len(egress) /\ DOMAIN c = 1..(Len(egress) + Len(q))
        /\ \A i \in 1..Len(egress) : c[i] = egress[i]
        /\ \A i \in (Len(egress) + 1)..(Len(egress) + Len(q)) : c[i] = q[i - Len(egress)]
    BY <2>1, ConcatProperties, LenProperties
  <2> DEFINE E == Len(egress)
             L == Len(q)
  <2> HIDE DEF E, L, c
  <2>3. \A i \in 1..E : c[i] \in Nat /\ c[i] <= admitted - L
    <3>1. \A i \in DOMAIN egress : egress[i] \in Nat /\ egress[i] <= admitted - Len(q)
      BY <1>1 DEF SInv, q
    <3> QED BY <2>2, <3>1 DEF E, L
  <2>4. ASSUME NEW i \in (E + 1)..(E + L) PROVE c[i] = admitted - L + (i - E)
    <3>1. i - E \in 1..L /\ c[i] = q[i - E]
      BY <2>2 DEF E, L
    <3> QED BY <2>1, <2>2, <3>1 DEF E, L
  <2>5. Increasing(c)
    <3> SUFFICES ASSUME NEW i \in DOMAIN c, NEW j \in DOMAIN c, i < j PROVE c[i] < c[j]
      BY DEF Increasing
    <3>0. E \in Nat /\ L \in Nat /\ DOMAIN c = 1..(E + L)
      BY <2>2 DEF E, L
    <3>1. CASE j \in 1..E
      <4>1. /\ i \in DOMAIN egress /\ j \in DOMAIN egress
            /\ c[i] = egress[i] /\ c[j] = egress[j]
        BY <2>2, <3>0, <3>1 DEF E, L
      <4> QED BY <1>1, <4>1 DEF SInv, Increasing
    <3>2. CASE i \in 1..E /\ j \in (E + 1)..(E + L)
      <4>1. c[j] = admitted - L + (j - E)
        BY <2>4, <3>2
      <4> QED BY <2>1, <2>3, <3>0, <3>2, <4>1
    <3>3. CASE i \in (E + 1)..(E + L) /\ j \in (E + 1)..(E + L)
      <4>1. c[i] = admitted - L + (i - E) /\ c[j] = admitted - L + (j - E)
        BY <2>4, <3>3
      <4> QED BY <2>1, <3>0, <3>3, <4>1
    <3> QED BY <3>0, <3>1, <3>2, <3>3
  <2> QED BY <2>1, <2>5 DEF FreshestSurvives, q, c
<1> QED BY <1>1, SessionInvariance, PTL

(* After a local abort no call reopens the gate and no frame is handed out.*)
THEOREM LocalAbortIsFinal == SessionSpec => AbortIsFinal
<1>1. SInv /\ [SessionNext]_sessionVars
      => [view.aborted => view'.aborted /\ egress' = egress]_sessionVars
  <2> SUFFICES ASSUME SInv, SessionNext, view.aborted
               PROVE  view'.aborted /\ egress' = egress
    OBVIOUS
  <2>1. view \in View
    BY DEF SInv, GoodView
  <2>2. CASE OfferFrame
    BY <2>1, <2>2 DEF OfferFrame, Offer, CanSend, View
  <2>3. CASE DrainFrames
    <3>1. PICK n \in 1..Cap :
            view' = Drain(view, n) /\ egress' = egress \o DrainedFrames(view, n)
      BY <2>3 DEF DrainFrames
    <3>2. DrainedFrames(view, n) = << >>
      BY <2>1 DEF DrainedFrames, DrainCount, View
    <3>3. view'.aborted
      BY <2>1, <3>1 DEF Drain, View
    <3>4. egress' = egress
      BY <3>1, <3>2 DEF SInv
    <3> QED BY <3>3, <3>4
  <2>4. CASE MoveGate
    BY <2>4, GateMoves
  <2> QED BY <2>2, <2>3, <2>4 DEF SessionNext
<1> QED BY <1>1, SessionInvariance, PTL DEF SessionSpec, AbortIsFinal
===============================================================================
