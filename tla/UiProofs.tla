-------------------------------- MODULE UiProofs --------------------------------
(* Proofs about the UI runtime, for any trees, inputs, widgets and queue bound. *)
EXTENDS Ui, SequenceTheorems, TLAPS

----------------------------------------------------------------------------
(* The message loop *)

\* A round of the loop begins and ends with an empty queue.
BatchesEnd == pc \in {"tick", "draw"} => queue = <<>>

\* At most one change of each input waits, and it carries the newest value.
ChangesAreNewest ==
  /\ \A i \in DOMAIN queue : queue[i].kind = "change" => queue[i].value = value[queue[i].widget]
  /\ \A i, j \in DOMAIN queue :
        queue[i].kind = "change" /\ queue[j].kind = "change" /\ queue[i].widget = queue[j].widget
          => i = j

\* What is remembered as hashed is what the widgets were built from.
BuiltFromHashed == shown = hashed.of

LoopInv == LoopTypeOK /\ BatchesEnd

\* Push replaces an event or appends one.
LEMMA PushCases ==
  ASSUME NEW q \in Seq(Events), NEW e \in Events
  PROVE  /\ Push(q, e) \in Seq(Events)
         /\ Len(Push(q, e)) \in {Len(q), Len(q) + 1}
         /\ \/ /\ Push(q, e) = Append(q, e)
               /\ e.kind = "change" =>
                    \A i \in DOMAIN q : q[i].kind = "change" => q[i].widget # e.widget
            \/ \E i \in DOMAIN q :
                 /\ e.kind = "change" /\ q[i].kind = "change" /\ q[i].widget = e.widget
                 /\ Push(q, e) = [q EXCEPT ![i] = e]
<1> DEFINE Same(i) == q[i].kind = "change" /\ q[i].widget = e.widget
<1>1. CASE e.kind = "change" /\ \E i \in DOMAIN q : Same(i)
  <2> DEFINE k == CHOOSE i \in DOMAIN q : Same(i)
  <2>1. k \in DOMAIN q /\ Same(k)
    BY <1>1
  <2>2. Push(q, e) = [q EXCEPT ![k] = e]
    BY <1>1 DEF Push
  <2> HIDE DEF k
  <2>3. [q EXCEPT ![k] = e] \in Seq(Events) /\ Len([q EXCEPT ![k] = e]) = Len(q)
    BY <2>1, ExceptSeq
  <2>4. Len(Push(q, e)) \in {Len(q), Len(q) + 1}
    BY <2>2, <2>3
  <2> QED
    BY <1>1, <2>1, <2>2, <2>3, <2>4
<1>2. CASE ~(e.kind = "change" /\ \E i \in DOMAIN q : Same(i))
  BY <1>2 DEF Push
<1> QED
  BY <1>1, <1>2

LEMMA PushGrowsByOne ==
  ASSUME NEW q \in Seq(Events), NEW e \in Events, NEW n \in Nat, Len(q) <= n
  PROVE  Push(q, e) \in Seq(Events) /\ Len(Push(q, e)) <= n + 1
<1>1. /\ Push(q, e) \in Seq(Events) /\ Len(q) \in Nat
      /\ Len(Push(q, e)) = Len(q) \/ Len(Push(q, e)) = Len(q) + 1
  BY PushCases
<1> QED
  BY <1>1

LEMMA EventFacts ==
  /\ \A w \in Inputs, v \in {0, 1} :
       /\ Change(w, v) \in Events
       /\ Change(w, v).kind = "change" /\ Change(w, v).widget = w /\ Change(w, v).value = v
  /\ \A k \in {"other", "dialog"} : [kind |-> k] \in Events /\ [kind |-> k].kind = k
  /\ \A e \in Events : e.kind = "change" => e.widget \in Inputs /\ e.value \in {0, 1}
BY DEF Events, Change

LEMMA DescriptorFacts ==
  ASSUME NEW d \in Descriptors \cup {None}
  PROVE  d.at \in Addresses \cup {NoTree} /\ d.of \in Trees \cup {NoTree}
BY LoopAssumption DEF None

LEMMA LoopStarts == LoopInit => LoopInv
<1> SUFFICES ASSUME LoopInit PROVE LoopInv
  OBVIOUS
<1>1. last.at \in Addresses \cup {NoTree} /\ last.of \in Trees \cup {NoTree}
  BY DescriptorFacts DEF LoopInit
<1>2. hashed \in [at : Addresses \cup {NoTree}, of : Trees \cup {NoTree}, zero : BOOLEAN]
  BY <1>1 DEF LoopInit
<1>3. queue \in Seq(Events) /\ Len(queue) <= MaxQueue + 1
  BY LoopAssumption DEF LoopInit
<1>4. value \in [Inputs -> {0, 1}] /\ seen \in [Inputs -> {0, 1}]
  BY DEF LoopInit
<1>5. BatchesEnd
  BY DEF LoopInit, BatchesEnd
<1>6. last \in Descriptors \cup {None} /\ shown \in Trees \cup {NoTree}
  BY <1>1 DEF LoopInit
<1>7. /\ pc \in {"tick", "poll", "batch", "script", "draw", "end"}
      /\ {redraw, rebuilt, burst, sizeDrawn, quit} \subseteq BOOLEAN
      /\ dialog \in {"none", "open", "closing"} /\ anim \in {"unset", "anchored", "shown"}
  BY DEF LoopInit
<1> QED
  BY <1>2, <1>3, <1>4, <1>5, <1>6, <1>7 DEF LoopInv, LoopTypeOK

LEMMA LoopInvKept == ASSUME LoopInv, [LoopNext]_loop_vars PROVE LoopInv'
<1> USE LoopAssumption DEF LoopInv, BatchesEnd
<1>1. CASE Faded
  <2>1. queue = <<>>
    BY <1>1 DEF Faded
  <2>2. queue' \in Seq(Events) /\ Len(queue') <= MaxQueue + 1
    <3> DEFINE e == [kind |-> "dialog"]
    <3>1. e \in Events /\ queue \in Seq(Events) /\ queue' = Push(queue, e)
      BY <1>1, EventFacts DEF Faded, LoopTypeOK
    <3>2. Len(queue) <= MaxQueue
      <4>1. Len(queue) = 0
        BY <2>1
      <4> QED
        BY <4>1
    <3> HIDE DEF e
    <3> QED
      BY <3>1, <3>2, PushGrowsByOne
  <2> QED
    BY <1>1, <2>2 DEF Faded, LoopTypeOK, tree_vars, size_vars, fade_vars, value_vars
<1>2. ASSUME NEW w \in Inputs, InputChanges(w) PROVE LoopInv'
  <2>1. value'[w] \in {0, 1} /\ value' \in [Inputs -> {0, 1}]
    BY <1>2 DEF InputChanges, LoopTypeOK
  <2>2. queue' \in Seq(Events) /\ Len(queue') <= MaxQueue + 1
    <3> DEFINE e == Change(w, value'[w])
    <3>1. e \in Events /\ queue \in Seq(Events) /\ queue' = Push(queue, e)
      BY <1>2, <2>1, EventFacts DEF InputChanges, LoopTypeOK
    <3>2. Len(queue) < MaxQueue /\ Len(queue) \in Nat
      BY <1>2, <3>1, LenProperties DEF InputChanges, Polling
    <3> HIDE DEF e
    <3> QED
      BY <3>1, <3>2, PushGrowsByOne
  <2> QED
    BY <1>2, <2>1, <2>2 DEF InputChanges, Polling, LoopTypeOK, tree_vars, size_vars, fade_vars
<1>3. CASE OtherEvent \/ CloseWindow
  <2>1. queue' \in Seq(Events) /\ Len(queue') <= MaxQueue + 1
    <3> DEFINE e == [kind |-> "other"]
    <3>1. e \in Events /\ queue \in Seq(Events) /\ queue' = Push(queue, e)
      BY <1>3, EventFacts DEF OtherEvent, CloseWindow, LoopTypeOK
    <3>2. Len(queue) < MaxQueue /\ Len(queue) \in Nat
      BY <1>3, <3>1, LenProperties DEF OtherEvent, CloseWindow, Polling
    <3> HIDE DEF e
    <3> QED
      BY <3>1, <3>2, PushGrowsByOne
  <2> QED
    BY <1>3, <2>1 DEF OtherEvent, CloseWindow, Polling, LoopTypeOK, tree_vars, size_vars, fade_vars, value_vars
<1>4. CASE Deliver
  <2>1. /\ Head(queue) \in Events /\ Tail(queue) \in Seq(Events)
        /\ Len(Tail(queue)) <= MaxQueue + 1
    BY <1>4, HeadTailProperties DEF Deliver, LoopTypeOK
  <2>2. seen' \in [Inputs -> {0, 1}]
    BY <1>4, <2>1, EventFacts DEF Deliver, LoopTypeOK
  <2> QED
    BY <1>4, <2>1, <2>2 DEF Deliver, LoopTypeOK, tree_vars, size_vars, fade_vars
<1>5. CASE Tick
  BY <1>5 DEF Tick, LoopTypeOK, tree_vars, size_vars, fade_vars, value_vars
<1>6. CASE ChooseAnswer \/ Expose \/ Resize
  BY <1>6 DEF ChooseAnswer, Expose, Resize, Polling, LoopTypeOK, tree_vars, size_vars, fade_vars, value_vars
<1>7. CASE EndPump \/ EndBatch
  BY <1>7 DEF EndPump, EndBatch, LoopTypeOK, tree_vars, size_vars, fade_vars, value_vars
<1>8. ASSUME NEW d \in Descriptors \cup {None}, Render(d) PROVE LoopInv'
  BY <1>8 DEF Render, LoopTypeOK, size_vars, fade_vars, value_vars
<1>9. CASE OpenDialog \/ Shutdown \/ ReturnNone
  BY <1>9 DEF OpenDialog, Shutdown, ReturnNone, AfterHandler, LoopTypeOK, tree_vars, size_vars, fade_vars, value_vars
<1>10. ASSUME NEW d \in Descriptors, ReturnTree(d) PROVE LoopInv'
  BY <1>10 DEF ReturnTree, AfterHandler, LoopTypeOK, size_vars, fade_vars, value_vars
<1>11. CASE RebuildAndDraw
  <2>1. last.at \in Addresses \cup {NoTree} /\ last.of \in Trees \cup {NoTree}
    BY DescriptorFacts DEF LoopTypeOK
  <2>2. /\ hashed' \in [at : Addresses \cup {NoTree}, of : Trees \cup {NoTree}, zero : BOOLEAN]
        /\ shown' \in Trees \cup {NoTree}
    <3>1. CASE CanReuse
      BY <1>11, <3>1 DEF RebuildAndDraw, LoopTypeOK
    <3>2. CASE ~CanReuse
      <4>1. /\ shown' = last.of
            /\ hashed' = [at |-> last.at, of |-> last.of, zero |-> last = None]
        BY <1>11, <3>2 DEF RebuildAndDraw
      <4>2. (last = None) \in BOOLEAN
        OBVIOUS
      <4> QED
        BY <2>1, <4>1, <4>2
    <3> QED
      BY <3>1, <3>2
  <2> QED
    BY <1>11, <2>2 DEF RebuildAndDraw, LoopTypeOK, size_vars, fade_vars, value_vars
<1>12. CASE SkipInBurst \/ NothingToDraw
  BY <1>12 DEF SkipInBurst, NothingToDraw, LoopTypeOK, tree_vars, size_vars, fade_vars, value_vars
<1>13. CASE Ended \/ UNCHANGED loop_vars
  BY <1>13 DEF Ended, LoopTypeOK, loop_vars, tree_vars, size_vars, fade_vars, value_vars
<1> QED
  BY <1>1, <1>2, <1>3, <1>4, <1>5, <1>6, <1>7, <1>8, <1>9, <1>10, <1>11, <1>12, <1>13
  DEF LoopNext, HandlerEnds

LEMMA HashedKept == ASSUME LoopTypeOK, BuiltFromHashed, [LoopNext]_loop_vars PROVE BuiltFromHashed'
<1>1. CASE RebuildAndDraw
  BY <1>1 DEF RebuildAndDraw, BuiltFromHashed
<1>2. CASE UNCHANGED <<hashed, shown>>
  BY <1>2 DEF BuiltFromHashed
<1> QED
  BY <1>1, <1>2
  DEF LoopNext, HandlerEnds, Tick, Faded, InputChanges, OtherEvent, ChooseAnswer, Expose, Resize,
      CloseWindow, EndPump, Deliver, Render, OpenDialog, Shutdown, ReturnNone, ReturnTree, EndBatch,
      SkipInBurst, NothingToDraw, Ended, loop_vars, tree_vars

\* A repaint leaves the last descriptor on the screen; whatever stages another asks for a repaint.
LEMMA ScreenKept ==
  ASSUME LoopTypeOK, BuiltFromHashed, ScreenShowsTree, [LoopNext]_loop_vars
  PROVE  ScreenShowsTree'
<1>1. CASE RebuildAndDraw
  <2>1. CASE CanReuse
    <3>1. UNCHANGED <<last, hashed, shown>>
      BY <1>1, <2>1 DEF RebuildAndDraw
    <3>2. shown = hashed.of
      BY DEF BuiltFromHashed
    <3>3. CASE last.at = hashed.at
      BY <3>1, <3>2, <3>3 DEF ScreenShowsTree
    <3>4. CASE SameDigest(last.of, hashed.of)
      <4>1. SameDigest(shown, last.of)
        BY <3>2, <3>4 DEF SameDigest
      <4>2. SameDigest(shown', last'.of)
        BY <3>1, <4>1
      <4> QED
        BY <4>2 DEF ScreenShowsTree
    <3> QED
      BY <2>1, <3>3, <3>4 DEF CanReuse
  <2>2. CASE ~CanReuse
    BY <1>1, <2>2 DEF RebuildAndDraw, ScreenShowsTree
  <2> QED
    BY <2>1, <2>2
<1>2. CASE redraw'
  BY <1>2 DEF ScreenShowsTree
<1>3. CASE quit'
  BY <1>3 DEF ScreenShowsTree
<1>4. CASE UNCHANGED <<last, hashed, shown, redraw, quit>>
  BY <1>4 DEF ScreenShowsTree
<1>5. CASE Tick \/ OtherEvent
  <2>1. UNCHANGED <<last, hashed, shown, quit>>
    BY <1>5 DEF Tick, OtherEvent, tree_vars
  <2>2. redraw \in BOOLEAN
    BY DEF LoopTypeOK
  <2>3. (redraw' = redraw) \/ (redraw' = TRUE)
    BY <1>5, <2>2, Zenon DEF Tick, OtherEvent
  <2> QED
    BY <1>2, <1>4, <2>1, <2>3
<1>6. CASE \/ Faded \/ ChooseAnswer \/ Expose \/ Resize \/ OpenDialog
           \/ \E w \in Inputs : InputChanges(w)
           \/ \E d \in Descriptors \cup {None} : Render(d)
           \/ \E d \in Descriptors : ReturnTree(d)
  BY <1>2, <1>6 DEF Faded, ChooseAnswer, Expose, Resize, OpenDialog, InputChanges, Render, ReturnTree
<1>7. CASE CloseWindow \/ Shutdown
  BY <1>3, <1>7 DEF CloseWindow, Shutdown
<1>8. CASE EndPump \/ Deliver \/ ReturnNone \/ EndBatch \/ SkipInBurst \/ NothingToDraw
           \/ Ended \/ UNCHANGED loop_vars
  BY <1>4, <1>8
  DEF EndPump, Deliver, ReturnNone, EndBatch, SkipInBurst, NothingToDraw, Ended, loop_vars, tree_vars
<1> QED
  BY <1>1, <1>5, <1>6, <1>7, <1>8 DEF LoopNext, HandlerEnds

\* Appending something that is no change, or the first change of its input, or replacing the one
\* that waits.
LEMMA PushKeepsNewest ==
  ASSUME NEW q \in Seq(Events), NEW e \in Events, NEW new \in [Inputs -> {0, 1}],
         \A i, j \in DOMAIN q :
            q[i].kind = "change" /\ q[j].kind = "change" /\ q[i].widget = q[j].widget => i = j,
         \A i \in DOMAIN q : q[i].kind = "change" =>
            \/ q[i].value = new[q[i].widget]
            \/ e.kind = "change" /\ e.widget = q[i].widget,
         e.kind = "change" => e.value = new[e.widget]
  PROVE  LET p == Push(q, e)
         IN  /\ \A i \in DOMAIN p : p[i].kind = "change" => p[i].value = new[p[i].widget]
             /\ \A i, j \in DOMAIN p :
                   p[i].kind = "change" /\ p[j].kind = "change" /\ p[i].widget = p[j].widget => i = j
             /\ \A w \in Inputs : (\E i \in DOMAIN p : p[i].kind = "change" /\ p[i].widget = w)
                  <=> \/ \E i \in DOMAIN q : q[i].kind = "change" /\ q[i].widget = w
                      \/ e.kind = "change" /\ e.widget = w
<1> DEFINE p == Push(q, e)
<1>1. CASE /\ p = Append(q, e)
           /\ e.kind = "change" => \A i \in DOMAIN q : q[i].kind = "change" => q[i].widget # e.widget
  <2>1. /\ DOMAIN p = DOMAIN q \cup {Len(q) + 1} /\ DOMAIN q = 1 .. Len(q) /\ Len(q) \in Nat
        /\ \A i \in DOMAIN q : p[i] = q[i]
        /\ p[Len(q) + 1] = e
    BY <1>1, AppendProperties
  <2> HIDE DEF p
  <2>2. \A i \in DOMAIN p : p[i].kind = "change" => p[i].value = new[p[i].widget]
    BY <1>1, <2>1
  <2>3. \A i, j \in DOMAIN p :
          p[i].kind = "change" /\ p[j].kind = "change" /\ p[i].widget = p[j].widget => i = j
    BY <1>1, <2>1
  <2>4. \A w \in Inputs : (\E i \in DOMAIN p : p[i].kind = "change" /\ p[i].widget = w)
          <=> \/ \E i \in DOMAIN q : q[i].kind = "change" /\ q[i].widget = w
              \/ e.kind = "change" /\ e.widget = w
    BY <2>1
  <2> QED
    BY <2>2, <2>3, <2>4 DEF p
<1>2. ASSUME NEW k \in DOMAIN q, e.kind = "change", q[k].kind = "change", q[k].widget = e.widget,
             p = [q EXCEPT ![k] = e]
      PROVE  /\ \A i \in DOMAIN p : p[i].kind = "change" => p[i].value = new[p[i].widget]
             /\ \A i, j \in DOMAIN p :
                   p[i].kind = "change" /\ p[j].kind = "change" /\ p[i].widget = p[j].widget => i = j
             /\ \A w \in Inputs : (\E i \in DOMAIN p : p[i].kind = "change" /\ p[i].widget = w)
                  <=> \/ \E i \in DOMAIN q : q[i].kind = "change" /\ q[i].widget = w
                      \/ e.kind = "change" /\ e.widget = w
  <2>1. DOMAIN p = DOMAIN q /\ p[k] = e /\ \A i \in DOMAIN q : i # k => p[i] = q[i]
    BY <1>2
  <2> HIDE DEF p
  <2>2. \A i \in DOMAIN p : p[i].kind = "change" => p[i].value = new[p[i].widget]
    BY <1>2, <2>1
  <2>3. \A i, j \in DOMAIN p :
          p[i].kind = "change" /\ p[j].kind = "change" /\ p[i].widget = p[j].widget => i = j
    BY <1>2, <2>1
  <2>4. \A w \in Inputs : (\E i \in DOMAIN p : p[i].kind = "change" /\ p[i].widget = w)
          <=> \/ \E i \in DOMAIN q : q[i].kind = "change" /\ q[i].widget = w
              \/ e.kind = "change" /\ e.widget = w
    BY <1>2, <2>1
  <2> QED
    BY <2>2, <2>3, <2>4
<1> QED
  BY <1>1, <1>2, PushCases

NewestInv == ChangesAreNewest /\ HandlerSeesLatest

LEMMA NewestKept ==
  ASSUME LoopTypeOK, LoopTypeOK', NewestInv, [LoopNext]_loop_vars
  PROVE  NewestInv'
<1> USE DEF NewestInv
<1>1. ASSUME NEW w \in Inputs, InputChanges(w) PROVE NewestInv'
  <2> DEFINE e == Change(w, value'[w])
  <2>1. /\ e \in Events /\ e.kind = "change" /\ e.widget = w /\ e.value = value'[w]
        /\ queue \in Seq(Events) /\ queue' = Push(queue, e) /\ seen' = seen
        /\ value' \in [Inputs -> {0, 1}] /\ \A x \in Inputs \ {w} : value'[x] = value[x]
    BY <1>1, EventFacts DEF InputChanges, LoopTypeOK
  <2> HIDE DEF e
  <2>2. \A i \in DOMAIN queue : queue[i].kind = "change" =>
           \/ queue[i].value = value'[queue[i].widget]
           \/ e.kind = "change" /\ e.widget = queue[i].widget
    <3> SUFFICES ASSUME NEW i \in DOMAIN queue, queue[i].kind = "change", queue[i].widget # w
                 PROVE  queue[i].value = value'[queue[i].widget]
      BY <2>1
    <3>1. queue[i].widget \in Inputs
      BY <2>1, EventFacts, ElementOfSeq
    <3> QED
      BY <2>1, <3>1 DEF ChangesAreNewest
  <2>3. /\ ChangesAreNewest'
        /\ \A x \in Inputs : (\E i \in DOMAIN queue' : queue'[i].kind = "change" /\ queue'[i].widget = x)
             <=> \/ \E i \in DOMAIN queue : queue[i].kind = "change" /\ queue[i].widget = x
                 \/ x = w
    BY <2>1, <2>2, PushKeepsNewest DEF ChangesAreNewest
  <2> QED
    BY <2>1, <2>3 DEF HandlerSeesLatest
<1>2. ASSUME NEW e \in Events, e.kind # "change", queue' = Push(queue, e), UNCHANGED value_vars
      PROVE  NewestInv'
  <2>1. /\ ChangesAreNewest'
        /\ \A x \in Inputs : (\E i \in DOMAIN queue' : queue'[i].kind = "change" /\ queue'[i].widget = x)
             <=> \E i \in DOMAIN queue : queue[i].kind = "change" /\ queue[i].widget = x
    <3>1. queue \in Seq(Events) /\ value \in [Inputs -> {0, 1}] /\ value' = value
      BY <1>2 DEF LoopTypeOK, value_vars
    <3>2. \A i \in DOMAIN queue : queue[i].kind = "change" =>
             \/ queue[i].value = value[queue[i].widget]
             \/ e.kind = "change" /\ e.widget = queue[i].widget
      BY DEF ChangesAreNewest
    <3> QED
      BY <1>2, <3>1, <3>2, PushKeepsNewest DEF ChangesAreNewest
  <2> QED
    BY <1>2, <2>1 DEF HandlerSeesLatest, value_vars
<1>3. CASE Deliver
  <2>1. /\ queue \in Seq(Events) /\ queue # <<>> /\ queue' = Tail(queue) /\ value' = value
        /\ seen' = IF Head(queue).kind = "change"
                     THEN [seen EXCEPT ![Head(queue).widget] = Head(queue).value]
                     ELSE seen
    BY <1>3 DEF Deliver, LoopTypeOK
  <2>2. /\ Head(queue) \in Events /\ Head(queue) = queue[1] /\ 1 \in DOMAIN queue
        /\ \A i \in DOMAIN Tail(queue) : i + 1 \in DOMAIN queue /\ Tail(queue)[i] = queue[i + 1]
                                         /\ i \in Nat
        /\ \A i \in DOMAIN queue : i # 1 => i - 1 \in DOMAIN Tail(queue) /\ Tail(queue)[i - 1] = queue[i]
    BY <2>1, HeadTailProperties
  <2>3. ChangesAreNewest'
    BY <2>1, <2>2 DEF ChangesAreNewest
  <2>4. ASSUME NEW w \in Inputs,
               \A i \in DOMAIN queue' : queue'[i].kind = "change" => queue'[i].widget # w
        PROVE  seen'[w] = value'[w]
    <3>1. \A i \in DOMAIN queue : i # 1 /\ queue[i].kind = "change" => queue[i].widget # w
      <4> SUFFICES ASSUME NEW i \in DOMAIN queue, i # 1, queue[i].kind = "change"
                   PROVE  queue[i].widget # w
        OBVIOUS
      <4>1. i - 1 \in DOMAIN queue' /\ queue'[i - 1] = queue[i]
        BY <2>1, <2>2
      <4> QED
        BY <2>4, <4>1
    <3>2. CASE Head(queue).kind = "change" /\ Head(queue).widget = w
      BY <2>1, <2>2, <3>2 DEF ChangesAreNewest, LoopTypeOK
    <3>3. CASE ~(Head(queue).kind = "change" /\ Head(queue).widget = w)
      <4>1. \A i \in DOMAIN queue : queue[i].kind = "change" => queue[i].widget # w
        BY <2>2, <3>1, <3>3
      <4> QED
        BY <2>1, <3>3, <4>1 DEF HandlerSeesLatest, LoopTypeOK
    <3> QED
      BY <3>2, <3>3
  <2> QED
    BY <2>3, <2>4 DEF HandlerSeesLatest
<1>4. CASE UNCHANGED <<queue, value, seen>>
  BY <1>4 DEF ChangesAreNewest, HandlerSeesLatest
<1>5. CASE Faded \/ OtherEvent \/ CloseWindow
  <2>1. /\ \/ queue' = Push(queue, [kind |-> "dialog"])
           \/ queue' = Push(queue, [kind |-> "other"])
        /\ UNCHANGED value_vars
    BY <1>5 DEF Faded, OtherEvent, CloseWindow
  <2> QED
    BY <1>2, <2>1, EventFacts
<1> QED
  BY <1>1, <1>3, <1>4, <1>5
  DEF LoopNext, HandlerEnds, Tick, ChooseAnswer, Expose, Resize, EndPump, Render, OpenDialog, Shutdown,
      ReturnNone, ReturnTree, EndBatch, RebuildAndDraw, SkipInBurst, NothingToDraw, Ended, loop_vars,
      value_vars

----------------------------------------------------------------------------
(* Gestures *)

\* A panel that is being resized was pressed at its edge, which presses no widget.
EdgePressesNothing == ~swallowed /\ edge => pressed = {}

GestureInv == PointerTypeOK /\ GestureFollowsPress /\ EdgePressesNothing /\ OneMenuOnTop

LEMMA PointerStarts == PointerInit => GestureInv
BY DEF PointerInit, GestureInv, PointerTypeOK, Live, GestureFollowsPress, EdgePressesNothing, OneMenuOnTop

LEMMA PointerTypesKept == ASSUME PointerTypeOK, [PointerNext]_pointer_vars PROVE PointerTypeOK'
<1> USE PointerAssumption
    DEF PointerTypeOK, Live, gesture_vars, focus_vars, dialog_vars, menu_vars, button_vars
<1>1. CASE UNCHANGED pointer_vars
  BY <1>1 DEF pointer_vars
<1> SUFFICES ASSUME PointerStep, swallowed' \in BOOLEAN PROVE PointerTypeOK'
  BY <1>1 DEF PointerNext, Leftover
<1>2. CASE PressContextMenu \/ PressContextMenuRight \/ PressDialog \/ PressDropdown
  BY <1>2 DEF PressContextMenu, PressContextMenuRight, PressDialog, PressDropdown, ButtonDown, Press
<1>3. ASSUME NEW menu \in {"menu", "overflow"}, PressMenuLabel(menu) \/ MoveToLabel(menu)
      PROVE  PointerTypeOK'
  BY <1>3 DEF PressMenuLabel, MoveToLabel, ButtonDown, Press
<1>4. ASSUME NEW panel \in Widgets, PressEdge(panel) PROVE PointerTypeOK'
  BY <1>4 DEF PressEdge, Press
<1>5. CASE PressTitleButton \/ PressNothing
  BY <1>5 DEF PressTitleButton, PressNothing, ButtonDown, Press
<1>6. ASSUME NEW w \in Widgets, PressWidget(w) PROVE PointerTypeOK'
  BY <1>6 DEF PressWidget, ButtonDown, Press
<1>7. CASE ReleaseDialog \/ ReleaseTitleButton \/ ReleaseEdge \/ Release
  BY <1>7 DEF ReleaseDialog, ReleaseTitleButton, ReleaseEdge, Release, ButtonUp
<1>8. ASSUME NEW w \in Widgets \cup {Nobody}, Hover(w) PROVE PointerTypeOK'
  BY <1>8 DEF Hover
<1>9. CASE Escape \/ TabKey \/ Wheel
  BY <1>9 DEF Escape, TabKey, Wheel
<1>10. ASSUME NEW layout \in Layouts, Rebuild(layout) PROVE PointerTypeOK'
  BY <1>10 DEF Rebuild
<1>11. CASE ShowDialog \/ ShowContextMenu \/ SetMenubar \/ FinishClose
  BY <1>11 DEF ShowDialog, ShowContextMenu, SetMenubar, FinishClose
<1> QED
  BY <1>2, <1>3, <1>4, <1>5, <1>6, <1>7, <1>8, <1>9, <1>10, <1>11 DEF PointerStep

\* Only presses and releases begin and end a gesture; a rebuild may take it away.
LEMMA GesturesKept ==
  ASSUME PointerTypeOK, GestureFollowsPress, EdgePressesNothing, [PointerNext]_pointer_vars
  PROVE  GestureFollowsPress' /\ EdgePressesNothing'
<1> USE DEF GestureFollowsPress, EdgePressesNothing, gesture_vars, button_vars
<1>1. CASE UNCHANGED pointer_vars
  BY <1>1 DEF pointer_vars
<1> SUFFICES ASSUME PointerStep, swallowed' = ((swallowed \/ Swallow) /\ Leftover'), ~swallowed'
             PROVE  GestureFollowsPress' /\ EdgePressesNothing'
  BY <1>1 DEF PointerNext
<1>2. CASE ~Leftover'
  BY <1>2 DEF Leftover
<1>3. CASE ~swallowed /\ ~Swallow
  <2>1. CASE UNCHANGED <<gesture_vars, button_vars>>
    BY <1>3, <2>1
  <2>2. CASE \/ PressContextMenu \/ PressDialog \/ PressDropdown \/ PressTitleButton \/ PressNothing
             \/ \E menu \in {"menu", "overflow"} : PressMenuLabel(menu)
    BY <1>3, <2>2 DEF PressContextMenu, PressDialog, PressDropdown, PressTitleButton, PressNothing,
                      PressMenuLabel, ButtonDown, Press
  <2>3. ASSUME NEW panel \in Widgets, PressEdge(panel) PROVE GestureFollowsPress' /\ EdgePressesNothing'
    BY <1>3, <2>3, PointerAssumption DEF PressEdge, Press
  <2>4. ASSUME NEW w \in Widgets, PressWidget(w) PROVE GestureFollowsPress' /\ EdgePressesNothing'
    BY <1>3, <2>4, PointerAssumption DEF PressWidget, ButtonDown, Press
  <2>5. CASE ReleaseDialog \/ ReleaseTitleButton
    BY <1>3, <2>5 DEF ReleaseDialog, ReleaseTitleButton, ButtonUp, Swallow
  <2>6. CASE ReleaseEdge \/ Release
    BY <1>3, <2>6, PointerAssumption DEF ReleaseEdge, Release, ButtonUp, Swallow, PanelDragged
  <2>7. ASSUME NEW layout \in Layouts, Rebuild(layout)
        PROVE  GestureFollowsPress' /\ EdgePressesNothing'
    BY <1>3, <2>7, PointerAssumption DEF Rebuild
  <2> QED
    BY <2>1, <2>2, <2>3, <2>4, <2>5, <2>6, <2>7
    DEF PointerStep, PressContextMenuRight, MoveToLabel, Hover, Escape, TabKey, Wheel, ShowDialog,
        ShowContextMenu, SetMenubar, FinishClose
<1> QED
  BY <1>2, <1>3

\* The user can open a menu only while nothing covers the tree; the script closes what it covers.
LEMMA MenusKept ==
  ASSUME PointerTypeOK, OneMenuOnTop, [PointerNext]_pointer_vars
  PROVE  OneMenuOnTop'
<1> USE DEF OneMenuOnTop, dialog_vars, menu_vars, Uncovered
<1>1. CASE UNCHANGED <<context_menu, modal, open_menu>>
  BY <1>1
<1>2. CASE PressContextMenu \/ PressContextMenuRight
  BY <1>2 DEF PressContextMenu, PressContextMenuRight
<1>3. CASE ~context_menu'
  BY <1>3
<1>4. CASE ShowContextMenu
  BY <1>4 DEF ShowContextMenu, PointerTypeOK
<1>5. CASE SetMenubar \/ FinishClose
  BY <1>5 DEF SetMenubar, FinishClose
<1>6. CASE Escape
  BY <1>6 DEF Escape
<1>7. CASE ReleaseDialog
  BY <1>7 DEF ReleaseDialog
<1>8. CASE \/ \E menu \in {"menu", "overflow"} : PressMenuLabel(menu) \/ MoveToLabel(menu)
           \/ \E panel \in Widgets : PressEdge(panel)
           \/ \E w \in Widgets : PressWidget(w)
           \/ PressDropdown \/ PressTitleButton \/ PressNothing
  BY <1>3, <1>8 DEF PressMenuLabel, MoveToLabel, PressEdge, PressWidget, PressDropdown,
                    PressTitleButton, PressNothing
<1>9. CASE \/ PressDialog \/ ReleaseTitleButton \/ ReleaseEdge \/ Release \/ TabKey \/ Wheel \/ ShowDialog
           \/ \E w \in Widgets \cup {Nobody} : Hover(w)
           \/ \E layout \in Layouts : Rebuild(layout)
  BY <1>1, <1>3, <1>9 DEF PressDialog, ReleaseTitleButton, ReleaseEdge, Release, TabKey, Wheel, ShowDialog,
                          Hover, Rebuild
<1>10. CASE UNCHANGED pointer_vars
  BY <1>1, <1>10 DEF pointer_vars
<1> QED
  BY <1>2, <1>4, <1>5, <1>6, <1>7, <1>8, <1>9, <1>10 DEF PointerNext, PointerStep

----------------------------------------------------------------------------
(* The runtime *)

LEMMA Steps ==
  [LoopStep \/ GestureStep]_ui_vars => [LoopNext]_loop_vars /\ [PointerNext]_pointer_vars
BY DEF LoopStep, GestureStep, LoopAtRest, ui_vars

\* The queue is typed, identifiers name live widgets, and exactly the hovered widget is drawn so.
THEOREM UiTypes == UiSpec => []UiTypeOK
<1>1. UiInit => LoopInv /\ GestureInv
  BY LoopStarts, PointerStarts DEF UiInit
<1>2. LoopInv /\ PointerTypeOK /\ [LoopStep \/ GestureStep]_ui_vars => (LoopInv /\ PointerTypeOK)'
  BY Steps, LoopInvKept, PointerTypesKept
<1>3. LoopInv /\ PointerTypeOK => UiTypeOK
  BY DEF LoopInv, UiTypeOK
<1>4. GestureInv => PointerTypeOK
  BY DEF GestureInv
<1> QED
  BY <1>1, <1>2, <1>3, <1>4, PTL DEF UiSpec

\* Between repaints the screen shows the last descriptor, except one that the hash does not tell
\* from the tree shown, or that lies at the address of the tree that was hashed (ui_runtime.c 33-37).
THEOREM ScreenCorrect == UiSpec => []ScreenShowsTree
<1>1. UiInit => BuiltFromHashed /\ ScreenShowsTree
  BY DEF UiInit, LoopInit, BuiltFromHashed, ScreenShowsTree
<1>2. UiTypeOK /\ UiTypeOK' /\ BuiltFromHashed /\ ScreenShowsTree /\ [LoopStep \/ GestureStep]_ui_vars
        => (BuiltFromHashed /\ ScreenShowsTree)'
  BY Steps, HashedKept, ScreenKept DEF UiTypeOK
<1> QED
  BY <1>1, <1>2, UiTypes, PTL DEF UiSpec

\* However changes are merged in the queue (ui_events.c 15), the script ends up with the newest.
THEOREM HandlerCorrect == UiSpec => []HandlerSeesLatest
<1>1. UiInit => NewestInv
  BY DEF UiInit, LoopInit, NewestInv, ChangesAreNewest, HandlerSeesLatest
<1>2. UiTypeOK /\ UiTypeOK' /\ NewestInv /\ [LoopStep \/ GestureStep]_ui_vars => NewestInv'
  BY Steps, NewestKept DEF UiTypeOK
<1>3. NewestInv => HandlerSeesLatest
  BY DEF NewestInv
<1> QED
  BY <1>1, <1>2, <1>3, UiTypes, PTL DEF UiSpec

\* What is pressed or dragged is what the present press hit, whatever kind of widget its id names
\* by now, except after a release that a dialog, a titlebar button or a panel with the id of the
\* pressed field took (ui_handle.c 739, 745, 790).
THEOREM GesturesCorrect == UiSpec => []GestureFollowsPress
<1>1. UiInit => GestureFollowsPress /\ EdgePressesNothing
  BY PointerStarts DEF UiInit, GestureInv
<1>2. /\ UiTypeOK /\ GestureFollowsPress /\ EdgePressesNothing /\ [LoopStep \/ GestureStep]_ui_vars
      => (GestureFollowsPress /\ EdgePressesNothing)'
  BY Steps, GesturesKept DEF UiTypeOK
<1> QED
  BY <1>1, <1>2, UiTypes, PTL DEF UiSpec

\* A context menu is never open over a dialog or beside a menu of the menu bar
\* (ui_context_menu.c 33 and 67, ui_dialog.c 53).
THEOREM MenusCorrect == UiSpec => []OneMenuOnTop
<1>1. UiInit => OneMenuOnTop
  BY PointerStarts DEF UiInit, GestureInv
<1>2. UiTypeOK /\ OneMenuOnTop /\ [LoopStep \/ GestureStep]_ui_vars => OneMenuOnTop'
  BY Steps, MenusKept DEF UiTypeOK
<1> QED
  BY <1>1, <1>2, UiTypes, PTL DEF UiSpec
=============================================================================
