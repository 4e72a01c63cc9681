--------------------------------- MODULE UiLoop ---------------------------------
(***************************************************************************)
(* The message loop of `ui.run`: pump window events into a queue, give     *)
(* each to the script's handler, and rebuild the widget tree once for the  *)
(* batch.  Deciding whether the tree must be rebuilt at all is the subtle  *)
(* part: the loop compares the new descriptor with the one it built from,  *)
(* by address first and by hash otherwise.                                 *)
(*                                                                         *)
(* A descriptor is the address of its table and what it describes, one of  *)
(* Trees.  Its hash is Digest, which need not tell two trees apart: of a   *)
(* string longer than 32 bytes it takes the length and both ends only.     *)
(* Only the last descriptor is kept alive by the loop, so a handler        *)
(* returns either a table at another address or the same table, perhaps    *)
(* changed in the meantime.                                                *)
(***************************************************************************)
EXTENDS Naturals, Sequences

CONSTANTS
  Trees,        \* what a descriptor can describe
  Digest,       \* hash_descr_recursive of each of them
  Addresses,    \* addresses of tables
  Descriptors,  \* the trees that the script builds, each at an address
  NoTree,       \* nothing rendered: the loop draws an empty root
  Inputs,       \* widgets whose EV_CHANGE carries a value
  MaxQueue      \* bound: no further window event is polled at this queue length

ASSUME LoopAssumption ==
  /\ Descriptors \subseteq [at : Addresses, of : Trees]
  /\ NoTree \notin Trees /\ DOMAIN Digest = Trees
  /\ MaxQueue \in Nat

VARIABLES
  pc,           \* "tick", "poll", "batch", "script", "draw", or "end"
  queue,        \* ctx->queue
  last,         \* last_tree: its table and what that describes now
  hashed,       \* hashed_tree, what it described, and whether last_descr_hash is 0
  shown,        \* what the widgets in the pool were built from
  redraw,       \* redraw_needed
  rebuilt,      \* a handler of this batch returned a tree
  burst,        \* last_resize_at lies less than 50 ms back, at most
  sizeDrawn,    \* last_rbd_w and last_rbd_h are the size of the window
  quit,         \* quit_requested, or the window is closed
  dialog,       \* "none", "open" or "closing"
  anim,         \* of the dialog: "unset" until open_started_at is taken, "shown" once anim_t > 0
  value,        \* the newest value of each input
  seen          \* history: the value the script was last told

tree_vars == <<last, hashed, shown>>
size_vars == <<burst, sizeDrawn>>
fade_vars == <<dialog, anim>>
value_vars == <<value, seen>>
loop_vars == <<pc, queue, tree_vars, redraw, rebuilt, size_vars, quit, fade_vars, value_vars>>

None == [at |-> NoTree, of |-> NoTree]
Events == [kind : {"change"}, widget : Inputs, value : {0, 1}] \cup [kind : {"other", "dialog"}]

LoopTypeOK ==
  /\ pc \in {"tick", "poll", "batch", "script", "draw", "end"}
  /\ queue \in Seq(Events) /\ Len(queue) <= MaxQueue + 1
  /\ last \in Descriptors \cup {None}
  /\ hashed \in [at : Addresses \cup {NoTree}, of : Trees \cup {NoTree}, zero : BOOLEAN]
  /\ shown \in Trees \cup {NoTree}
  /\ {redraw, rebuilt, burst, sizeDrawn, quit} \subseteq BOOLEAN
  /\ dialog \in {"none", "open", "closing"} /\ anim \in {"unset", "anchored", "shown"}
  /\ value \in [Inputs -> {0, 1}] /\ seen \in [Inputs -> {0, 1}]

\* ui.run has built what was rendered before it; the first build computes no hash.  A dialog may
\* have been opened before it, too.
LoopInit ==
  /\ pc = "tick" /\ queue = <<>>
  /\ last \in Descriptors \cup {None}
  /\ hashed = [at |-> last.at, of |-> last.of, zero |-> TRUE]
  /\ shown = last.of
  /\ redraw = FALSE /\ rebuilt = FALSE /\ burst = FALSE /\ sizeDrawn = TRUE
  /\ quit = FALSE /\ dialog \in {"none", "open"} /\ anim = "unset"
  /\ value = [w \in Inputs |-> 0] /\ seen = value

----------------------------------------------------------------------------
(* Queue *)

Change(w, v) == [kind |-> "change", widget |-> w, value |-> v]

\* Mutant of Push: the earlier change stays as it is.
PushKeepsOld(q, e) ==
  IF e.kind = "change" /\ \E i \in DOMAIN q : q[i].kind = "change" /\ q[i].widget = e.widget
    THEN q
    ELSE Append(q, e)

\* A change of a widget takes the place of an earlier one still in the queue.
Push(q, e) ==
  IF e.kind = "change" /\ \E i \in DOMAIN q : q[i].kind = "change" /\ q[i].widget = e.widget
    THEN LET i == CHOOSE k \in DOMAIN q : q[k].kind = "change" /\ q[k].widget = e.widget
         IN [q EXCEPT ![i] = e]
    ELSE Append(q, e)

----------------------------------------------------------------------------
(* pump *)

\* ui_tick.  The first tick of a dialog takes the time and shows nothing, a later one shows some
\* of it; a closing dialog fades a little.  No time may have passed; other things that move ask
\* for a repaint, too.  Meanwhile a burst of resizing may have ended.
Tick ==
  /\ pc = "tick"
  /\ pc' = "poll"
  /\ \/ UNCHANGED anim /\ redraw' \in {redraw, TRUE}
     \/ /\ dialog = "open"
        /\ anim' = IF anim = "unset" THEN "anchored" ELSE "shown"
        /\ redraw' = TRUE
  /\ burst' \in {burst, FALSE}
  /\ UNCHANGED <<queue, tree_vars, rebuilt, sizeDrawn, quit, dialog, value_vars>>

\* A closing dialog has faded and gives its answer.  It fades only if any of it was shown: one
\* that is closed before has anim_t = 0, and nothing happens to it.
Faded ==
  /\ pc = "tick" /\ dialog = "closing" /\ anim = "shown"
  /\ pc' = "poll"
  /\ queue' = Push(queue, [kind |-> "dialog"])
  /\ dialog' = "none" /\ anim' = "unset"
  /\ redraw' = TRUE
  /\ burst' \in {burst, FALSE}
  /\ UNCHANGED <<tree_vars, rebuilt, sizeDrawn, quit, value_vars>>

Polling == pc = "poll" /\ Len(queue) < MaxQueue

\* Typing, the wheel over a number, resizing a panel.  The wheel works under a dialog, too.
InputChanges(w) ==
  /\ Polling
  /\ value' = [value EXCEPT ![w] = 1 - @]
  /\ queue' = Push(queue, Change(w, value'[w]))
  /\ redraw' = TRUE
  /\ UNCHANGED <<pc, tree_vars, rebuilt, size_vars, quit, fade_vars, seen>>

\* Clicks, keys, menu items, the wheel, EV_RESIZE.
OtherEvent ==
  /\ Polling
  /\ queue' = Push(queue, [kind |-> "other"])
  /\ redraw' \in {redraw, TRUE}
  /\ UNCHANGED <<pc, tree_vars, rebuilt, size_vars, quit, fade_vars, value_vars>>

\* dialog_request_close, from a key or a button, however little of the dialog is shown.
ChooseAnswer ==
  /\ Polling /\ dialog = "open"
  /\ dialog' = "closing"
  /\ redraw' = TRUE
  /\ UNCHANGED <<anim, pc, queue, tree_vars, rebuilt, size_vars, quit, value_vars>>

Expose ==
  /\ Polling
  /\ redraw' = TRUE
  /\ UNCHANGED <<pc, queue, tree_vars, rebuilt, size_vars, quit, fade_vars, value_vars>>

\* The window may come back to the size of the last rebuild.
Resize ==
  /\ Polling
  /\ burst' = TRUE
  /\ sizeDrawn' \in BOOLEAN
  /\ redraw' = TRUE
  /\ UNCHANGED <<pc, queue, tree_vars, rebuilt, quit, fade_vars, value_vars>>

\* The close button of the titlebar, or UW_EV_CLOSE, which is the last event of its pump.
CloseWindow ==
  /\ Polling
  /\ queue' = Push(queue, [kind |-> "other"])
  /\ quit' = TRUE
  /\ UNCHANGED <<pc, tree_vars, redraw, rebuilt, size_vars, fade_vars, value_vars>>

EndPump ==
  /\ pc = "poll"
  /\ pc' = "batch"
  /\ rebuilt' = FALSE
  /\ UNCHANGED <<queue, tree_vars, redraw, size_vars, quit, fade_vars, value_vars>>

----------------------------------------------------------------------------
(* The batch *)

\* ui_event_to_table, and apex_call_function begins.
Deliver ==
  /\ pc = "batch" /\ queue # <<>>
  /\ pc' = "script"
  /\ queue' = Tail(queue)
  /\ seen' = IF Head(queue).kind = "change"
               THEN [seen EXCEPT ![Head(queue).widget] = Head(queue).value]
               ELSE seen
  /\ UNCHANGED <<tree_vars, redraw, rebuilt, size_vars, quit, fade_vars, value>>

\* ui.render in a handler.  A descriptor at the address of the last one is the same table,
\* whatever it describes by now.
Render(d) ==
  /\ pc = "script"
  /\ last' = d
  /\ redraw' = TRUE
  /\ UNCHANGED <<pc, queue, hashed, shown, rebuilt, size_vars, quit, fade_vars, value_vars>>

\* ui.dialog in a handler: a dialog before it is dropped, also one whose answer is chosen.
\* A new one without buttons is dropped, too.
OpenDialog ==
  /\ pc = "script"
  /\ dialog' \in {"open", "none"} /\ anim' = "unset"
  /\ redraw' = TRUE
  /\ UNCHANGED <<pc, queue, tree_vars, rebuilt, size_vars, quit, value_vars>>

\* ui.shutdown in a handler.
Shutdown ==
  /\ pc = "script"
  /\ quit' = TRUE
  /\ redraw' = FALSE
  /\ UNCHANGED <<pc, queue, tree_vars, rebuilt, size_vars, fade_vars, value_vars>>

\* The handler ends; the loop leaves the batch when the program is to end.
AfterHandler == pc' = IF quit THEN "end" ELSE "batch"

ReturnTree(d) ==
  /\ pc = "script"
  /\ last' = d
  /\ redraw' = TRUE
  /\ rebuilt' = TRUE
  /\ AfterHandler
  /\ UNCHANGED <<queue, hashed, shown, size_vars, quit, fade_vars, value_vars>>

ReturnNone ==
  /\ pc = "script"
  /\ AfterHandler
  /\ UNCHANGED <<queue, tree_vars, redraw, rebuilt, size_vars, quit, fade_vars, value_vars>>

----------------------------------------------------------------------------
(* rebuild_and_draw *)

\* Both are trees, and their hashes are equal.
SameDigest(t, u) == {t, u} \subseteq Trees /\ Digest[t] = Digest[u]

\* A tree at the address of hashed_tree counts as unchanged, any other is hashed.
CanReuse ==
  /\ last # None
  /\ \/ last.at = hashed.at
     \/ ~hashed.zero /\ SameDigest(last.of, hashed.of)

EndBatch ==
  /\ pc = "batch" /\ queue = <<>>
  /\ pc' = IF quit THEN "end" ELSE "draw"
  /\ UNCHANGED <<queue, tree_vars, redraw, rebuilt, size_vars, quit, fade_vars, value_vars>>

\* Mutant of RebuildAndDraw: the request stays.
RebuildStaysDue ==
  /\ pc = "draw" /\ (rebuilt \/ redraw)
  /\ pc' = "tick"
  /\ IF CanReuse
       THEN UNCHANGED <<shown, hashed>>
       ELSE /\ shown' = last.of
            /\ hashed' = [at |-> last.at, of |-> last.of, zero |-> last = None]
  /\ sizeDrawn' = TRUE
  /\ rebuilt' = FALSE
  /\ UNCHANGED <<queue, last, redraw, burst, quit, fade_vars, value_vars>>

RebuildAndDraw ==
  /\ pc = "draw" /\ (rebuilt \/ redraw)
  /\ pc' = "tick"
  /\ IF CanReuse
       THEN UNCHANGED <<shown, hashed>>
       ELSE /\ shown' = last.of
            /\ hashed' = [at |-> last.at, of |-> last.of, zero |-> last = None]
  /\ redraw' = FALSE
  /\ sizeDrawn' = TRUE
  /\ rebuilt' = FALSE
  /\ UNCHANGED <<queue, last, burst, quit, fade_vars, value_vars>>

\* Mutant of SkipInBurst: the repaint is forgotten.
SkipForgets ==
  /\ pc = "draw" /\ redraw /\ ~rebuilt
  /\ burst /\ sizeDrawn
  /\ pc' = "tick"
  /\ redraw' = FALSE
  /\ UNCHANGED <<queue, tree_vars, rebuilt, size_vars, quit, fade_vars, value_vars>>

\* Amid a burst, a repaint that no handler asked for is left to the next round.
SkipInBurst ==
  /\ pc = "draw" /\ redraw /\ ~rebuilt
  /\ burst /\ sizeDrawn
  /\ pc' = "tick"
  /\ UNCHANGED <<queue, tree_vars, redraw, rebuilt, size_vars, quit, fade_vars, value_vars>>

NothingToDraw ==
  /\ pc = "draw" /\ ~redraw /\ ~rebuilt
  /\ pc' = "tick"
  /\ UNCHANGED <<queue, tree_vars, redraw, rebuilt, size_vars, quit, fade_vars, value_vars>>

\* ui.run has returned.
Ended == pc = "end" /\ UNCHANGED loop_vars

----------------------------------------------------------------------------
(* Specification *)

HandlerEnds == ReturnNone \/ \E d \in Descriptors : ReturnTree(d)

LoopNext ==
  \/ Tick \/ Faded
  \/ \E w \in Inputs : InputChanges(w)
  \/ OtherEvent \/ ChooseAnswer \/ Expose \/ Resize \/ CloseWindow \/ EndPump
  \/ Deliver
  \/ \E d \in Descriptors \cup {None} : Render(d)
  \/ OpenDialog \/ Shutdown \/ HandlerEnds
  \/ EndBatch \/ RebuildAndDraw \/ SkipInBurst \/ NothingToDraw
  \/ Ended

----------------------------------------------------------------------------
(* Properties *)

\* Between repaints the screen shows the last descriptor (rebuild_and_draw's comment: "rebuilds
\* the widget tree from the last descriptor"), or one whose hash is the same.  The other exception
\* is a descriptor that lies where the tree that was hashed lay before: the loop takes it for that.
ScreenShowsTree ==
  ~redraw /\ ~quit =>
     \/ shown = last.of
     \/ SameDigest(shown, last.of)
     \/ last.at = hashed.at /\ last.of # hashed.of

\* When no change of an input waits in the queue, the script knows its newest value, however
\* many changes ui_event_push merged into one event.
HandlerSeesLatest ==
  \A w \in Inputs :
     (\A i \in DOMAIN queue : queue[i].kind = "change" => queue[i].widget # w) => seen[w] = value[w]

\* Until the program ends, what asks for a repaint gets one, queued events are handled, and
\* a dialog whose answer is chosen does not stay.  The exception is an answer chosen before any of
\* the dialog was shown: that dialog stays until the script opens another.
WorkIsDone ==
  /\ redraw ~> (~redraw \/ quit)
  /\ queue # <<>> ~> (queue = <<>> \/ quit)
  /\ dialog = "closing" /\ anim = "shown" ~> (dialog # "closing" \/ quit)
=============================================================================
