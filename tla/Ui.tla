----------------------------------- MODULE Ui -----------------------------------
(***************************************************************************)
(* Two views of the UI runtime: its message loop (UiLoop) and what it      *)
(* keeps of a gesture between two events (UiPointer).  A behaviour         *)
(* follows one of them.  They meet in the script's handlers, which         *)
(* UiLoop calls and which act on the state of UiPointer; each module lets  *)
(* the other do anything it can.                                           *)
(***************************************************************************)
EXTENDS UiLoop, UiPointer

ui_vars == <<loop_vars, pointer_vars>>

UiTypeOK == LoopTypeOK /\ PointerTypeOK

UiInit == LoopInit /\ PointerInit

\* Nothing was rendered yet and no dialog opened: what the loop does matters to no gesture.
LoopAtRest == LoopInit /\ last = None /\ dialog = "none"

Loop(A) == PointerInit /\ A /\ UNCHANGED pointer_vars
LoopStep == PointerInit /\ LoopNext /\ UNCHANGED pointer_vars
GestureStep == LoopAtRest /\ PointerNext /\ UNCHANGED loop_vars

\* The loop goes on, handlers return, and clocks run: a dialog that fades fades out, and the user
\* does not resize the window for ever.
UiFairness ==
  /\ WF_ui_vars(Loop(Tick \/ EndPump))
  /\ WF_ui_vars(Loop(Deliver \/ EndBatch \/ SkipInBurst \/ NothingToDraw))
  /\ WF_ui_vars(Loop(HandlerEnds))
  /\ SF_ui_vars(Loop(Faded))
  /\ SF_ui_vars(Loop(RebuildAndDraw))

UiSpec == UiInit /\ [][LoopStep \/ GestureStep]_ui_vars /\ UiFairness
=============================================================================
