------------------------------- MODULE UiPointer -------------------------------
(***************************************************************************)
(* What the UI remembers of pointer and keyboard between two window        *)
(* events: the pressed and the hovered widget, focus, drags, the dialog,   *)
(* the context menu and the menu bar.  The handlers of the script run      *)
(* between any two events and may replace the tree under a gesture or      *)
(* open a dialog over it; how the loop gets there is UiLoop's part.        *)
(*                                                                         *)
(* Positions are abstracted to what they hit.  A widget's id is a hash of  *)
(* its parent's and its key or index.  Its kind has no part in it, so an   *)
(* id may name a widget of another kind after a rebuild, and two siblings  *)
(* with the same key share one.  A layout gives for each id the kinds of   *)
(* the widgets that have it.                                               *)
(***************************************************************************)
EXTENDS Naturals, FiniteSets

CONSTANTS
  Widgets,      \* ids
  Layouts,      \* what rendered trees can look like
  Nobody

\* A field drags a selection and a splitter, a panel that is resizable, its edge; a button stands
\* for what else takes the focus, plain for the rest.
Kinds == {"field", "button", "splitter", "panel", "plain"}
Focusable == {"field", "button"}
Panels == {"splitter", "panel"}

ASSUME PointerAssumption ==
  /\ Layouts \subseteq [Widgets -> SUBSET Kinds]
  /\ Nobody \notin Widgets

VARIABLES
  pool,         \* the layout of the tree that is shown
  pressed,      \* widgets whose state says pressed
  hot,          \* widgets whose state says hovered
  focused_id,
  hovered_id,
  drag_widget_id,
  lmb,          \* input.lmb
  tb_active,    \* a button of the titlebar is pressed
  modal,        \* the dialog: "none", "open", or "closing"
  active_btn,   \* a button of the dialog is pressed
  context_menu, \* active
  open_menu,    \* of the menu bar: "none", "menu", or "overflow"
  down,         \* history: the left button is physically down
  press,        \* history: what the last press hit
  edge,         \* history: it took hold of a panel's edge
  swallowed     \* history: a release did not reach what was pressed, and something still is

gesture_vars == <<pressed, drag_widget_id, lmb, tb_active>>
focus_vars == <<hot, hovered_id, focused_id>>
dialog_vars == <<modal, active_btn>>
menu_vars == <<context_menu, open_menu>>
button_vars == <<down, press, edge>>
pointer_vars == <<pool, gesture_vars, focus_vars, dialog_vars, menu_vars, button_vars, swallowed>>

Live == {w \in Widgets : pool[w] # {}}

\* The ids name widgets of the tree: what rebuild_and_draw clears "that no longer match a live
\* widget", and nothing sets otherwise; one widget at most is drawn hovered, the one hovered_id names.
PointerTypeOK ==
  /\ pool \in [Widgets -> SUBSET Kinds]
  /\ pressed \subseteq Live
  /\ {focused_id, hovered_id, drag_widget_id} \subseteq Live \cup {Nobody}
  /\ hot = {hovered_id} \ {Nobody}
  /\ {lmb, tb_active, active_btn, context_menu, down, edge, swallowed} \subseteq BOOLEAN
  /\ modal \in {"none", "open", "closing"}
  /\ open_menu \in {"none", "menu", "overflow"}
  /\ press \in Widgets \cup {Nobody}

PointerInit ==
  /\ pool = [w \in Widgets |-> {}] /\ pressed = {} /\ hot = {}
  /\ focused_id = Nobody /\ hovered_id = Nobody /\ drag_widget_id = Nobody
  /\ lmb = FALSE /\ tb_active = FALSE
  /\ modal = "none" /\ active_btn = FALSE
  /\ context_menu = FALSE /\ open_menu = "none"
  /\ down = FALSE /\ press = Nobody /\ edge = FALSE /\ swallowed = FALSE

\* The release looks for a panel among all widgets with the dragged id.
PanelDragged == drag_widget_id # Nobody /\ pool[drag_widget_id] \cap Panels # {}

\* A move looks at the first of them, and only a panel that is resizable keeps it.
MoveResizes == drag_widget_id # Nobody /\ pool[drag_widget_id] = {"splitter"}

----------------------------------------------------------------------------
(* UW_EV_MOUSEDOWN: menus, then the dialog, then the frame, then the tree *)

Press(what, atEdge) == ~down /\ down' = TRUE /\ press' = what /\ edge' = atEdge

ButtonDown(what) == Press(what, FALSE)

\* On an item with a submenu the menu stays.
PressContextMenu ==
  /\ context_menu
  /\ ButtonDown(Nobody)
  /\ context_menu' \in BOOLEAN
  /\ UNCHANGED <<pool, gesture_vars, focus_vars, dialog_vars, open_menu>>

PressContextMenuRight ==
  /\ context_menu
  /\ context_menu' \in BOOLEAN
  /\ UNCHANGED <<pool, gesture_vars, focus_vars, dialog_vars, open_menu, button_vars>>

PressDialog ==
  /\ ~context_menu /\ modal # "none"
  /\ ButtonDown(Nobody)
  /\ active_btn' \in IF modal = "open" THEN {active_btn, TRUE} ELSE {active_btn}
  /\ UNCHANGED <<pool, gesture_vars, focus_vars, modal, menu_vars>>

Uncovered == ~context_menu /\ modal = "none"

PressMenuLabel(menu) ==
  /\ Uncovered
  /\ ButtonDown(Nobody)
  /\ open_menu' = IF open_menu = menu THEN "none" ELSE menu
  /\ UNCHANGED <<pool, gesture_vars, focus_vars, dialog_vars, context_menu>>

PressDropdown ==
  /\ Uncovered /\ open_menu # "none"
  /\ ButtonDown(Nobody)
  /\ open_menu' \in {open_menu, "none"}
  /\ UNCHANGED <<pool, gesture_vars, focus_vars, dialog_vars, context_menu>>

\* A press elsewhere closes the menu and goes on to what it hit.
PressEdge(panel) ==
  /\ Uncovered /\ "splitter" \in pool[panel]
  /\ Press(panel, TRUE)
  /\ open_menu' = "none"
  /\ drag_widget_id' = panel
  /\ lmb' = TRUE
  /\ UNCHANGED <<pool, pressed, tb_active, focus_vars, dialog_vars, context_menu>>

PressTitleButton ==
  /\ Uncovered
  /\ ButtonDown(Nobody)
  /\ open_menu' = "none"
  /\ lmb' = TRUE
  /\ tb_active' = TRUE
  /\ UNCHANGED <<pool, pressed, drag_widget_id, focus_vars, dialog_vars, context_menu>>

\* The step buttons of a number field drag no selection.
PressWidget(w) ==
  /\ Uncovered
  /\ ButtonDown(w)
  /\ open_menu' = "none"
  /\ lmb' = TRUE
  /\ pressed' = pressed \cup {w}
  /\ \E kind \in pool[w] :
       /\ focused_id' = IF kind \in Focusable THEN w ELSE Nobody
       /\ drag_widget_id' \in IF kind = "field" THEN {drag_widget_id, w} ELSE {drag_widget_id}
  /\ UNCHANGED <<pool, tb_active, hot, hovered_id, dialog_vars, context_menu>>

\* A press on the bar beside its labels leaves an open menu as it is.
PressNothing ==
  /\ Uncovered
  /\ ButtonDown(Nobody)
  /\ open_menu' \in {open_menu, "none"}
  /\ lmb' = TRUE
  /\ focused_id' = Nobody
  /\ UNCHANGED <<pool, pressed, drag_widget_id, tb_active, hot, hovered_id, dialog_vars, context_menu>>

----------------------------------------------------------------------------
(* UW_EV_MOUSEUP *)

ButtonUp == down /\ down' = FALSE /\ UNCHANGED <<press, edge>> /\ lmb' = FALSE

\* The dialog keeps the release to itself; released on the pressed button, it closes.
ReleaseDialog ==
  /\ modal # "none"
  /\ ButtonUp
  /\ IF modal = "open"
       THEN /\ modal' \in {modal} \cup {s \in {"closing"} : active_btn}
            /\ active_btn' = FALSE
       ELSE UNCHANGED dialog_vars
  /\ UNCHANGED <<pool, pressed, drag_widget_id, tb_active, focus_vars, menu_vars>>

\* Released on the close button this ends the program (UiLoop); here the gesture ends.
ReleaseTitleButton ==
  /\ modal = "none" /\ tb_active
  /\ ButtonUp
  /\ tb_active' = FALSE
  /\ UNCHANGED <<pool, pressed, drag_widget_id, focus_vars, dialog_vars, menu_vars>>

\* A panel has the dragged id by now, whatever the press took hold of: what is pressed stays so.
ReleaseEdge ==
  /\ modal = "none" /\ ~tb_active /\ PanelDragged
  /\ ButtonUp
  /\ drag_widget_id' = Nobody
  /\ UNCHANGED <<pool, pressed, tb_active, focus_vars, dialog_vars, menu_vars>>

\* Mutant of Release: the drag goes on.
ReleaseKeepsDrag ==
  /\ modal = "none" /\ ~tb_active /\ ~PanelDragged
  /\ ButtonUp
  /\ pressed' = {}
  /\ UNCHANGED <<pool, drag_widget_id, tb_active, focus_vars, dialog_vars, menu_vars>>

\* Every press ends; the one the pointer is still over was a click.
Release ==
  /\ modal = "none" /\ ~tb_active /\ ~PanelDragged
  /\ ButtonUp
  /\ drag_widget_id' = Nobody
  /\ pressed' = {}
  /\ UNCHANGED <<pool, tb_active, focus_vars, dialog_vars, menu_vars>>

----------------------------------------------------------------------------
(* UW_EV_MOUSEMOVE and UW_EV_KEYDOWN *)

\* With a menu open, the pointer over a label opens that one.
MoveToLabel(menu) ==
  /\ Uncovered /\ open_menu \notin {"none", menu}
  /\ open_menu' = menu
  /\ UNCHANGED <<pool, gesture_vars, focus_vars, dialog_vars, context_menu, button_vars>>

\* Over the tree, unless a panel is being resized.
Hover(w) ==
  /\ Uncovered /\ open_menu = "none"
  /\ ~(lmb /\ MoveResizes)
  /\ w \in (Live \cup {Nobody}) \ {hovered_id}
  /\ hot' = (hot \ {hovered_id}) \cup ({w} \ {Nobody})
  /\ hovered_id' = w
  /\ UNCHANGED <<pool, gesture_vars, focused_id, dialog_vars, menu_vars, button_vars>>

\* Escape closes what is on top.  The overflow menu is not among it: open_menu < 0.
Escape ==
  /\ \/ modal = "open" /\ modal' = "closing" /\ UNCHANGED menu_vars
     \/ modal = "none" /\ context_menu /\ context_menu' = FALSE /\ UNCHANGED <<modal, open_menu>>
     \/ Uncovered /\ open_menu = "menu" /\ open_menu' = "none" /\ UNCHANGED <<modal, context_menu>>
  /\ UNCHANGED <<pool, gesture_vars, focus_vars, active_btn, button_vars>>

TabKey ==
  /\ modal = "none"
  /\ focused_id' \in {w \in Widgets : pool[w] \cap Focusable # {}}
  /\ UNCHANGED <<pool, gesture_vars, hot, hovered_id, dialog_vars, menu_vars, button_vars>>

\* UW_EV_SCROLL over a number field, also one under a dialog or a menu.
Wheel ==
  /\ focused_id' \in {w \in Widgets : "field" \in pool[w]}
  /\ UNCHANGED <<pool, gesture_vars, hot, hovered_id, dialog_vars, menu_vars, button_vars>>

----------------------------------------------------------------------------
(* The script, between two pumps *)

\* Mutant of Rebuild: the dragged widget is not looked for.
RebuildKeepsDrag(layout) ==
  /\ pool' = layout
  /\ pressed' = pressed \cap Live'
  /\ hot' = hot \cap Live'
  /\ focused_id' = IF focused_id \in Live' THEN focused_id ELSE Nobody
  /\ hovered_id' = IF hovered_id \in Live' THEN hovered_id ELSE Nobody
  /\ UNCHANGED <<drag_widget_id, lmb, tb_active, dialog_vars, menu_vars, button_vars>>

\* A rebuild: state of ids that are gone is swept, and gone ids are cleared.  An id that stays keeps
\* its state, whatever kind of widget it names now.
Rebuild(layout) ==
  /\ pool' = layout
  /\ pressed' = pressed \cap Live'
  /\ hot' = hot \cap Live'
  /\ focused_id' = IF focused_id \in Live' THEN focused_id ELSE Nobody
  /\ hovered_id' = IF hovered_id \in Live' THEN hovered_id ELSE Nobody
  /\ drag_widget_id' = IF drag_widget_id \in Live' THEN drag_widget_id ELSE Nobody
  /\ UNCHANGED <<lmb, tb_active, dialog_vars, menu_vars, button_vars>>

\* ui.dialog; without buttons the dialog is dropped again.
ShowDialog ==
  /\ context_menu' = FALSE
  /\ modal' \in {"open", "none"}
  /\ active_btn' = FALSE
  /\ UNCHANGED <<pool, gesture_vars, focus_vars, open_menu, button_vars>>

\* Mutant of ShowContextMenu: it opens over a dialog.
ShowContextMenuAlways ==
  /\ context_menu' = TRUE
  /\ open_menu' = IF open_menu = "menu" THEN "none" ELSE open_menu
  /\ UNCHANGED <<pool, gesture_vars, focus_vars, dialog_vars, button_vars>>

\* ui.context_menu: "never over a modal", "exclusive with menubar".  Without items it closes one.
ShowContextMenu ==
  /\ context_menu' \in {FALSE, modal = "none"}
  /\ open_menu' = IF context_menu' /\ open_menu = "menu" THEN "none" ELSE open_menu
  /\ UNCHANGED <<pool, gesture_vars, focus_vars, dialog_vars, button_vars>>

\* ui.menubar, and a layout that has no room left for the open menu's label.
SetMenubar ==
  /\ open_menu' = "none"
  /\ UNCHANGED <<pool, gesture_vars, focus_vars, dialog_vars, context_menu, button_vars>>

FinishClose ==
  /\ modal = "closing"
  /\ modal' = "none"
  /\ active_btn' = FALSE
  /\ UNCHANGED <<pool, gesture_vars, focus_vars, menu_vars, button_vars>>

----------------------------------------------------------------------------
(* Specification *)

PointerStep ==
  \/ PressContextMenu \/ PressContextMenuRight \/ PressDialog \/ PressDropdown
  \/ \E menu \in {"menu", "overflow"} : PressMenuLabel(menu) \/ MoveToLabel(menu)
  \/ \E panel \in Widgets : PressEdge(panel)
  \/ PressTitleButton \/ PressNothing
  \/ \E w \in Widgets : PressWidget(w)
  \/ ReleaseDialog \/ ReleaseTitleButton \/ ReleaseEdge \/ Release
  \/ \E w \in Widgets \cup {Nobody} : Hover(w)
  \/ Escape \/ TabKey \/ Wheel
  \/ \E layout \in Layouts : Rebuild(layout)
  \/ ShowDialog \/ ShowContextMenu \/ SetMenubar \/ FinishClose

Leftover == pressed # {} \/ drag_widget_id # Nobody \/ tb_active

\* The release went to a dialog that came in between, to a titlebar button, or to a panel that
\* took the id of the field that was pressed.
Swallow == down /\ ~down' /\ (modal # "none" \/ tb_active \/ (PanelDragged /\ ~edge))

PointerNext == PointerStep /\ swallowed' = ((swallowed \/ Swallow) /\ Leftover')

----------------------------------------------------------------------------
(* Properties *)

\* Pressed and dragged is only what the present press hit ("click only if released on same
\* widget"), whatever handlers do to the tree and to menus meanwhile.  The exception is a release
\* that was swallowed: the gesture before it then never ended.
GestureFollowsPress ==
  ~swallowed =>
     /\ pressed \subseteq IF down THEN {press} ELSE {}
     /\ drag_widget_id \in {Nobody} \cup (IF down THEN {press} ELSE {})

\* A context menu is open neither with a dialog ("menus never coexist with dialogs") nor with
\* a menu of the menu bar ("exclusive with menubar"), in whichever order user and script open
\* them.  The overflow menu is not counted: ui_menubar_has_open does not know it.
OneMenuOnTop == context_menu => modal = "none" /\ open_menu # "menu"
=============================================================================
