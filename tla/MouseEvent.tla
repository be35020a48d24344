----------------------------- MODULE MouseEvent -----------------------------
(***************************************************************************)
(* How updateMouseEvent (mouse.c) turns the two buttons of a packet into   *)
(* an event.  quick is its test tick - last_tick <= 30, which MouseClicks  *)
(* models with the clock and Gui leaves open.                              *)
(***************************************************************************)
VARIABLES
  left_btn_down, right_btn_down,  \* the buttons as of the last packet
  event                           \* mouse_info.event

Events == {"none", "LEFT_CLICK", "RIGHT_CLICK", "LEFT_DOUBLE_CLICK", "MOUSE_DRAGGING"}

\* The packet in which the left button goes up.
LeftReleased(left_down) == left_btn_down /\ ~left_down

\* Variants: a release after a drag is a click; a release still drags.
LeftEventAlways(left_down, quick) ==
  CASE left_down /\ left_btn_down -> "MOUSE_DRAGGING"
    [] LeftReleased(left_down) -> IF quick THEN "LEFT_DOUBLE_CLICK" ELSE "LEFT_CLICK"
    [] OTHER -> "none"

LeftEventLate(left_down, quick) == IF left_btn_down THEN "MOUSE_DRAGGING" ELSE "none"

LeftEvent(left_down, quick) ==
  CASE left_down /\ left_btn_down -> "MOUSE_DRAGGING"
    [] LeftReleased(left_down) /\ quick -> "LEFT_DOUBLE_CLICK"
    [] LeftReleased(left_down) /\ ~quick /\ event # "MOUSE_DRAGGING" -> "LEFT_CLICK"
    [] OTHER -> "none"

\* A release of the right button hides what the left one did.
EventOf(left_down, right_down, quick) ==
  IF right_btn_down /\ ~right_down THEN "RIGHT_CLICK" ELSE LeftEvent(left_down, quick)

updateButtons(left_down, right_down, quick) ==
  /\ event' = EventOf(left_down, right_down, quick)
  /\ left_btn_down' = left_down
  /\ right_btn_down' = right_down

InitButtons ==
  /\ left_btn_down = FALSE
  /\ right_btn_down = FALSE
  /\ event = "none"
============================================================================
