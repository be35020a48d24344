------------------------------- MODULE Mouse -------------------------------
(***************************************************************************)
(* The mouse from its bytes to its events: the packets MousePacket decodes *)
(* are what MouseClicks tells clicks, double clicks and drags by, while    *)
(* the timer ticks between any two bytes.                                  *)
(***************************************************************************)
EXTENDS MousePacket, MouseClicks

vars == <<decoder, device, clicks, time>>

Init == InitPacket /\ InitClicks

\* The end of mouseint: a packet that is complete is an event.
HandOn ==
  IF handed' = NoPacket THEN UNCHANGED <<clicks, time>>
  ELSE updateMouseEvent(handed'.left, handed'.right)

Next ==
  \/ (FlagByte \/ MoveByte \/ LostByte \/ KeyByte) /\ HandOn
  \/ TimerTick /\ UNCHANGED <<decoder, device>>

Spec == Init /\ [][Next]_vars

----------------------------------------------------------------------------
\* The driver never runs behind the mouse's packet boundary by accident: until
\* a byte that comes in place of a movement passes for byte 1, it expects either
\* the byte that comes next or byte 1, so a byte that is lost or replaced by the
\* keyboard's, or a refused packet, costs that packet only.
Framed == ~fooled => to_read = at \/ to_read = READ_MOUSE_INFO

\* A packet whose bytes all arrived while the driver was in step is handed to
\* updateMouseEvent as the mouse meant it: buttons, both signs and the
\* reversed Y axis (mouse.c:413-434).
HandsOnAsSent ==
  [][(MoveByte /\ at = 3 /\ intact /\ ~fooled) =>
       handed' = [left |-> sent.left, right |-> sent.right,
                  dx |-> sent.dx, dy |-> -sent.dy]]_vars

\* The ticks at which the marker -30 itself looks like a recent release: tick
\* 0 and the 30 ticks before the counter wraps (mouse.c:333).
MarkerLooksRecent == tick = 0 \/ tick >= WRAP - DOUBLE_CLICK

\* A double click has a first half: the left button went up at most 30 ticks
\* before, in a release that was not itself the end of a double click.  The
\* exceptions are the clock's: near its wrap, and a release a whole wrap ago.
DoubleClickHasFirstHalf ==
  [][left_btn_down /\ event' = "LEFT_DOUBLE_CLICK" =>
       \/ MarkerLooksRecent
       \/ /\ released # Never /\ ~paired
          /\ (time - released) % WRAP <= DOUBLE_CLICK]_vars

\* A press that moved a window is not a click as well: a release is reported
\* as LEFT_CLICK only if the button was down for a single packet, or if the
\* release of the right button was the last thing reported during the drag
\* (mouse.c:327-358), even when packets in between were lost.
ClickIsNoDrag ==
  [][left_btn_down /\ event' = "LEFT_CLICK" => held = 1 \/ event = "RIGHT_CLICK"]_vars
============================================================================
