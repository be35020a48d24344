------------------------------ MODULE Geometry ------------------------------
(***************************************************************************)
(* Places on the screen: where a window or the pointer may be moved to     *)
(* (window.c, mouse.c).  A window is a record of its place and size.       *)
(***************************************************************************)
EXTENDS Integers

CONSTANTS SCREEN_WIDTH, SCREEN_HEIGHT

Screen == [x |-> 0, y |-> 0, width |-> SCREEN_WIDTH, height |-> SCREEN_HEIGHT]

FrameType == [x : Int, y : Int, width : Nat, height : Nat]

Inside(w) ==
  /\ 0 <= w.x /\ w.x + w.width <= SCREEN_WIDTH
  /\ 0 <= w.y /\ w.y + w.height <= SCREEN_HEIGHT

inWindowRange(w, x, y) ==
  /\ x >= w.x /\ x < w.x + w.width
  /\ y >= w.y /\ y < w.y + w.height

\* Variant: only the far edge stops a window.
ShiftFar(place, size, limit, d) ==
  IF place + size + d >= limit THEN limit - size ELSE place + d

\* moveWindow on one axis: a place moved by d, kept between 0 and limit - size.
Shift(place, size, limit, d) ==
  LET up == IF place + d < 0 THEN -place ELSE d
  IN  IF place + size + up >= limit THEN limit - size ELSE place + up

moveWindow(w, dx, dy) ==
  [w EXCEPT !.x = Shift(w.x, w.width, SCREEN_WIDTH, dx),
            !.y = Shift(w.y, w.height, SCREEN_HEIGHT, dy)]

\* setMousePosition on one axis: one point beyond the screen is allowed.
Clip(place, limit) == IF place < 0 THEN 0 ELSE IF place > limit THEN limit ELSE place
=============================================================================
