------------------------------ MODULE MCMouse ------------------------------
(***************************************************************************)
(* The mouse with one-bit bytes: every movement from -2 to 1, so both      *)
(* values of the sign bit with both values of the byte.  The clock wraps   *)
(* and never stops; what no step reads any more does not tell states apart.*)
(***************************************************************************)
EXTENDS Mouse

MCMovements == -2 .. 1

ViewDecoder ==
  IF to_read = READ_MOUSE_INFO THEN <<>>
  ELSE <<to_read, flags.left, flags.right, flags.yneg,
         IF to_read = READ_X_MOVEMENT THEN flags.xneg ELSE dis_x>>

ViewDevice ==
  IF at = 1 THEN <<>>
  ELSE IF intact /\ ~fooled THEN <<at, sent>>
  ELSE <<at, intact, sent.dy, IF at = 2 THEN sent.dx ELSE 0>>

View ==
  <<ViewDecoder, ViewDevice, fooled, left_btn_down, right_btn_down, event, tick, last_tick,
    IF released = Never \/ paired THEN Never ELSE (time - released) % WRAP, paired, held>>
============================================================================
