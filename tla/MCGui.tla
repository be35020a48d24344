------------------------------- MODULE MCGui -------------------------------
(***************************************************************************)
(* Gui on a screen of two by two points, with windows of two processes:    *)
(* the desktop and two windows of half the screen, which can cover each    *)
(* other, be dragged against both edges and lie under the pointer or not.  *)
(* The two movements lead to points of each column and line, and beyond.   *)
(***************************************************************************)
EXTENDS Gui, TLC

MCFrames == {[x |-> 1, y |-> 0, width |-> 1, height |-> 2]}

MCMotions == {<<1, -1>>, <<-2, 1>>}

Symmetry == Permutations(Procs)

\* States that behave alike: pwque is read only during a drag, and a machine
\* that has stopped stays as it is.
View ==
  IF fault # "none" THEN <<fault>>
  ELSE <<windows, drag_state, IF drag_state = 1 THEN pwque ELSE NULL, counter, buttons, mouse, focusIcon>>
============================================================================
