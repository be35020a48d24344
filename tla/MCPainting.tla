----------------------------- MODULE MCPainting -----------------------------
(***************************************************************************)
(* Painting on a screen of four by four points, with the desktop, a window *)
(* that is dragged over the whole screen and has two icons, and one with   *)
(* the other kinds of widgets that covers all of it or lies behind it.     *)
(***************************************************************************)
EXTENDS Painting

CONSTANTS explorer, dialog

MCWindows == {Desktop, explorer, dialog}

\* A dialog belongs to the process of its application.
MCOwner == Desktop :> Desktop @@ explorer :> explorer @@ dialog :> explorer

MCFrame ==
  Desktop :> Screen @@
  explorer :> [x |-> 0, y |-> 1, width |-> 4, height |-> 2] @@
  dialog :> [x |-> 0, y |-> 0, width |-> 4, height |-> 4]

\* Images with a transparent point, no two of them mirrored alike.
Leaf(i, j) == [n \in 0 .. 3 |-> IF n \in {i, j} THEN Black ELSE Grey]

Icon(x, image) == [type |-> "iconView", x |-> x, y |-> 0, width |-> 2, height |-> 2, image |-> image]

MCWidgets ==
  Desktop :> <<[type |-> "imageView", x |-> 0, y |-> 0, width |-> 4, height |-> 1, alphaBG |-> FALSE,
                image |-> [n \in 0 .. 3 |-> IF n = 2 THEN Black ELSE Grey]]>> @@
  explorer :> <<Icon(0, Leaf(0, 1)), Icon(2, Leaf(0, 0))>> @@
  dialog :> <<[type |-> "textBox", x |-> 0, y |-> 1, width |-> 2, height |-> 2],
              [type |-> "label", x |-> 0, y |-> 1, width |-> 1, height |-> 1],
              [type |-> "button", x |-> 0, y |-> 0, width |-> 1, height |-> 1, image |-> <<>>],
              [type |-> "button", x |-> 1, y |-> 0, width |-> 1, height |-> 2,
               image |-> [n \in 0 .. 1 |-> IF n = 0 THEN Black ELSE White]]>>

MCMotions == {<<2, -2>>, <<-2, 2>>}

\* What is not read again does not tell states apart.
View ==
  IF gui.astray THEN <<>>
  ELSE <<[gui EXCEPT !.background = IF gui.focusIcon = NULL THEN NULL ELSE @,
                     !.win = [w \in ToSet(gui.order) |-> @[w]],
                     !.last = [w \in ToSet(gui.order) |-> @[w]],
                     !.shown = [w \in ToSet(gui.order) |-> @[w]]],
         pending, drag_state, IF drag_state = 1 THEN pwque ELSE NULL>>
=============================================================================
