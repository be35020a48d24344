------------------------------- MODULE ZOrder -------------------------------
(***************************************************************************)
(* What the window list promises the applications and the user, with no    *)
(* pointers: the windows in a sequence from the bottom to the top.  A new  *)
(* window gets the first unused handle and opens on top, closing one       *)
(* leaves the others in their order, and a click raises the clicked window *)
(* alone.  The first window of the sequence, the desktop, stays where it   *)
(* is.                                                                     *)
(***************************************************************************)
EXTENDS Integers, Lists

CONSTANT Handles

VARIABLE order

Opened == Range(order)

Init == order = <<>>

Open(x) ==
  /\ x \in Handles \ Opened
  /\ \A y \in Handles \ Opened : x <= y
  /\ order' = Append(order, x)

Close(x) ==
  /\ x \in Opened /\ x # order[1]
  /\ order' = RemoveFirst(order, x)

Raise(x) ==
  /\ x \in Opened /\ x # order[1] /\ x # Last(order)
  /\ order' = Append(RemoveFirst(order, x), x)

Next == \E x \in Handles : Open(x) \/ Close(x) \/ Raise(x)

Spec == Init /\ [][Next]_order
============================================================================
