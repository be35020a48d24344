--------------------------- MODULE MCWindowQueue ---------------------------
(***************************************************************************)
(* The window list with four slots and two processes: enough for the       *)
(* desktop, a window in the middle of the list with neighbours on both     *)
(* sides, a full table, slots freed and used again, and two system calls   *)
(* between their locked section and their redraw.                          *)
(***************************************************************************)
EXTENDS WindowQueue, TLC

Symmetry == Permutations(Procs)
============================================================================
