------------------------------ MODULE MCMemory ------------------------------
(***************************************************************************)
(* Memory with two page tables of two pages each, pages of two units, and  *)
(* fewer pages than two processes can ask for.                             *)
(***************************************************************************)
EXTENDS Memory

MCTexts == {1, 3, KERNBASE}

MCAmounts == {-3, -2, 1, 3}
=============================================================================
