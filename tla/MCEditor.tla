------------------------------ MODULE MCEditor ------------------------------
(***************************************************************************)
(* The editor with one letter as wide as its glyph, two of them in a line. *)
(***************************************************************************)
EXTENDS Editor

MCColumns == [ch \in Letters |-> 9]
=============================================================================
