------------------------------- MODULE Lists -------------------------------
(***************************************************************************)
(* Lists as sequences: an element is unlinked, the last one is looked at,  *)
(* all are gone through.  The operators have the names and the meaning     *)
(* they have in SequencesExt.  They have a module of their own because     *)
(* every proof obligation carries all definitions in scope, and            *)
(* SequencesExt brings those of Bags and TLC as well.                      *)
(***************************************************************************)
EXTENDS Integers, Sequences, Functions

Last(s) == s[Len(s)]

\* The elements after the i-th move up by one.
RemoveAt(s, i) == [j \in 1 .. Len(s) - 1 |-> IF j < i THEN s[j] ELSE s[j + 1]]

RemoveFirst(s, e) ==
  IF e \in Range(s)
    THEN RemoveAt(s, CHOOSE i \in DOMAIN s : s[i] = e /\ \A j \in 1 .. i - 1 : s[j] # e)
    ELSE s

\* op applied to the elements from left to right, starting with base.
FoldLeft(op(_, _), base, s) ==
  LET upto[i \in 0 .. Len(s)] == IF i = 0 THEN base ELSE op(upto[i - 1], s[i])
  IN  upto[Len(s)]

FlattenSeq(ss) == FoldLeft(LAMBDA all, s : all \o s, <<>>, ss)
============================================================================
