------------------------------ MODULE MCViews -------------------------------
(***************************************************************************)
(* Views on a disk with a directory d and a text t at the root and a text  *)
(* in d; n is the folder, s and u the files that may be made.              *)
(***************************************************************************)
EXTENDS Views, TLC

MCKind == [d |-> "dir", n |-> "dir", t |-> "txt", s |-> "txt", u |-> "txt", p |-> "prog"]

MCImage == <<>> :> <<"t", "d">> @@ <<"d">> :> <<"p", "t">> @@ <<"n">> :> <<>>
=============================================================================
