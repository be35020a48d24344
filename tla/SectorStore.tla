---------------------------- MODULE SectorStore ----------------------------
(***************************************************************************)
(* What bread, bwrite and brelse promise together: a process that has a    *)
(* sector has it alone, and finds in it what was last put there, whichever *)
(* buffers, requests and recyclings lie in between.                        *)
(***************************************************************************)
CONSTANTS Procs, Sectors, Values, Nobody

VARIABLES
  content,  \* what each sector holds
  owner     \* who has it between bread and brelse

vars == <<content, owner>>

Init ==
  /\ content \in [Sectors -> Values]
  /\ owner = [s \in Sectors |-> Nobody]

Take(p, s) ==
  /\ owner[s] = Nobody
  /\ owner' = [owner EXCEPT ![s] = p]
  /\ UNCHANGED content

Put(p, s) ==
  /\ owner[s] = p
  /\ \E v \in Values : content' = [content EXCEPT ![s] = v]
  /\ owner' \in {owner, [owner EXCEPT ![s] = Nobody]}

Give(p, s) ==
  /\ owner[s] = p
  /\ owner' = [owner EXCEPT ![s] = Nobody]
  /\ UNCHANGED content

Next == \E p \in Procs, s \in Sectors : Take(p, s) \/ Put(p, s) \/ Give(p, s)

Spec == Init /\ [][Next]_vars
============================================================================
