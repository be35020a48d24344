---------------------------- MODULE AtomicStore ----------------------------
(***************************************************************************)
(* What the log promises the file system calls: their writes survive a     *)
(* crash all or none.  The writes of the operations under way reach the    *)
(* disk together, at a moment when no operation is half done, and a crash  *)
(* goes back to the last such moment.                                      *)
(***************************************************************************)
CONSTANTS Procs, Sectors, Values

VARIABLES
  mem,      \* what the calls read and write
  durable,  \* what a crash leaves
  active    \* the processes between begin_op and end_op

vars == <<mem, durable, active>>

Init ==
  /\ mem \in [Sectors -> Values]
  /\ durable = mem
  /\ active = {}

Begin(p) ==
  /\ p \notin active
  /\ active' = active \cup {p}
  /\ UNCHANGED <<mem, durable>>

Write(p) ==
  /\ p \in active
  /\ \E s \in Sectors, v \in Values : mem' = [mem EXCEPT ![s] = v]
  /\ UNCHANGED <<durable, active>>

End(p) ==
  /\ p \in active
  /\ active' = active \ {p}
  /\ UNCHANGED <<mem, durable>>

Sync ==
  /\ active = {}
  /\ durable' = mem
  /\ UNCHANGED <<mem, active>>

Crash ==
  /\ mem' = durable
  /\ active' = {}
  /\ UNCHANGED durable

Next == Sync \/ Crash \/ \E p \in Procs : Begin(p) \/ Write(p) \/ End(p)

Spec == Init /\ [][Next]_vars
============================================================================
