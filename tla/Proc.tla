-------------------------------- MODULE Proc --------------------------------
(***************************************************************************)
(* The process table (proc.c): each operator is what one section under     *)
(* ptable.lock makes of the table t, a function from slots to records.     *)
(* Slot 1 holds initproc.  The parent is a slot, 0 for none; chan is 0 or  *)
(* what the process sleeps on.  A process that runs and one that may run   *)
(* are told apart, so that there is one running at a time.                 *)
(***************************************************************************)
EXTENDS Integers, FiniteSetsExt

CONSTANT NPROC

ASSUME ProcAssumption == NPROC \in Nat \ {0, 1}

Slots == 1 .. NPROC

initproc == 1

States == {"UNUSED", "EMBRYO", "SLEEPING", "RUNNABLE", "RUNNING", "ZOMBIE"}

NoChan == <<"none", 0>>

Unused == [state |-> "UNUSED", pid |-> 0, parent |-> 0, chan |-> NoChan, killed |-> FALSE]

\* The slot allocproc takes, 0 if there is none, and the table with it taken.
FreeSlot(t) == LET free == {s \in Slots : t[s].state = "UNUSED"}
               IN  IF free = {} THEN 0 ELSE Min(free)

allocproc(t, pid) == [t EXCEPT ![FreeSlot(t)] = [@ EXCEPT !.state = "EMBRYO", !.pid = pid]]

\* The end of fork: the child is complete and may run.
forkEnd(t, s, parent) == [t EXCEPT ![s] = [@ EXCEPT !.parent = parent, !.state = "RUNNABLE"]]

wakeup1(t, chan) ==
  [s \in Slots |-> IF t[s].state = "SLEEPING" /\ t[s].chan = chan
                   THEN [t[s] EXCEPT !.state = "RUNNABLE", !.chan = NoChan] ELSE t[s]]

sleep(t, s, chan) == [t EXCEPT ![s] = [@ EXCEPT !.state = "SLEEPING", !.chan = chan]]

yield(t, s) == [t EXCEPT ![s].state = "RUNNABLE"]

\* Variant: kill leaves a sleeping process asleep.
killAsleep(t, pid) == [s \in Slots |-> IF t[s].pid = pid THEN [t[s] EXCEPT !.killed = TRUE] ELSE t[s]]

\* kill of a pid that some slot holds.
kill(t, pid) ==
  LET s == Min({r \in Slots : t[r].pid = pid}) IN
  [t EXCEPT ![s] = [t[s] EXCEPT !.killed = TRUE,
                                !.state = IF @ = "SLEEPING" THEN "RUNNABLE" ELSE @,
                                !.chan = NoChan]]

Children(t, s) == {c \in Slots : t[c].parent = s}

Zombies(t, s) == {c \in Children(t, s) : t[c].state = "ZOMBIE"}

\* exit under ptable.lock: the parent is woken, the children go to init, which
\* is woken for those that are zombies, and the process is a zombie.
exit(t, s) ==
  LET woken == wakeup1(t, <<"proc", t[s].parent>>)
      all == IF Zombies(t, s) # {} THEN wakeup1(woken, <<"proc", initproc>>) ELSE woken
  IN  [c \in Slots |-> IF c = s THEN [all[c] EXCEPT !.state = "ZOMBIE"]
                       ELSE IF t[c].parent = s THEN [all[c] EXCEPT !.parent = initproc]
                       ELSE all[c]]

\* wait frees the slot of a zombie child.
reap(t, c) == [t EXCEPT ![c] = Unused]

\* The next process the scheduler's loop comes to after slot last.
Following(last) == [k \in 1 .. NPROC |-> ((last + k - 1) % NPROC) + 1]

\* Variant: the process in the highest slot is taken.
NextRunnableLast(t, last) ==
  LET rs == {s \in Slots : t[s].state = "RUNNABLE"} IN IF rs = {} THEN 0 ELSE Max(rs)

NextRunnable(t, last) ==
  LET ks == {k \in 1 .. NPROC : t[Following(last)[k]].state = "RUNNABLE"}
  IN  IF ks = {} THEN 0 ELSE Following(last)[Min(ks)]

scheduler(t, last) == [t EXCEPT ![NextRunnable(t, last)].state = "RUNNING"]
============================================================================
