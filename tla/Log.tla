-------------------------------- MODULE Log --------------------------------
(***************************************************************************)
(* The write-ahead log of log.c, with the buffer cache and the disk as it  *)
(* uses them: group commit, and recovery from a crash at any point.        *)
(*                                                                         *)
(* Every bwrite is a step, and writes its sector whole or not at all.      *)
(* log_write takes no lock, so a timer interrupt can switch processes in   *)
(* the middle of it; with Preemptible FALSE it does not.                   *)
(***************************************************************************)
EXTENDS Integers, FiniteSetsExt, Lists

CONSTANTS
  Procs, Sectors, Values,
  MAXOPBLOCKS, LOGSIZE,
  NLOG,         \* log.size: the log's sectors on disk, its header included
  Preemptible

ASSUME LogAssumption ==
  /\ MAXOPBLOCKS \in Nat \ {0} /\ LOGSIZE \in Nat \ {0} /\ NLOG \in Nat \ {0, 1}
  /\ Preemptible \in BOOLEAN
  /\ MAXOPBLOCKS <= LOGSIZE
  /\ IsFiniteSet(Procs)

LogBlocks == 1 .. NLOG - 1

VARIABLES
  home, logged, head,      \* on disk: the blocks, the log's blocks, its header
  buf, dirty,              \* the cached contents, and the blocks pinned
  lh,                      \* log.lh.sector, the first log.lh.n of it
  outstanding, committing,
  pc,                      \* where each process is
  wrote,                   \* the blocks each process's operation has logged
  writing,                 \* the calls of log_write under way
  phase, tail,             \* where commit or recover_from_log is
  machine                  \* "off", "boot", "up" or "panic"

disk == <<home, logged, head>>

cache == <<buf, dirty>>

counts == <<outstanding, committing>>

ops == <<pc, wrote, writing>>

vars == <<disk, cache, lh, counts, ops, phase, tail, machine>>

n == Len(lh)

Init ==
  /\ \E v \in Values :
       /\ home = [s \in Sectors |-> v]
       /\ logged = [i \in LogBlocks |-> v]
  /\ head = <<>>
  /\ buf = home /\ dirty = {}
  /\ lh = <<>>
  /\ outstanding = 0 /\ committing = FALSE
  /\ pc = [p \in Procs |-> "user"]
  /\ wrote = [p \in Procs |-> {}]
  /\ writing = {}
  /\ phase = "none" /\ tail = 1
  /\ machine = "off"

----------------------------------------------------------------------------
Runs(p) ==
  /\ machine = "up"
  /\ Preemptible \/ \A q \in Procs \ {p} : pc[q] # "log_write"

wakeup == [q \in Procs |-> IF pc[q] = "sleep" THEN "woken" ELSE pc[q]]

begin_op(p) ==
  /\ Runs(p) /\ pc[p] \in {"user", "woken"}
  /\ IF committing \/ n + (outstanding + 1) * MAXOPBLOCKS > LOGSIZE
     THEN /\ pc' = [pc EXCEPT ![p] = "sleep"]
          /\ UNCHANGED <<outstanding, wrote>>
     ELSE /\ pc' = [pc EXCEPT ![p] = "op"]
          /\ outstanding' = outstanding + 1
          /\ wrote' = [wrote EXCEPT ![p] = {}]
  /\ UNCHANGED <<disk, cache, lh, committing, writing, phase, tail, machine>>

panic == machine' = "panic" /\ UNCHANGED <<disk, cache, lh, counts, ops, phase, tail>>

\* The log has no room for another block.
Full == n >= LOGSIZE \/ n >= NLOG - 1

\* The entry of a block in the header, or the next free one.
Entry(s) == IF s \in Range(lh) THEN Min({i \in 1 .. n : lh[i] = s}) ELSE n + 1

\* log_write up to its search.  The caller has the buffer busy, with the new
\* value in it.
log_write(p) ==
  /\ Runs(p) /\ pc[p] = "op" /\ Cardinality(wrote[p]) < MAXOPBLOCKS
  /\ IF Full \/ outstanding < 1
     THEN panic
     ELSE \E s \in Sectors \ wrote[p], v \in Values :
            /\ \A w \in writing : w.sector # s
            /\ writing' = writing \cup {[proc |-> p, sector |-> s, value |-> v, i |-> Entry(s)]}
            /\ pc' = [pc EXCEPT ![p] = "log_write"]
            /\ UNCHANGED <<disk, cache, lh, counts, wrote, phase, tail, machine>>

\* The rest: the block enters the header at the index found, and is pinned.
record(p) ==
  /\ Runs(p) /\ pc[p] = "log_write"
  /\ \E w \in writing :
     /\ w.proc = p
     /\ lh' = IF w.i = n + 1 THEN Append(lh, w.sector) ELSE [lh EXCEPT ![w.i] = w.sector]
     /\ buf' = [buf EXCEPT ![w.sector] = w.value]
     /\ dirty' = dirty \cup {w.sector}
     /\ wrote' = [wrote EXCEPT ![p] = @ \cup {w.sector}]
     /\ writing' = writing \ {w}
  /\ pc' = [pc EXCEPT ![p] = "op"]
  /\ UNCHANGED <<disk, counts, phase, tail, machine>>

end_op(p) ==
  /\ Runs(p) /\ pc[p] = "op"
  /\ IF committing THEN panic
     ELSE /\ outstanding' = outstanding - 1
          /\ IF outstanding' = 0
             THEN /\ committing' = TRUE
                  /\ pc' = [pc EXCEPT ![p] = "commit"]
                  /\ phase' = IF n > 0 THEN "write_log" ELSE "done"
                  /\ tail' = 1
             ELSE /\ pc' = [wakeup EXCEPT ![p] = "user"]
                  /\ UNCHANGED <<committing, phase, tail>>
          /\ wrote' = [wrote EXCEPT ![p] = {}]
          /\ UNCHANGED <<disk, cache, lh, writing, machine>>

\* Variant: tail++ is missing.
LoopStuck(here, after) ==
  /\ phase = here
  /\ IF tail < n THEN tail' = tail /\ phase' = here
                 ELSE tail' = 1 /\ phase' = after

\* A loop of bwrites over the header's entries, and the phase after it.
Loop(here, after) ==
  /\ phase = here
  /\ IF tail < n THEN tail' = tail + 1 /\ phase' = here
                 ELSE tail' = 1 /\ phase' = after

\* Variant: commit goes on without the first write_head.
write_logOnly ==
  /\ Loop("write_log", "install_trans")
  /\ logged' = [logged EXCEPT ![tail] = buf[lh[tail]]]
  /\ UNCHANGED <<home, head, cache, lh, counts, ops, machine>>

write_log ==
  /\ Loop("write_log", "write_head")
  /\ logged' = [logged EXCEPT ![tail] = buf[lh[tail]]]
  /\ UNCHANGED <<home, head, cache, lh, counts, ops, machine>>

write_head ==
  /\ phase = "write_head"
  /\ head' = lh
  /\ phase' = "install_trans"
  /\ UNCHANGED <<home, logged, cache, lh, counts, ops, tail, machine>>

install_trans ==
  /\ Loop("install_trans", "clear")
  /\ buf' = [buf EXCEPT ![lh[tail]] = logged[tail]]
  /\ dirty' = dirty \ {lh[tail]}
  /\ home' = [home EXCEPT ![lh[tail]] = logged[tail]]
  /\ UNCHANGED <<logged, head, lh, counts, ops, machine>>

\* log.lh.n = 0 and write_head again.
clear ==
  /\ phase = "clear"
  /\ lh' = <<>> /\ head' = <<>>
  /\ phase' = IF machine = "boot" THEN "none" ELSE "done"
  /\ machine' = "up"
  /\ UNCHANGED <<home, logged, cache, counts, ops, tail>>

commit(p) ==
  /\ Runs(p) /\ pc[p] = "commit"
  /\ write_log \/ write_head \/ install_trans \/ clear

\* Variant: the end of a commit wakes nobody.
committedSilent(p) ==
  /\ Runs(p) /\ pc[p] = "commit" /\ phase = "done"
  /\ phase' = "none"
  /\ committing' = FALSE
  /\ pc' = [pc EXCEPT ![p] = "user"]
  /\ UNCHANGED <<disk, cache, lh, outstanding, wrote, writing, tail, machine>>

committed(p) ==
  /\ Runs(p) /\ pc[p] = "commit" /\ phase = "done"
  /\ phase' = "none"
  /\ committing' = FALSE
  /\ pc' = [wakeup EXCEPT ![p] = "user"]
  /\ UNCHANGED <<disk, cache, lh, outstanding, wrote, writing, tail, machine>>

\* bget gives a clean buffer to another block; the next bread reads the disk.
recycle(s) ==
  /\ machine = "up" /\ s \notin dirty
  /\ buf' = [buf EXCEPT ![s] = home[s]]
  /\ UNCHANGED <<disk, dirty, lh, counts, ops, phase, tail, machine>>

----------------------------------------------------------------------------
\* The memory is lost, and with it everything cached that is not on disk.
crash ==
  /\ machine # "off"
  /\ machine' = "off"
  /\ buf' = home /\ dirty' = {}
  /\ lh' = <<>>
  /\ outstanding' = 0 /\ committing' = FALSE
  /\ pc' = [p \in Procs |-> "user"]
  /\ wrote' = [p \in Procs |-> {}]
  /\ writing' = {}
  /\ phase' = "none" /\ tail' = 1
  /\ UNCHANGED disk

\* read_head, and the start of recover_from_log's install_trans.
initlog ==
  /\ machine = "off"
  /\ machine' = "boot"
  /\ lh' = head
  /\ phase' = IF head = <<>> THEN "clear" ELSE "install_trans"
  /\ UNCHANGED <<disk, cache, counts, ops, tail>>

recover_from_log == machine = "boot" /\ (install_trans \/ clear)

Step(p) == begin_op(p) \/ log_write(p) \/ record(p) \/ end_op(p) \/ commit(p) \/ committed(p)

Next ==
  \/ \E p \in Procs : Step(p)
  \/ \E s \in Sectors : recycle(s)
  \/ crash \/ initlog \/ recover_from_log

Spec == Init /\ [][Next]_vars

\* A process in the middle of an operation or a commit is scheduled.
Progress(p) == pc[p] # "user" /\ Step(p)

FairSpec == Spec /\ \A p \in Procs : WF_vars(Progress(p))

----------------------------------------------------------------------------
\* What recovery would make of the disk as it is.
Recovered ==
  [s \in Sectors |->
     IF s \in Range(head) THEN logged[Max({i \in 1 .. Len(head) : head[i] = s})] ELSE home[s]]

\* The file system calls see the cache, and a crash leaves what recovery makes
\* of the disk.
Store == INSTANCE AtomicStore WITH
  mem <- IF machine \in {"up", "panic"} THEN buf ELSE Recovered,
  durable <- Recovered,
  active <- {p \in Procs : pc[p] \in {"op", "log_write"}}

\* A crash at any point, in a commit or in a recovery as well, keeps all or
\* none of the writes of the operations that committed together, and never a
\* part of an operation (commit and recover_from_log, log.c).
AllOrNothing == Store!Spec

\* Outside a commit, the blocks pinned in the cache are the ones the log header
\* lists, each once: what log_write recorded, the next commit writes.
PinnedIsLogged ==
  (machine = "up" /\ ~committing)
    => dirty = Range(lh) /\ Cardinality(Range(lh)) = n

\* Whenever a process is asleep in begin_op, for room in the log or for the end
\* of a commit, another is in an operation or in its commit, and will come to a
\* wakeup: an empty log has room for an operation, and end_op's count of the
\* others is right.
SleeperHasOp ==
  (\E p \in Procs : pc[p] = "sleep")
    => \E q \in Procs : pc[q] \in {"op", "log_write", "commit"}

\* An operation under way ends, its commit included, and a process asleep in
\* begin_op is woken, unless the machine stops.  (A process that is woken may
\* find the log full again and go back to sleep.)
OpsEnd ==
  \A p \in Procs :
    pc[p] \in {"op", "sleep"} ~> pc[p] \in {"user", "woken"} \/ machine = "panic"
============================================================================
