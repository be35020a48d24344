---------------------------- MODULE BufferCache ----------------------------
(***************************************************************************)
(* The buffer cache, bio.c, over the driver of Ide: one buffer per cached  *)
(* sector, handed to one process at a time, the least recently used clean  *)
(* one recycled.                                                           *)
(*                                                                         *)
(* The callers are the file system and the log.  They hold at most two     *)
(* buffers, taken in one order (an indirect block before the bitmap, a     *)
(* block of the log before the one it copies), in which the sectors are    *)
(* numbered here; on the disk the second is often the lower one.  After    *)
(* changing a buffer they call log_write, which pins it by B_DIRTY, or     *)
(* bwrite.                                                                 *)
(***************************************************************************)
EXTENDS Ide

CONSTANTS
  MAXPINS        \* how many blocks the log has room for

VARIABLES
  lru,           \* bcache.head's list, most recently used first
  want,          \* the sector each process has asked for
  held           \* the buffers each process has

vars == <<buf, ideVars, chan, at, cur, machine, lru, want, held>>

Pinned == {b \in Bufs : Dirty(b) /\ ~Busy(b)}

\* binit; the drive and the processes are idle.
Init ==
  /\ \E v \in Values : disk = [s \in Sectors |-> v]
  /\ buf = [b \in Bufs |-> [sector |-> NoSector, data |-> CHOOSE v \in Values : TRUE,
                            flags |-> [busy |-> FALSE, valid |-> FALSE, dirty |-> FALSE]]]
  /\ lru = [i \in Bufs |-> NBUF + 1 - i]      \* each before the one linked last
  /\ idequeue = <<>> /\ drive = <<>>
  /\ chan = [p \in Procs |-> None]
  /\ at = [p \in Procs |-> "run"]
  /\ cur = [p \in Procs |-> None]
  /\ want = [p \in Procs |-> NoSector]
  /\ held = [p \in Procs |-> {}]
  /\ machine = "up"

----------------------------------------------------------------------------
\* A process calls bread.
call(p, s) ==
  /\ machine = "up" /\ at[p] = "run" /\ Cardinality(held[p]) < 2
  /\ \A b \in held[p] : buf[b].sector < s
  /\ want' = [want EXCEPT ![p] = s]
  /\ at' = [at EXCEPT ![p] = "bget"]
  /\ UNCHANGED <<buf, ideVars, chan, cur, machine, lru, held>>

Cached(s) == {b \in Bufs : buf[b].sector = s}

\* Variant: a buffer with changes that only the log knows of is recycled.
RecyclableIdle(b) == ~Busy(b)

Recyclable(b) == ~Busy(b) /\ ~Dirty(b)

\* The sector's buffer is busy: sleep on it, and look for the sector again.
bgetSleep(p, b) ==
  /\ chan' = [chan EXCEPT ![p] = b]
  /\ UNCHANGED <<buf, at, cur, held, want, machine>>

\* bread goes on to iderw when the buffer has no data.
bgetReturn(p, b) ==
  /\ LET valid == buf'[b].flags.valid IN
       /\ cur' = [cur EXCEPT ![p] = IF valid THEN None ELSE b]
       /\ at' = [at EXCEPT ![p] = IF valid THEN "run" ELSE "iderw"]
  /\ held' = [held EXCEPT ![p] = @ \cup {b}]
  /\ want' = [want EXCEPT ![p] = NoSector]
  /\ UNCHANGED <<chan, machine>>

\* The least recently used buffer that may be recycled.
Victim == lru[Max({i \in 1 .. Len(lru) : Recyclable(lru[i])})]

\* One pass of bget's loop, under bcache.lock.
bget(p) ==
  /\ machine = "up" /\ at[p] = "bget" /\ chan[p] = None
  /\ LET s == want[p] IN
     \/ \E b \in Cached(s) :
          \/ Busy(b) /\ bgetSleep(p, b)
          \/ /\ ~Busy(b)
             /\ buf' = [buf EXCEPT ![b].flags.busy = TRUE]
             /\ bgetReturn(p, b)
     \/ /\ Cached(s) = {} /\ \E b \in Bufs : Recyclable(b)
        /\ buf' = [buf EXCEPT ![Victim].sector = s,
                     ![Victim].flags = [busy |-> TRUE, valid |-> FALSE, dirty |-> FALSE]]
        /\ bgetReturn(p, Victim)
     \/ /\ Cached(s) = {} /\ \A b \in Bufs : ~Recyclable(b)
        /\ machine' = "bget: no buffers"
        /\ UNCHANGED <<buf, chan, at, cur, held, want>>
  /\ UNCHANGED <<ideVars, lru>>

\* The holder changes the block and calls log_write.
log_write(p, b, v) ==
  /\ machine = "up" /\ at[p] = "run" /\ b \in held[p]
  /\ Dirty(b) \/ Cardinality({c \in Bufs : Dirty(c)}) < MAXPINS
  /\ buf' = [buf EXCEPT ![b].data = v, ![b].flags.dirty = TRUE]
  /\ UNCHANGED <<ideVars, chan, at, cur, machine, lru, want, held>>

\* The holder changes the block and calls bwrite.
bwrite(p, b, v) ==
  /\ machine = "up" /\ at[p] = "run" /\ b \in held[p]
  /\ IF Busy(b)
       THEN /\ buf' = [buf EXCEPT ![b].data = v, ![b].flags.dirty = TRUE]
            /\ cur' = [cur EXCEPT ![p] = b]
            /\ at' = [at EXCEPT ![p] = "iderw"]
            /\ UNCHANGED machine
       ELSE machine' = "bwrite" /\ UNCHANGED <<buf, cur, at>>
  /\ UNCHANGED <<ideVars, chan, lru, want, held>>

\* Variant: the wakeup is missing.
brelseSilent(p, b) ==
  /\ machine = "up" /\ at[p] = "run" /\ b \in held[p]
  /\ lru' = <<b>> \o RemoveFirst(lru, b)
  /\ buf' = [buf EXCEPT ![b].flags.busy = FALSE]
  /\ held' = [held EXCEPT ![p] = @ \ {b}]
  /\ UNCHANGED <<ideVars, at, cur, machine, want, chan>>

brelse(p, b) ==
  /\ machine = "up" /\ at[p] = "run" /\ b \in held[p]
  /\ IF Busy(b)
       THEN /\ lru' = <<b>> \o RemoveFirst(lru, b)
            /\ buf' = [buf EXCEPT ![b].flags.busy = FALSE]
            /\ chan' = wakeup(b)
            /\ held' = [held EXCEPT ![p] = @ \ {b}]
            /\ UNCHANGED machine
       ELSE machine' = "brelse" /\ UNCHANGED <<lru, buf, chan, held>>
  /\ UNCHANGED <<ideVars, at, cur, want>>

\* panic stops the machine.
stopped == machine # "up" /\ UNCHANGED vars

Next ==
  \/ \E p \in Procs :
       \/ \E s \in Sectors : call(p, s)
       \/ bget(p)
       \/ iderw(p) /\ UNCHANGED <<lru, want, held>>
       \/ iderwWoken(p) /\ UNCHANGED <<lru, want, held>>
       \/ kill(p) /\ UNCHANGED <<lru, want, held>>
       \/ \E b \in held[p] : brelse(p, b)
       \/ \E b \in held[p], v \in Values : log_write(p, b, v) \/ bwrite(p, b, v)
  \/ ideintr /\ UNCHANGED <<lru, want, held>>
  \/ stopped

Spec == Init /\ [][Next]_vars

\* A process on its way through iderw is scheduled in the end, and the drive
\* finishes what it was given.
FairSpec ==
  /\ Spec
  /\ \A p \in Procs :
       /\ WF_vars(iderw(p) /\ UNCHANGED <<lru, want, held>>)
       /\ WF_vars(iderwWoken(p) /\ UNCHANGED <<lru, want, held>>)
  /\ WF_vars(ideintr /\ UNCHANGED <<lru, want, held>>)

----------------------------------------------------------------------------
\* Who sleeps on a buffer will be woken: in bget somebody has it busy, in iderw
\* it is queued for the drive, which works on the head of the queue.
SleeperHasWaker ==
  /\ \A p \in Procs : chan[p] # None =>
       \/ at[p] = "bget" /\ Busy(chan[p])
       \/ at[p] = "io" /\ chan[p] \in Range(idequeue)
  /\ idequeue # <<>> =>
       /\ drive # <<>>
       /\ LET b == Head(idequeue) IN
            /\ drive[1].sector = buf[b].sector /\ drive[1].write = Dirty(b)
            /\ drive[1].write => drive[1].data = buf[b].data

\* The cache and the driver together are a store of sectors (bread's and
\* bwrite's comments): a sector has one owner at a time, and only its owner
\* changes what the next owner finds, through recycling, pinning, requests
\* in the queue and wakeups for another reason.
Owner(s) ==
  LET own == {p \in Procs : \E b \in held[p] :
                buf[b].sector = s /\ ~(cur[p] = b /\ ~Valid(b))}
  IN  IF own = {} THEN None ELSE CHOOSE p \in own : TRUE

Content(s) ==
  LET cached == {b \in Bufs : buf[b].sector = s /\ Valid(b)}
  IN  IF cached = {} THEN disk[s] ELSE buf[CHOOSE b \in cached : TRUE].data

Store == INSTANCE SectorStore WITH
  content <- [s \in Sectors |-> Content(s)],
  owner <- [s \in Sectors |-> Owner(s)],
  Nobody <- None

ImplementsStore == Store!Spec

\* Every request iderw queues comes to its end, unless the machine has
\* stopped: the drive works the queue off and each wakeup reaches the sleeper.
IoReturns == \A p \in Procs : at[p] \in {"iderw", "io"} ~> at[p] = "run" \/ machine # "up"
============================================================================
