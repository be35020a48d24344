-------------------------------- MODULE Ide --------------------------------
(***************************************************************************)
(* The disk driver, ide.c: a queue of buffers whose first element is the   *)
(* request the drive works on, iderw that appends and sleeps, and ideintr  *)
(* that finishes the first request and starts the next.                    *)
(*                                                                         *)
(* A buffer is the struct buf of buf.h, its flags as Booleans; dev and     *)
(* sector are one value.  sleep releases the lock and marks the process in *)
(* one step, so a section between two sleeps is one action.                *)
(***************************************************************************)
EXTENDS Integers, FiniteSetsExt, Lists

CONSTANTS
  Procs, Sectors, Values,
  NBUF,          \* how many buffers there are
  NoSector,      \* the sector of a buffer that binit made (dev is -1)
  None,          \* no buffer: the channel of a process that does not sleep
  ReadOk         \* what idewait(1) can answer: {TRUE}, or with FALSE for a drive with errors

\* The array bcache.buf, as its indices.
Bufs == 1 .. NBUF

ASSUME BufsAssumption == NBUF \in Nat /\ None \notin Bufs \cup Procs

ASSUME DiskAssumption == NoSector \notin Sectors /\ Values # {} /\ ReadOk \subseteq BOOLEAN

VARIABLES
  buf,           \* the buffers
  idequeue,
  drive,         \* the command the drive has: write or read, the sector, the data sent
  disk,
  chan,          \* the buffer each process sleeps on
  at, cur,       \* where each process is, and with which buffer
  machine        \* "up", or the message of the panic

ideVars == <<idequeue, drive, disk>>

Busy(b) == buf[b].flags.busy

Valid(b) == buf[b].flags.valid

Dirty(b) == buf[b].flags.dirty

Synced(f) == f.valid /\ ~f.dirty

\* Wake every process that sleeps on c.
wakeup(c) == [p \in Procs |-> IF chan[p] = c THEN None ELSE chan[p]]

\* kill makes a sleeping process runnable whatever it sleeps on; bget and
\* iderw take no note of killed, they look again.
kill(p) ==
  /\ machine = "up" /\ chan[p] # None
  /\ chan' = [chan EXCEPT ![p] = None]
  /\ UNCHANGED <<buf, ideVars, at, cur, machine>>

\* idestart hands the drive the command and, for a write, the data at once.
idestart(b) == <<[write |-> Dirty(b), sector |-> buf[b].sector, data |-> buf[b].data]>>

iderw(p) ==
  /\ machine = "up" /\ at[p] = "iderw"
  /\ LET b == cur[p] IN
       IF Busy(b) /\ ~Synced(buf[b].flags)
       THEN /\ idequeue' = Append(idequeue, b)
            /\ drive' = IF idequeue = <<>> THEN idestart(b) ELSE drive
            /\ chan' = [chan EXCEPT ![p] = b]
            /\ at' = [at EXCEPT ![p] = "io"]
            /\ UNCHANGED <<disk, machine>>
       ELSE /\ machine' = IF Busy(b) THEN "iderw: nothing to do" ELSE "iderw: buf not busy"
            /\ UNCHANGED <<ideVars, chan, at>>
  /\ UNCHANGED <<buf, cur>>

\* iderw after its sleep: the test of the while loop again.
iderwWoken(p) ==
  /\ machine = "up" /\ at[p] = "io" /\ chan[p] = None
  /\ IF Synced(buf[cur[p]].flags)
       THEN /\ at' = [at EXCEPT ![p] = "run"]
            /\ cur' = [cur EXCEPT ![p] = None]
            /\ UNCHANGED chan
       ELSE chan' = [chan EXCEPT ![p] = cur[p]] /\ UNCHANGED <<at, cur>>
  /\ UNCHANGED <<buf, ideVars, machine>>

\* The drive: a write has the data on the platter when it interrupts.
platter == IF drive[1].write THEN [disk EXCEPT ![drive[1].sector] = drive[1].data] ELSE disk

\* Variant: a write goes back into the queue.
ideintrRetries ==
  /\ machine = "up" /\ drive # <<>> /\ idequeue # <<>>
  /\ LET b == Head(idequeue)
         rest == IF Dirty(b) THEN Append(Tail(idequeue), b) ELSE Tail(idequeue)
     IN  /\ IF Dirty(b)
             THEN UNCHANGED <<buf, chan>>
             ELSE /\ buf' = [buf EXCEPT ![b].flags.valid = TRUE, ![b].data = disk[drive[1].sector]]
                  /\ chan' = wakeup(b)
         /\ idequeue' = rest
         /\ drive' = IF rest = <<>> THEN <<>> ELSE idestart(Head(rest))
  /\ disk' = platter
  /\ UNCHANGED <<at, cur, machine>>

\* The drive's interrupt.  An interrupt with nothing queued changes nothing.
ideintr ==
  /\ machine = "up" /\ drive # <<>> /\ idequeue # <<>>
  /\ \E ok \in ReadOk :
       LET b == Head(idequeue)
           rest == Tail(idequeue)
       IN  /\ buf' = [buf EXCEPT ![b].flags.valid = TRUE, ![b].flags.dirty = FALSE,
                                 ![b].data = IF Dirty(b) \/ ~ok THEN @ ELSE disk[drive[1].sector]]
           /\ chan' = wakeup(b)
           /\ idequeue' = rest
           /\ drive' = IF rest = <<>> THEN <<>> ELSE idestart(Head(rest))
  /\ disk' = platter
  /\ UNCHANGED <<at, cur, machine>>
============================================================================
