------------------------------- MODULE Inodes -------------------------------
(***************************************************************************)
(* Inodes on disk and in the inode cache, and directories (fs.c).          *)
(*                                                                         *)
(* Each operation takes the state f of the file system and returns the     *)
(* next: dinode, the inodes on disk; ic, the cache entry of every inode    *)
(* number (ref = 0: none); entries, what the directories hold; ptr and     *)
(* used, the disk's blocks.  freed collects the inodes that an iput has to *)
(* free and woken the inodes whose sleepers are woken.  The place of an    *)
(* entry in icache, the blocks of directories and the order of names in    *)
(* one are left out; so is the log, whose transactions Log models.         *)
(***************************************************************************)
EXTENDS Blocks

CONSTANTS
  NINODES,       \* sb.ninodes
  NINODE,        \* entries of icache
  Names          \* names other than . and ..

ASSUME InodesAssumption == {NINODES, NINODE} \subseteq Nat \ {0}

ROOTINO == 1

Inums == 1 .. NINODES - 1

NoInode == [type |-> "", nlink |-> 0, size |-> 0, addrs |-> NoAddrs]

NoEntry == [ref |-> 0, busy |-> FALSE, valid |-> FALSE, ino |-> NoInode]

NoNames == [n \in Names \cup {".", ".."} |-> 0]

Panic(f, msg) == IF f.panic = "" THEN [f EXCEPT !.panic = msg] ELSE f

----------------------------------------------------------------------------
idup(f, i) == [f EXCEPT !.ic[i].ref = @ + 1]

iget(f, i) ==
  IF f.ic[i].ref > 0 THEN idup(f, i)
  ELSE IF Cardinality({j \in Inums : f.ic[j].ref > 0}) = NINODE THEN Panic(f, "iget: no inodes")
  ELSE [f EXCEPT !.ic[i] = [NoEntry EXCEPT !.ref = 1]]

\* With I_BUSY clear: take it, and read the inode if it is not valid.
ilock(f, i) ==
  IF f.ic[i].ref < 1 THEN Panic(f, "ilock")
  ELSE IF f.ic[i].valid THEN [f EXCEPT !.ic[i].busy = TRUE]
  ELSE LET g == [f EXCEPT !.ic[i] = [@ EXCEPT !.busy = TRUE, !.valid = TRUE, !.ino = f.dinode[i]]]
       IN  IF f.dinode[i].type = "" THEN Panic(g, "ilock: no type") ELSE g

\* Variant: iunlock does not wake those who wait for the inode.
iunlockSilent(f, i) ==
  IF ~f.ic[i].busy \/ f.ic[i].ref < 1 THEN Panic(f, "iunlock") ELSE [f EXCEPT !.ic[i].busy = FALSE]

iunlock(f, i) ==
  IF ~f.ic[i].busy \/ f.ic[i].ref < 1 THEN Panic(f, "iunlock")
  ELSE [f EXCEPT !.ic[i].busy = FALSE, !.woken = @ \cup {i}]

iupdate(f, i) == [f EXCEPT !.dinode[i] = f.ic[i].ino]

\* A reference is dropped; an entry without one may be recycled at any time.
unref(f, i) == IF f.ic[i].ref = 1 THEN [f EXCEPT !.ic[i] = NoEntry]
               ELSE [f EXCEPT !.ic[i].ref = @ - 1]

\* Variant: iput frees an inode whoever else refers to it.
iputAny(f, i) ==
  IF f.ic[i].valid /\ f.ic[i].ino.nlink = 0
  THEN IF f.ic[i].busy THEN Panic(f, "iput busy")
       ELSE [f EXCEPT !.ic[i].busy = TRUE, !.freed = @ \cup {i}]
  ELSE unref(f, i)

\* iput up to the release of icache.lock: the last reference to an inode
\* without links takes I_BUSY, and the caller goes on with iputFree.
iput(f, i) ==
  IF f.ic[i].ref = 1 /\ f.ic[i].valid /\ f.ic[i].ino.nlink = 0
  THEN IF f.ic[i].busy THEN Panic(f, "iput busy")
       ELSE [f EXCEPT !.ic[i].busy = TRUE, !.freed = @ \cup {i}]
  ELSE unref(f, i)

iunlockput(f, i) == iput(iunlock(f, i), i)

\* The tree of blocks of inode i, and i with the tree t.
Tree(f, i) ==
  [addrs |-> f.ic[i].ino.addrs, ptr |-> f.ptr, used |-> f.used, addr |-> 0, panic |-> ""]

WithTree(f, i, t) ==
  LET g == [f EXCEPT !.ic[i].ino.addrs = t.addrs, !.ptr = t.ptr, !.used = t.used]
  IN  IF t.panic = "" THEN g ELSE Panic(g, t.panic)

\* The rest of an iput that frees: itrunc, type = 0, iupdate.
iputFree(f, i) ==
  LET g == WithTree(f, i, itrunc(Tree(f, i)))
  IN  [iupdate([g EXCEPT !.ic[i].ino.type = "", !.ic[i].ino.size = 0], i)
       EXCEPT !.entries[i] = NoNames]

\* Its end: flags = 0, wakeup, ref--.
iputEnd(f, i) ==
  unref([f EXCEPT !.ic[i].busy = FALSE, !.ic[i].valid = FALSE, !.woken = @ \cup {i}], i)

\* The first inode that is free on disk, or 0, and its allocation.
FreeInode(f) == LET free == {i \in Inums : f.dinode[i].type = ""}
                IN  IF free = {} THEN 0 ELSE Min(free)

ialloc(f, type) ==
  IF FreeInode(f) = 0 THEN Panic(f, "ialloc: no inodes")
  ELSE iget([f EXCEPT !.dinode[FreeInode(f)] = [NoInode EXCEPT !.type = type]], FreeInode(f))

AddLinks(f, i, n) == iupdate([f EXCEPT !.ic[i].ino.nlink = @ + n], i)

----------------------------------------------------------------------------
\* The inode that a name in directory dp refers to, or 0.
dirlookup(f, dp, name) == f.entries[dp][name]

Taken(f, dp, name) == dirlookup(f, dp, name) # 0

\* Variant: dirlink keeps the reference to the inode it found.
dirlinkTakenKeeps(f, dp, name) == iget(f, dirlookup(f, dp, name))

\* dirlink with the name present: dirlookup's iget and the iput of it.
dirlinkTaken(f, dp, name) ==
  LET i == dirlookup(f, dp, name) IN iput(iget(f, i), i)

dirlink(f, dp, name, i) == [f EXCEPT !.entries[dp][name] = i]

isdirempty(f, dp) == \A n \in Names : f.entries[dp][n] = 0

\* What writei and readi may return, for n bytes at off of inode i.  A device
\* without a driver in devsw returns -1; what a driver returns is its own affair.
Written(f, i, off, n) ==
  CASE f.ic[i].ino.type = "DEV" -> {-1, n}
    [] off > f.ic[i].ino.size \/ off + n > MAXFILE * BSIZE -> {-1}
    [] OTHER -> {n}

readi(f, i, off, n) ==
  CASE f.ic[i].ino.type = "DEV" -> -1 .. n
    [] off > f.ic[i].ino.size -> {-1}
    [] OTHER -> {Min({n, f.ic[i].ino.size - off})}

\* Bytes off .. off + n - 1 of inode i are written.
writei(f, i, off, n) ==
  LET g == WithTree(f, i, writeBlocks(Tree(f, i), off, n)) IN
  IF f.ic[i].ino.type = "DEV" THEN f
  ELSE IF g.panic = "" /\ off + n > f.ic[i].ino.size
       THEN iupdate([g EXCEPT !.ic[i].ino.size = off + n], i)
  ELSE g

----------------------------------------------------------------------------
\* The image mkfs writes: the root directory with one file of size bytes.
Image(name, size) ==
  LET t == markUsed(mkfile(Blank, (size + BSIZE - 1) \div BSIZE))
      root == [NoInode EXCEPT !.type = "DIR", !.nlink = 1]
      file == [type |-> "FILE", nlink |-> 1, size |-> size, addrs |-> t.addrs]
  IN  [dinode |-> [i \in Inums |-> CASE i = ROOTINO -> root [] i = 2 -> file [] OTHER -> NoInode],
       ic |-> [i \in Inums |-> NoEntry],
       entries |-> [i \in Inums |-> IF i = ROOTINO
                      THEN [NoNames EXCEPT !["."] = ROOTINO, ![".."] = ROOTINO, ![name] = 2]
                      ELSE NoNames],
       ptr |-> t.ptr, used |-> t.used, panic |-> "", freed |-> {}, woken |-> {}]
============================================================================
