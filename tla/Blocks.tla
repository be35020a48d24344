------------------------------- MODULE Blocks -------------------------------
(***************************************************************************)
(* The blocks of a file: the bitmap of balloc and bfree, the pointers that *)
(* bmap follows and makes, what itrunc gives back (fs.c), and the same     *)
(* tree as mkfs.c builds it.                                               *)
(*                                                                         *)
(* A tree is a record: addrs, the inode's pointers; ptr, the pointers in   *)
(* every block; used, the bitmap; panic.  0 is the null pointer.           *)
(***************************************************************************)
EXTENDS Integers, FiniteSetsExt, SequencesExt

CONSTANTS
  NDIRECT, NINDIRECT,
  SIZE,          \* sb.size: the blocks of the disk
  DATASTART,     \* the blocks before it hold no data
  BSIZE          \* bytes in a block

ASSUME BlocksAssumption ==
  /\ {NDIRECT, NINDIRECT, SIZE, DATASTART, BSIZE} \subseteq Nat \ {0}
  /\ DATASTART < SIZE

MAXFILE == NDIRECT + NINDIRECT + NINDIRECT * NINDIRECT

DataBlocks == DATASTART .. SIZE - 1

NoAddrs == [k \in 0 .. NDIRECT + 1 |-> 0]

NoPtrs == [k \in 0 .. NINDIRECT - 1 |-> 0]

----------------------------------------------------------------------------
\* The first free block, cleared.
balloc(t) ==
  LET free == DataBlocks \ t.used IN
  IF free = {} THEN [t EXCEPT !.panic = "balloc: out of blocks", !.addr = 0]
  ELSE [t EXCEPT !.used = @ \cup {Min(free)}, !.ptr[Min(free)] = NoPtrs, !.addr = Min(free)]

bfree(t, b) ==
  IF b \in t.used THEN [t EXCEPT !.used = @ \ {b}] ELSE [t EXCEPT !.panic = "freeing free block"]

\* The indices bmap goes through to block bn of a file: in the inode, in the
\* indirect block, in the block below it.
Steps(bn) ==
  IF bn < NDIRECT THEN <<bn>>
  ELSE IF bn < NDIRECT + NINDIRECT THEN <<NDIRECT, bn - NDIRECT>>
  ELSE LET n == bn - NDIRECT - NINDIRECT IN <<NDIRECT + 1, n \div NINDIRECT, n % NINDIRECT>>

\* From block t.addr (0: the inode) through pointer k, which is made if null.
follow(t, k) ==
  LET here == t.addr
      next == IF here = 0 THEN t.addrs[k] ELSE t.ptr[here][k]
      new == balloc(t)
  IN  IF t.panic # "" THEN t
      ELSE IF next # 0 THEN [t EXCEPT !.addr = next]
      ELSE IF new.panic # "" THEN new
      ELSE IF here = 0 THEN [new EXCEPT !.addrs[k] = new.addr]
      ELSE [new EXCEPT !.ptr[here][k] = new.addr]

bmap(t, bn) ==
  IF bn >= MAXFILE THEN [t EXCEPT !.panic = "bmap: out of range"]
  ELSE FoldLeft(follow, [t EXCEPT !.addr = 0], Steps(bn))

\* The direct blocks, the indirect block and the ones it names are freed.  What
\* hangs on the double indirect pointer is not, and the pointer stays.
itrunc(t) ==
  LET ind == t.addrs[NDIRECT]
      direct == {t.addrs[k] : k \in 0 .. NDIRECT - 1} \ {0}
      below == IF ind = 0 THEN {} ELSE {t.ptr[ind][k] : k \in DOMAIN NoPtrs} \ {0}
      freed == FoldSet(LAMBDA b, u : bfree(u, b), t, direct \cup below \cup ({ind} \ {0}))
  IN  [freed EXCEPT !.addrs = [NoAddrs EXCEPT ![NDIRECT + 1] = t.addrs[NDIRECT + 1]]]

\* The blocks writei goes through for bytes off to off + n - 1.
writeBlocks(t, off, n) ==
  FoldLeft(bmap, t, [k \in 1 .. (off + n - 1) \div BSIZE - off \div BSIZE + 1 |->
                       off \div BSIZE + k - 1])

----------------------------------------------------------------------------
\* The blocks a file's pointers reach: direct, indirect, double indirect.
Below(t, b) == IF b = 0 THEN {} ELSE {t.ptr[b][k] : k \in DOMAIN NoPtrs} \ {0}

Reach(t) ==
  LET ind == t.addrs[NDIRECT]
      dind == t.addrs[NDIRECT + 1]
  IN  ({t.addrs[k] : k \in DOMAIN NoAddrs} \ {0}) \cup Below(t, ind) \cup Below(t, dind)
      \cup UNION {Below(t, b) : b \in Below(t, dind)}

----------------------------------------------------------------------------
\* iappend of mkfs.c for the block fbn: where it puts the data, with blocks
\* taken from freeblock upwards.
fresh(t) == [t EXCEPT !.next = @ + 1]

appendDirect(t, fbn) ==
  LET u == IF t.addrs[fbn] = 0 THEN [fresh(t) EXCEPT !.addrs[fbn] = t.next] ELSE t
  IN  [u EXCEPT !.addr = u.addrs[fbn]]

appendIndirect(t, k) ==
  LET u == IF t.addrs[NDIRECT] = 0 THEN [fresh(t) EXCEPT !.addrs[NDIRECT] = t.next] ELSE t
      b == u.addrs[NDIRECT]
      v == IF u.ptr[b][k] = 0 THEN [fresh(u) EXCEPT !.ptr[b][k] = u.next] ELSE u
  IN  [v EXCEPT !.addr = v.ptr[b][k]]

appendDouble(t, k) ==
  LET u == IF t.addrs[NDIRECT + 1] = 0 THEN [fresh(t) EXCEPT !.addrs[NDIRECT + 1] = t.next]
           ELSE t
      b == u.addrs[NDIRECT + 1]
      v == IF u.ptr[b][k \div NINDIRECT] = 0
           THEN [fresh(u) EXCEPT !.ptr[b][k \div NINDIRECT] = u.next] ELSE u
      c == v.ptr[b][k \div NINDIRECT]
      w == IF v.ptr[c][k % NINDIRECT] = 0
           THEN [fresh(v) EXCEPT !.ptr[c][k % NINDIRECT] = v.next] ELSE v
  IN  [w EXCEPT !.addr = w.ptr[c][k % NINDIRECT]]

iappend(t, fbn) ==
  IF fbn < NDIRECT THEN appendDirect(t, fbn)
  ELSE IF fbn < NDIRECT + NINDIRECT THEN appendIndirect(t, fbn - NDIRECT)
  ELSE appendDouble(t, fbn - NDIRECT - NINDIRECT)

\* mkfs's image before its first file, and a file of n blocks in it.
Blank == [addrs |-> NoAddrs, ptr |-> [b \in 0 .. SIZE - 1 |-> NoPtrs], used |-> {},
          addr |-> 0, next |-> DATASTART, panic |-> ""]

mkfile(t, n) == FoldLeft(iappend, [t EXCEPT !.addrs = NoAddrs], [k \in 1 .. n |-> k - 1])

\* Variant: the last block handed out is not marked.
markUsedLess(t) == [t EXCEPT !.used = DATASTART .. t.next - 2]

\* mkfs's balloc: the blocks handed out so far are marked in the bitmap.
markUsed(t) == [t EXCEPT !.used = DATASTART .. t.next - 1]
============================================================================
