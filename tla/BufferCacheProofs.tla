------------------------- MODULE BufferCacheProofs -------------------------
(***************************************************************************)
(* For every number of processes, buffers and sectors: nobody sleeps       *)
(* without a waker, the consistency panics of bio.c and ide.c are not      *)
(* reached, and the cache over a drive without read errors implements the  *)
(* store of sectors.                                                       *)
(***************************************************************************)
EXTENDS BufferCache, WellFoundedInduction, TLAPS

----------------------------------------------------------------------------
(* Facts about sets of numbers and about lists.                            *)

\* A non-empty set of naturals has a least element.
LEMMA MinOfNats ==
  ASSUME NEW S \in SUBSET Nat, S # {}
  PROVE  Min(S) \in S /\ \A y \in S : Min(S) <= y
<1> DEFINE R == {ss \in Nat \X Nat : ss[1] < ss[2]}
<1>1. IsWellFoundedOn(R, Nat)
  BY NatLessThanWellFounded DEF OpToRel
<1>2. PICK x \in S : \A y \in S : ~(<<y, x>> \in R)
  BY <1>1, WFMin, Zenon
<1>3. ASSUME NEW y \in S PROVE x <= y
  <2>1. ~(<<y, x>> \in R) /\ x \in Nat /\ y \in Nat
    BY <1>2
  <2>2. QED
    BY <2>1
<1>4. QED
  BY <1>3, Zenon DEF Min

\* A non-empty bounded set of naturals has a greatest element.
LEMMA MaxOfNats ==
  ASSUME NEW bound \in Nat, NEW S \in SUBSET (0..bound), S # {}
  PROVE  Max(S) \in S /\ \A y \in S : y <= Max(S)
<1> DEFINE T == {y \in Nat : bound - y \in S}
<1>1. T \in SUBSET Nat /\ T # {}
  <2>1. PICK x \in S : TRUE
    BY Zenon
  <2>2. bound - x \in T
    BY <2>1
  <2>3. QED
    BY <2>2, Zenon
<1>2. Min(T) \in T /\ \A y \in T : Min(T) <= y
  BY <1>1, MinOfNats
<1>3. \A x \in S : Min(T) <= bound - x
  <2>1. \A x \in S : bound - x \in T
    OBVIOUS
  <2>2. QED
    BY <1>2, <2>1
<1>4. bound - Min(T) \in S /\ \A y \in S : bound - Min(T) >= y
  BY <1>2, <1>3
<1>5. Max(S) \in S /\ \A y \in S : Max(S) >= y
  BY <1>4, Zenon DEF Max
<1>6. QED
  BY <1>5

\* A non-empty set of positions of a sequence has a greatest element.
LEMMA MaxOfInterval ==
  ASSUME NEW bound \in Nat, NEW S \in SUBSET (1..bound), S # {}
  PROVE  Max(S) \in S
BY MaxOfNats

\* A list of all elements of a set.
HasAll(l, S) == l \in Seq(S) /\ \A b \in S : \E i \in 1 .. Len(l) : l[i] = b

\* The empty list is a list of anything, and another list has a length.
LEMMA EmptyList ==
  ASSUME NEW S
  PROVE  <<>> \in Seq(S) /\ \A l \in Seq(S) : l # <<>> => Len(l) \in Nat \ {0}
OBVIOUS

\* A list that is not empty has a first element.
LEMMA FirstIsHead ==
  ASSUME NEW S, NEW l \in Seq(S), l # <<>>
  PROVE  Head(l) = l[1] /\ l[1] \in S
OBVIOUS

\* The places of the elements when one is put at the end.
LEMMA Appended ==
  ASSUME NEW S, NEW l \in Seq(S), NEW b \in S
  PROVE  /\ Append(l, b) \in Seq(S) /\ Len(Append(l, b)) = Len(l) + 1
         /\ \A i \in 1 .. Len(l) : Append(l, b)[i] = l[i]
         /\ Append(l, b)[Len(l) + 1] = b
OBVIOUS

\* The places of the elements when the first is taken off.
LEMMA TailLeaves ==
  ASSUME NEW S, NEW l \in Seq(S), l # <<>>
  PROVE  /\ Head(l) \in S /\ Tail(l) \in Seq(S) /\ Len(Tail(l)) = Len(l) - 1
         /\ \A i \in 1 .. Len(Tail(l)) : Tail(l)[i] = l[i + 1]
OBVIOUS

\* What RemoveAt leaves is a sequence.
LEMMA RemoveAtLeaves ==
  ASSUME NEW S, NEW l \in Seq(S), NEW k \in 1 .. Len(l)
  PROVE  /\ RemoveAt(l, k) \in Seq(S) /\ Len(RemoveAt(l, k)) = Len(l) - 1
         /\ \A i \in 1 .. Len(l) - 1 : RemoveAt(l, k)[i] = IF i < k THEN l[i] ELSE l[i + 1]
<1>1. Len(l) \in Nat /\ Len(l) - 1 \in Nat
  OBVIOUS
<1>2. PICK m : m = RemoveAt(l, k)
  OBVIOUS
<1>3. m = [j \in 1 .. Len(l) - 1 |-> IF j < k THEN l[j] ELSE l[j + 1]]
  BY <1>2 DEF RemoveAt
<1>4. \A i \in 1 .. Len(l) - 1 : l[i] \in S /\ l[i + 1] \in S
  BY <1>1
<1>5. m \in [1 .. Len(l) - 1 -> S]
  BY <1>3, <1>4
<1>6. m \in Seq(S) /\ Len(m) = Len(l) - 1
  BY <1>1, <1>5
<1>7. QED
  BY <1>2, <1>3, <1>6

\* RemoveFirst unlinks an element that the list has.
LEMMA RemoveFirstLeaves ==
  ASSUME NEW S, NEW l \in Seq(S), NEW b, \E i \in 1 .. Len(l) : l[i] = b
  PROVE  \E k \in 1 .. Len(l) : l[k] = b /\ RemoveFirst(l, b) = RemoveAt(l, k)
<1> DEFINE I == {i \in 1 .. Len(l) : l[i] = b}
<1>1. DOMAIN l = 1 .. Len(l) /\ Len(l) \in Nat /\ I \in SUBSET Nat /\ I # {}
  OBVIOUS
<1>2. Min(I) \in I /\ \A i \in I : Min(I) <= i
  BY <1>1, MinOfNats, Zenon
<1>3. PICK f \in 1 .. Len(l) : l[f] = b /\ \A i \in 1 .. Len(l) : l[i] = b => f <= i
  BY <1>2, Zenon
<1>4. \A j \in 1 .. f - 1 : l[j] # b
  BY <1>1, <1>3
<1>5. PICK k : k = CHOOSE i \in DOMAIN l : l[i] = b /\ \A j \in 1 .. i - 1 : l[j] # b
  OBVIOUS
<1>6. k \in 1 .. Len(l) /\ l[k] = b
  BY <1>1, <1>3, <1>4, <1>5, Zenon
<1>7. b \in Range(l)
  BY <1>1, <1>3 DEF Range
<1>8. RemoveFirst(l, b) = RemoveAt(l, k)
  BY <1>5, <1>7 DEF RemoveFirst
<1>9. QED
  BY <1>6, <1>8

\* An element put in front of a list.
LEMMA Prepended ==
  ASSUME NEW S, NEW r \in Seq(S), NEW b \in S
  PROVE  LET m == <<b>> \o r
         IN  /\ m \in Seq(S) /\ Len(m) = Len(r) + 1 /\ m[1] = b
             /\ \A i \in 1..Len(r) : m[i+1] = r[i]
OBVIOUS

\* An element moved to the front of a list: nothing is lost.
LEMMA MoveToFront ==
  ASSUME NEW S, NEW l, HasAll(l, S), NEW b \in S
  PROVE  HasAll(<<b>> \o RemoveFirst(l, b), S)
<1> l \in Seq(S)
  BY DEF HasAll
<1>0. Len(l) \in Nat /\ \E i \in 1..Len(l) : l[i] = b
  BY DEF HasAll
<1>1. PICK k \in 1..Len(l) : l[k] = b /\ RemoveFirst(l, b) = RemoveAt(l, k)
  BY <1>0, RemoveFirstLeaves
<1>2. PICK r : r = RemoveFirst(l, b)
  OBVIOUS
<1>3. /\ r \in Seq(S) /\ Len(r) = Len(l) - 1
      /\ \A i \in 1..(Len(l) - 1) : r[i] = IF i < k THEN l[i] ELSE l[i+1]
  <2>1. /\ RemoveAt(l, k) \in Seq(S) /\ Len(RemoveAt(l, k)) = Len(l) - 1
        /\ \A i \in 1..(Len(l) - 1) :
             RemoveAt(l, k)[i] = IF i < k THEN l[i] ELSE l[i+1]
    BY RemoveAtLeaves
  <2>2. QED
    BY <1>1, <1>2, <2>1, Zenon
<1>4. PICK m : m = <<b>> \o r
  BY Zenon
<1>5. /\ m \in Seq(S) /\ Len(m) = Len(l) /\ m[1] = b
      /\ \A i \in 1..(Len(l) - 1) : m[i+1] = r[i]
  <2>1. /\ m \in Seq(S) /\ Len(m) = Len(r) + 1 /\ m[1] = b
        /\ \A i \in 1..Len(r) : m[i+1] = r[i]
    BY <1>3, <1>4, Prepended
  <2>2. (Len(l) - 1) + 1 = Len(l)
    BY <1>0
  <2>3. QED
    BY <1>3, <2>1, <2>2
<1>6. ASSUME NEW c \in S PROVE \E i \in 1..Len(m) : m[i] = c
  <2>1. PICK i \in 1..Len(l) : l[i] = c
    BY DEF HasAll
  <2>2. CASE i < k
    <3>1. i \in 1..(Len(l) - 1) /\ i + 1 \in 1..Len(l)
      BY <1>0, <2>2
    <3>2. r[i] = c
      BY <1>3, <2>1, <2>2, <3>1
    <3>3. m[i+1] = c
      BY <1>5, <3>1, <3>2
    <3>4. QED
      BY <1>5, <3>1, <3>3
  <2>3. CASE i = k
    <3>1. 1 \in 1..Len(m) /\ m[1] = c
      BY <1>1, <1>5, <2>1, <2>3
    <3>2. QED
      BY <3>1
  <2>4. CASE i > k
    <3>1. i - 1 \in 1..(Len(l) - 1) /\ ~(i - 1 < k) /\ (i - 1) + 1 = i
      BY <2>1, <2>4
    <3>2. r[i-1] = c
      BY <1>3, <2>1, <3>1
    <3>3. m[i] = c
      BY <1>5, <3>1, <3>2
    <3>4. QED
      BY <1>5, <3>3
  <2>5. i < k \/ i = k \/ i > k
    BY <1>0
  <2>6. QED
    BY <2>2, <2>3, <2>4, <2>5
<1>7. QED
  BY <1>2, <1>4, <1>5, <1>6, Zenon DEF HasAll

----------------------------------------------------------------------------
Flags == [busy : BOOLEAN, valid : BOOLEAN, dirty : BOOLEAN]

Buffers == [sector : Sectors \cup {NoSector}, data : Values, flags : Flags]

Types ==
  /\ buf \in [Bufs -> Buffers]
  /\ disk \in [Sectors -> Values]
  /\ idequeue \in Seq(Bufs)
  /\ chan \in [Procs -> Bufs \cup {None}]
  /\ at \in [Procs -> {"run", "bget", "iderw", "io"}]
  /\ cur \in [Procs -> Bufs \cup {None}]
  /\ machine \in {"up", "bget: no buffers"}
  /\ want \in [Procs -> Sectors \cup {NoSector}]
  /\ held \in [Procs -> SUBSET Bufs]

\* bcache.head's list has every buffer.
Listed == HasAll(lru, Bufs)

\* B_BUSY is one process's hold on a buffer, and a sector has one buffer.
Exclusive ==
  /\ \A b \in Bufs : Busy(b) <=> \E p \in Procs : b \in held[p]
  /\ \A p, q \in Procs : \A b \in held[p] : b \in held[q] => p = q
  /\ \A b, c \in Bufs : buf[b].sector = buf[c].sector /\ buf[b].sector # NoSector => b = c

\* A buffer has data unless binit left it empty or its holder is on the way
\* through iderw, and changed data is data.
Filled ==
  /\ \A b \in Bufs :
       /\ Dirty(b) => Valid(b)
       /\ Valid(b) \/ Busy(b) => buf[b].sector \in Sectors
       /\ ~Valid(b) /\ ~Busy(b) => buf[b].sector = NoSector
  /\ \A p \in Procs : \A b \in held[p] : Valid(b) \/ cur[p] = b

\* Where a process is says what it waits for and which buffer it has in hand.
PlacedAt(p) ==
  /\ at[p] \in {"run", "bget"} => cur[p] = None
  /\ at[p] = "bget" => want[p] \in Sectors
  /\ at[p] = "bget" /\ chan[p] # None => Busy(chan[p])
  /\ at[p] \in {"run", "iderw"} => chan[p] = None
  /\ at[p] \in {"iderw", "io"} => cur[p] \in held[p]
  /\ at[p] = "iderw" => ~Synced(buf[cur[p]].flags)
  /\ at[p] = "io" => /\ chan[p] \in {None, cur[p]}
                     /\ chan[p] # None => ~Synced(buf[cur[p]].flags)
                     /\ ~Synced(buf[cur[p]].flags) <=> \E i \in 1..Len(idequeue) : idequeue[i] = cur[p]

Placed == \A p \in Procs : PlacedAt(p)

\* Every request in the queue has its process in iderw, and the drive works on
\* the first.
Queued ==
  /\ \A i \in 1..Len(idequeue) : \E p \in Procs : at[p] = "io" /\ cur[p] = idequeue[i]
  /\ \A i, j \in 1..Len(idequeue) : idequeue[i] = idequeue[j] => i = j
  /\ drive = IF idequeue = <<>> THEN <<>> ELSE idestart(idequeue[1])

IInv == Types /\ Listed /\ Exclusive /\ Filled /\ Placed /\ Queued

\* A buffer without changes has what the disk has.
Clean == \A b \in Bufs : Valid(b) /\ ~Dirty(b) => buf[b].data = disk[buf[b].sector]

----------------------------------------------------------------------------
\* bget recycles a buffer nobody has and nobody changed.
LEMMA VictimRecyclable ==
  ASSUME Listed, \E b \in Bufs : Recyclable(b)
  PROVE  Victim \in Bufs /\ Recyclable(Victim)
<1> DEFINE I == {i \in 1..Len(lru) : Recyclable(lru[i])}
<1>1. I \in SUBSET (1..Len(lru)) /\ I # {} /\ Len(lru) \in Nat
  BY DEF Listed, HasAll
<1>2. Max(I) \in I
  BY <1>1, MaxOfInterval, Zenon
<1>3. Victim = lru[Max(I)]
  BY DEF Victim
<1>4. QED
  BY <1>2, <1>3 DEF Listed, HasAll

----------------------------------------------------------------------------
\* binit establishes the invariant.
LEMMA InitIInv == Init => IInv /\ Clean
<1> SUFFICES ASSUME Init PROVE IInv /\ Clean
  OBVIOUS
<1>1. Types
  <2>1. (CHOOSE v \in Values : TRUE) \in Values
    BY DiskAssumption
  <2>2. QED
    BY <2>1 DEF Init, Types, Buffers, Flags
<1>2. Listed
  <2>1. PICK l : l = [i \in 1 .. NBUF |-> NBUF + 1 - i]
    BY Zenon
  <2>2. l \in Seq(1 .. NBUF) /\ Len(l) = NBUF
    BY <2>1, BufsAssumption
  <2>3. ASSUME NEW b \in 1 .. NBUF PROVE l[NBUF + 1 - b] = b /\ NBUF + 1 - b \in 1 .. NBUF
    BY <2>1, BufsAssumption
  <2>4. HasAll(l, 1 .. NBUF)
    BY <2>2, <2>3 DEF HasAll
  <2>5. QED
    BY <2>1, <2>4 DEF Init, Listed, Bufs
<1>3. Exclusive /\ Filled /\ Placed /\ Queued /\ Clean
  BY DEF Init, Exclusive, Filled, Placed, PlacedAt, Queued, Clean, Busy, Valid, Dirty
<1>4. QED
  BY <1>1, <1>2, <1>3 DEF IInv

\* The callers' step changes no buffer.
LEMMA CallKeeps ==
  ASSUME IInv, NEW p \in Procs, NEW s \in Sectors, call(p, s)
  PROVE  IInv'
<1> USE DEF IInv, call, ideVars
<1>1. Types'
  BY DEF Types
<1>2. Listed' /\ Exclusive' /\ Filled'
  BY DEF Listed, Exclusive, Filled, Busy, Valid, Dirty
<1>3. Placed'
  BY DEF Types, Placed, PlacedAt, Busy
<1>4. Queued'
  BY DEF Types, Queued, idestart, Dirty
<1>5. QED
  BY <1>1, <1>2, <1>3, <1>4

\* kill (proc.c) only makes a sleeping process runnable.
LEMMA KillKeeps ==
  ASSUME IInv, NEW p \in Procs, kill(p), UNCHANGED <<lru, want, held>>
  PROVE  IInv'
<1> USE DEF IInv, kill, ideVars
<1>1. Types'
  BY DEF Types
<1>2. Listed' /\ Exclusive' /\ Filled'
  BY DEF Listed, Exclusive, Filled, Busy, Valid, Dirty
<1>3. Placed'
  BY DEF Types, Placed, PlacedAt, Busy
<1>4. Queued'
  BY DEF Types, Queued, idestart, Dirty
<1>5. QED
  BY <1>1, <1>2, <1>3, <1>4

\* iderw's while loop, once woken: go on when the request is done, sleep again
\* when it is not.
LEMMA IderwWokenKeeps ==
  ASSUME IInv, NEW p \in Procs, iderwWoken(p), UNCHANGED <<lru, want, held>>
  PROVE  IInv'
<1> USE DEF IInv, iderwWoken, ideVars
<1>1. Types'
  BY Zenon DEF Types, Placed, PlacedAt
<1>2. Listed' /\ Exclusive'
  BY DEF Listed, Exclusive, Busy
<1>3. Filled'
  BY DEF Types, Filled, Placed, PlacedAt, Busy, Valid, Dirty, Synced
<1>4. Placed'
  BY DEF Types, Placed, PlacedAt, Busy
<1>5. Queued'
  BY DEF Types, Placed, PlacedAt, Queued, idestart, Dirty
<1>6. QED
  BY <1>1, <1>2, <1>3, <1>4, <1>5

\* iderw queues a buffer that is not in the queue yet, and does not panic.
LEMMA IderwKeeps ==
  ASSUME IInv, NEW p \in Procs, iderw(p), UNCHANGED <<lru, want, held>>
  PROVE  IInv'
<1> DEFINE b == cur[p]
<1> DEFINE n == Len(idequeue)
<1>0. at[p] = "iderw" /\ UNCHANGED <<buf, cur, disk, lru, want, held>>
  BY Zenon DEF iderw, ideVars
<1>1. b \in held[p] /\ b \in Bufs /\ Busy(b) /\ ~Synced(buf[b].flags)
  BY <1>0, Zenon DEF IInv, Types, Placed, PlacedAt, Exclusive
<1>2. /\ idequeue' = Append(idequeue, b)
      /\ drive' = IF idequeue = <<>> THEN idestart(b) ELSE drive
      /\ chan' = [chan EXCEPT ![p] = b]
      /\ at' = [at EXCEPT ![p] = "io"]
      /\ machine' = machine
  BY <1>1 DEF iderw
<1>3. \A i \in 1..n : idequeue[i] # b
  BY <1>0, <1>1 DEF IInv, Placed, PlacedAt, Queued, Exclusive
<1>4. /\ idequeue \in Seq(Bufs) /\ idequeue' \in Seq(Bufs)
      /\ n \in Nat /\ Len(idequeue') = n + 1
      /\ idequeue'[n + 1] = b
      /\ \A i \in 1..n : idequeue'[i] = idequeue[i]
  <2>1. idequeue \in Seq(Bufs)
    BY Zenon DEF IInv, Types
  <2>2. QED
    BY <1>1, <1>2, <2>1, Appended
<1>5. \A i \in 1..(n+1) : i # n + 1 => i \in 1..n
  BY <1>4
<1>6. Types'
  BY <1>0, <1>1, <1>2, <1>4, Zenon DEF IInv, Types
<1>7. Listed' /\ Exclusive' /\ Filled'
  BY <1>0 DEF IInv, Listed, Exclusive, Filled, Busy, Valid, Dirty
<1>8. Placed'
  <2>1. ASSUME NEW q \in Procs, at'[q] = "io"
        PROVE  ~Synced(buf[cur[q]].flags) <=> \E i \in 1..(n+1) : idequeue'[i] = cur[q]
    <3>1. CASE q = p
      BY <1>1, <1>4, <3>1
    <3>2. CASE q # p
      <4>1. at[q] = "io" /\ cur[q] \in held[q] /\ b # cur[q]
        BY <1>0, <1>1, <1>2, <2>1, <3>2, Zenon DEF IInv, Types, Placed, PlacedAt, Exclusive
      <4>2. ~Synced(buf[cur[q]].flags) <=> \E i \in 1..n : idequeue[i] = cur[q]
        BY <4>1 DEF IInv, Placed, PlacedAt
      <4>3. QED
        BY <1>4, <1>5, <4>1, <4>2
    <3>3. QED
      BY <3>1, <3>2
  <2>2. ASSUME NEW q \in Procs, at'[q] = "io"
        PROVE  ~Synced(buf[cur[q]].flags)' <=> \E i \in 1..Len(idequeue') : idequeue'[i] = cur'[q]
    BY <1>0, <1>4, <2>1, <2>2 DEF Synced
  <2>3. QED
    BY <1>0, <1>1, <1>2, <2>2, Zenon DEF IInv, Types, Placed, PlacedAt, Busy, Synced
<1>9. Queued'
  <2>1. ASSUME NEW i \in 1..Len(idequeue') PROVE \E q \in Procs : at'[q] = "io" /\ cur'[q] = idequeue'[i]
    BY <1>0, <1>1, <1>2, <1>4, <1>5, Zenon DEF IInv, Types, Queued
  <2>2. ASSUME NEW i \in 1..Len(idequeue'), NEW j \in 1..Len(idequeue'), idequeue'[i] = idequeue'[j]
        PROVE  i = j
    BY <1>3, <1>4, <1>5, <2>2 DEF IInv, Queued
  <2>3. (drive = IF idequeue = <<>> THEN <<>> ELSE idestart(idequeue[1]))'
    <3>1. idequeue' # <<>> /\ \A c : idestart(c)' = idestart(c)
      BY <1>0, <1>4 DEF idestart, Dirty
    <3>2. CASE idequeue = <<>>
      BY <1>2, <1>4, <3>1, <3>2
    <3>3. CASE idequeue # <<>>
      BY <1>2, <1>4, <3>1, <3>3 DEF IInv, Queued
    <3>4. QED
      BY <3>2, <3>3
  <2>4. QED
    BY <2>1, <2>2, <2>3 DEF Queued
<1>10. QED
  BY <1>6, <1>7, <1>8, <1>9 DEF IInv

\* A buffer as ideintr leaves it.
LEMMA Finished ==
  ASSUME buf \in [Bufs -> Buffers], NEW b \in Bufs, NEW v \in Values,
         buf' = [buf EXCEPT ![b].flags.valid = TRUE, ![b].flags.dirty = FALSE, ![b].data = v]
  PROVE  /\ buf' \in [Bufs -> Buffers]
         /\ \A c \in Bufs : c # b => buf'[c] = buf[c]
         /\ buf'[b].sector = buf[b].sector /\ buf'[b].data = v
         /\ buf'[b].flags.busy = buf[b].flags.busy
         /\ buf'[b].flags.valid = TRUE /\ buf'[b].flags.dirty = FALSE
<1>1. PICK h : h = [buf[b].flags EXCEPT !.valid = TRUE, !.dirty = FALSE]
  OBVIOUS
<1>2. h \in Flags
  BY <1>1, Zenon DEF Buffers, Flags
<1>3. PICK r : r = [buf[b] EXCEPT !.flags = h, !.data = v]
  OBVIOUS
<1>4. r \in Buffers
  BY <1>2, <1>3, Zenon DEF Buffers
<1>5. buf' = [buf EXCEPT ![b] = r]
  BY <1>1, <1>3, Zenon DEF Buffers, Flags
<1>6. buf' \in [Bufs -> Buffers]
  BY <1>4, <1>5, Zenon
<1>7. QED
  BY <1>6 DEF Buffers, Flags

\* The drive finishes the first request, and its process is woken.
LEMMA IdeintrKeeps ==
  ASSUME IInv, ideintr, UNCHANGED <<lru, want, held>>
  PROVE  IInv'
<1>0. idequeue \in Seq(Bufs) /\ idequeue # <<>> /\ Len(idequeue) \in Nat \ {0}
  BY EmptyList DEF IInv, Types, ideintr
<1>1. PICK b \in Bufs, n \in Nat \ {0} : b = idequeue[1] /\ n = Len(idequeue)
  BY <1>0, FirstIsHead
<1>2. /\ b \in Bufs /\ b = Head(idequeue)
      /\ idequeue' = Tail(idequeue) /\ idequeue' \in Seq(Bufs) /\ Len(idequeue') = n - 1
      /\ \A i \in 1..(n - 1) : idequeue'[i] = idequeue[i+1] /\ i + 1 \in 1..n
      /\ \A i \in 1..n : i # 1 => i - 1 \in 1..(n - 1) /\ idequeue'[i-1] = idequeue[i]
  <2>1. b \in Bufs /\ b = Head(idequeue)
    BY <1>0, <1>1, FirstIsHead
  <2>2. idequeue' = Tail(idequeue)
    BY DEF ideintr
  <2>3. /\ idequeue' \in Seq(Bufs) /\ Len(idequeue') = n - 1
        /\ \A i \in 1..(n - 1) : idequeue'[i] = idequeue[i+1]
    BY <1>0, <1>1, <2>2, TailLeaves
  <2>4. ASSUME NEW i \in 1..n, i # 1
        PROVE  i - 1 \in 1..(n - 1) /\ idequeue'[i-1] = idequeue[i]
    <3>1. i - 1 \in 1..(n - 1) /\ (i - 1) + 1 = i
      BY <1>1, <2>4
    <3>2. QED
      BY <2>3, <3>1
  <2>5. \A i \in 1..(n - 1) : i + 1 \in 1..n
    BY <1>1
  <2>6. QED
    BY <2>1, <2>2, <2>3, <2>4, <2>5
<1>3. PICK o \in Procs : at[o] = "io" /\ cur[o] = b
  BY <1>0, <1>1 DEF IInv, Queued
<1>4. b \in held[o] /\ ~Synced(buf[b].flags) /\ Busy(b) /\ buf[b].sector \in Sectors
  <2>1. \E i \in 1..Len(idequeue) : idequeue[i] = b
    BY <1>0, <1>1
  <2>2. b \in held[o] /\ ~Synced(buf[b].flags)
    BY <1>3, <2>1 DEF IInv, Placed, PlacedAt
  <2>3. QED
    BY <1>1, <2>2 DEF IInv, Exclusive, Filled
<1>5. drive = idestart(b)
  BY <1>0, <1>1 DEF IInv, Queued
<1>6. /\ buf' \in [Bufs -> Buffers]
      /\ \A c \in Bufs : /\ buf'[c].sector = buf[c].sector
                         /\ Busy(c)' <=> Busy(c)
                         /\ Valid(c)' <=> Valid(c) \/ c = b
                         /\ Dirty(c)' <=> Dirty(c) /\ c # b
                         /\ c # b => buf'[c] = buf[c]
  <2>1. PICK ok \in ReadOk :
          buf' = [buf EXCEPT ![b].flags.valid = TRUE, ![b].flags.dirty = FALSE,
                             ![b].data = IF Dirty(b) \/ ~ok THEN @ ELSE disk[drive[1].sector]]
    BY <1>2, Zenon DEF ideintr
  <2>2. PICK v \in Values : v = IF Dirty(b) \/ ~ok THEN buf[b].data ELSE disk[drive[1].sector]
    BY <1>2, <1>4, <1>5, Zenon DEF IInv, Types, Buffers, idestart
  <2>3. buf \in [Bufs -> Buffers]
    BY Zenon DEF IInv, Types
  <2>4. buf' = [buf EXCEPT ![b].flags.valid = TRUE, ![b].flags.dirty = FALSE, ![b].data = v]
    BY <2>1, <2>2
  <2>5. /\ buf' \in [Bufs -> Buffers]
        /\ \A c \in Bufs : c # b => buf'[c] = buf[c]
        /\ buf'[b].sector = buf[b].sector /\ buf'[b].data = v
        /\ buf'[b].flags.busy = buf[b].flags.busy
        /\ buf'[b].flags.valid = TRUE /\ buf'[b].flags.dirty = FALSE
    BY <2>3, <2>4, Finished, Zenon
  <2>6. QED
    <3>1. ASSUME NEW c \in Bufs, c # b
          PROVE  buf'[c] = buf[c] /\ (Busy(c)' <=> Busy(c)) /\ (Valid(c)' <=> Valid(c)) /\ (Dirty(c)' <=> Dirty(c))
      BY <2>5, <3>1 DEF Busy, Valid, Dirty
    <3>2. (Busy(b)' <=> Busy(b)) /\ Valid(b)' /\ ~Dirty(b)'
      BY <2>5 DEF Busy, Valid, Dirty
    <3>3. QED
      BY <1>1, <2>5, <3>1, <3>2
<1>7. /\ chan' = wakeup(b)
      /\ disk' = platter
      /\ drive' = IF idequeue' = <<>> THEN <<>> ELSE idestart(Head(idequeue'))
      /\ UNCHANGED <<at, cur, machine, lru, want, held>>
  BY <1>2 DEF ideintr
<1>8. Types'
  <2>1. disk' \in [Sectors -> Values]
    <3>1. drive[1].sector \in Sectors /\ drive[1].data \in Values /\ disk \in [Sectors -> Values]
      BY <1>1, <1>4, <1>5, Zenon DEF IInv, Types, Buffers, idestart
    <3>2. QED
      BY <1>7, <3>1 DEF platter
  <2>2. chan' \in [Procs -> Bufs \cup {None}]
    BY <1>7, Zenon DEF IInv, Types, wakeup
  <2>3. QED
    BY <1>2, <1>6, <1>7, <2>1, <2>2, Zenon DEF IInv, Types
<1>9. Listed'
  BY <1>7 DEF IInv, Listed
<1>10. Exclusive'
  BY <1>6, <1>7 DEF IInv, Exclusive
<1>11. Filled'
  BY <1>4, <1>6, <1>7, Zenon DEF IInv, Types, Filled
<1>12. Placed'
  <2>1. ASSUME NEW q \in Procs, at[q] = "io", q # o
        PROVE  /\ cur[q] # b /\ cur[q] \in Bufs
               /\ (\E i \in 1..n : idequeue[i] = cur[q]) <=> (\E i \in 1..(n-1) : idequeue'[i] = cur[q])
    <3>1. cur[q] \in held[q] /\ cur[q] \in Bufs
      BY <2>1, Zenon DEF IInv, Types, Placed, PlacedAt
    <3>2. cur[q] # b
      BY <1>4, <2>1, <3>1 DEF IInv, Exclusive
    <3>3. ASSUME NEW i \in 1..n, idequeue[i] = cur[q] PROVE \E k \in 1..(n-1) : idequeue'[k] = cur[q]
      BY <1>1, <1>2, <3>2, <3>3
    <3>4. ASSUME NEW i \in 1..(n-1), idequeue'[i] = cur[q] PROVE \E k \in 1..n : idequeue[k] = cur[q]
      BY <1>2, <3>4
    <3>5. QED
      BY <3>1, <3>2, <3>3, <3>4
  <2>2. \A i \in 1..(n-1) : idequeue'[i] # b
    <3>1. SUFFICES ASSUME NEW i \in 1..(n-1), idequeue[i+1] = idequeue[1] PROVE FALSE
      BY <1>1, <1>2
    <3>2. i + 1 = 1
      BY <1>1, <1>2, <3>1 DEF IInv, Queued
    <3>3. QED
      BY <3>2
  <2>3. ASSUME NEW q \in Procs, at[q] = "io"
        PROVE  (~Synced(buf[cur[q]].flags) <=> \E i \in 1..Len(idequeue) : idequeue[i] = cur[q])'
    <3>1. CASE q = o
      <4>1. Synced(buf[cur[q]].flags)'
        BY <1>1, <1>3, <1>6, <1>7, <3>1 DEF Synced, Valid, Dirty
      <4>2. QED
        BY <1>2, <1>3, <1>7, <2>2, <3>1, <4>1
    <3>2. CASE q # o
      <4>1. cur'[q] = cur[q] /\ buf'[cur'[q]].flags = buf[cur[q]].flags
        BY <1>6, <1>7, <2>1, <2>3, <3>2
      <4>2. ~Synced(buf[cur[q]].flags) <=> \E i \in 1..n : idequeue[i] = cur[q]
        BY <1>1, <2>3 DEF IInv, Placed, PlacedAt
      <4>3. (\E i \in 1..n : idequeue[i] = cur[q]) <=> \E i \in 1..Len(idequeue') : idequeue'[i] = cur'[q]
        <5>1. (\E i \in 1..n : idequeue[i] = cur[q]) <=> (\E i \in 1..(n-1) : idequeue'[i] = cur[q])
          BY <2>1, <2>3, <3>2, Zenon
        <5>2. Len(idequeue') = n - 1
          BY <1>2
        <5>3. QED
          BY <4>1, <5>1, <5>2, Zenon
      <4>4. QED
        BY <4>1, <4>2, <4>3 DEF Synced
    <3>3. QED
      BY <3>1, <3>2
  <2>4. ASSUME NEW q \in Procs
        PROVE  /\ chan'[q] \in {None, chan[q]}
               /\ at[q] = "io" /\ chan'[q] # None => ~Synced(buf[cur[q]].flags)'
    <3>1. chan'[q] = IF chan[q] = b THEN None ELSE chan[q]
      BY <1>7 DEF wakeup
    <3>2. ASSUME at[q] = "io", chan'[q] # None PROVE ~Synced(buf[cur[q]].flags)'
      <4>1. cur[q] # b /\ cur[q] \in Bufs /\ ~Synced(buf[cur[q]].flags)
        BY <3>1, <3>2, Zenon DEF IInv, Types, Placed, PlacedAt
      <4>2. QED
        BY <1>6, <1>7, <4>1 DEF Synced
    <3>3. QED
      BY <3>1, <3>2
  <2>5. ASSUME NEW q \in Procs, at[q] = "iderw" PROVE ~Synced(buf[cur[q]].flags)'
    <3>1. cur[q] \in held[q] /\ cur[q] \in Bufs /\ q # o /\ ~Synced(buf[cur[q]].flags)
      BY <1>3, <2>5, Zenon DEF IInv, Types, Placed, PlacedAt
    <3>2. cur[q] # b
      BY <1>4, <3>1 DEF IInv, Exclusive
    <3>3. QED
      BY <1>6, <1>7, <3>1, <3>2, Zenon DEF Synced
  <2>6. ASSUME NEW q \in Procs, at[q] = "bget", chan'[q] # None PROVE Busy(chan[q])'
    <3>1. chan'[q] = chan[q] /\ chan[q] \in Bufs /\ Busy(chan[q])
      BY <2>4, <2>6, Zenon DEF IInv, Types, Placed, PlacedAt
    <3>2. QED
      BY <1>6, <3>1 DEF Busy
  <2>7. QED
    BY <1>7, <2>3, <2>4, <2>5, <2>6, Zenon DEF IInv, Placed, PlacedAt
<1>13. Queued'
  <2>1. ASSUME NEW i \in 1..Len(idequeue')
        PROVE  \E q \in Procs : at'[q] = "io" /\ cur'[q] = idequeue'[i]
    BY <1>1, <1>2, <1>7 DEF IInv, Queued
  <2>2. ASSUME NEW i \in 1..Len(idequeue'), NEW j \in 1..Len(idequeue'), idequeue'[i] = idequeue'[j]
        PROVE  i = j
    <3>1. i + 1 = j + 1
      BY <1>1, <1>2, <2>2 DEF IInv, Queued
    <3>2. QED
      BY <1>2, <3>1
  <2>3. (drive = IF idequeue = <<>> THEN <<>> ELSE idestart(idequeue[1]))'
    <3>1. CASE idequeue' = <<>>
      BY <1>7, <3>1
    <3>2. CASE idequeue' # <<>>
      <4>1. PICK c \in Bufs : c = Head(idequeue') /\ c = idequeue'[1]
        BY <1>2, <3>2
      <4>2. 1 \in 1..(n-1)
        BY <1>1, <1>2, <3>2
      <4>3. c # b
        BY <1>1, <1>2, <4>1, <4>2 DEF IInv, Queued
      <4>4. buf'[c] = buf[c]
        BY <1>6, <4>3
      <4>5. QED
        BY <1>7, <3>2, <4>1, <4>4 DEF idestart, Dirty
    <3>3. QED
      BY <3>1, <3>2
  <2>4. QED
    BY <2>1, <2>2, <2>3 DEF Queued
<1>14. QED
  BY <1>8, <1>9, <1>10, <1>11, <1>12, <1>13 DEF IInv

\* A buffer as bget and brelse leave it: only B_BUSY changes.
LEMMA BusySet ==
  ASSUME buf \in [Bufs -> Buffers], NEW b \in Bufs, NEW u \in BOOLEAN,
         buf' = [buf EXCEPT ![b].flags.busy = u]
  PROVE  /\ buf' \in [Bufs -> Buffers]
         /\ \A c \in Bufs : /\ c # b => buf'[c] = buf[c]
                            /\ buf'[c].sector = buf[c].sector /\ buf'[c].data = buf[c].data
                            /\ Valid(c)' <=> Valid(c)
                            /\ Dirty(c)' <=> Dirty(c)
                            /\ Busy(c)' <=> IF c = b THEN u ELSE Busy(c)
<1>1. PICK h : h = [buf[b].flags EXCEPT !.busy = u]
  BY Zenon
<1>2. h \in Flags
  BY <1>1 DEF Buffers, Flags
<1>3. PICK r : r = [buf[b] EXCEPT !.flags = h]
  BY Zenon
<1>4. r \in Buffers
  BY <1>2, <1>3 DEF Buffers
<1>5. buf' = [buf EXCEPT ![b] = r]
  BY <1>1, <1>3 DEF Buffers, Flags
<1>6. buf' \in [Bufs -> Buffers]
  BY <1>4, <1>5
<1>7. \A c \in Bufs : c # b => buf'[c] = buf[c]
  BY <1>5
<1>8. /\ buf'[b].sector = buf[b].sector /\ buf'[b].data = buf[b].data
      /\ buf'[b].flags.busy = u /\ buf'[b].flags.valid = buf[b].flags.valid
      /\ buf'[b].flags.dirty = buf[b].flags.dirty
  BY <1>1, <1>3, <1>5 DEF Buffers, Flags
<1>9. QED
  BY <1>6, <1>7, <1>8 DEF Busy, Valid, Dirty

\* A buffer as log_write and bwrite leave it.
LEMMA Changed ==
  ASSUME buf \in [Bufs -> Buffers], NEW b \in Bufs, NEW v \in Values,
         buf' = [buf EXCEPT ![b].data = v, ![b].flags.dirty = TRUE]
  PROVE  /\ buf' \in [Bufs -> Buffers]
         /\ buf'[b].data = v
         /\ \A c \in Bufs : /\ c # b => buf'[c] = buf[c]
                            /\ buf'[c].sector = buf[c].sector
                            /\ Valid(c)' <=> Valid(c)
                            /\ Dirty(c)' <=> Dirty(c) \/ c = b
                            /\ Busy(c)' <=> Busy(c)
<1>1. PICK h : h = [buf[b].flags EXCEPT !.dirty = TRUE]
  BY Zenon
<1>2. h \in Flags
  BY <1>1, Zenon DEF Buffers, Flags
<1>3. PICK r : r = [buf[b] EXCEPT !.flags = h, !.data = v]
  OBVIOUS
<1>4. r \in Buffers
  BY <1>2, <1>3, Zenon DEF Buffers
<1>5. buf' = [buf EXCEPT ![b] = r]
  BY <1>1, <1>3, Zenon DEF Buffers, Flags
<1>6. buf' \in [Bufs -> Buffers]
  BY <1>4, <1>5, Zenon
<1>7. \A c \in Bufs : c # b => buf'[c] = buf[c]
  BY <1>5
<1>8. /\ buf'[b].sector = buf[b].sector /\ buf'[b].data = v
      /\ buf'[b].flags.busy = buf[b].flags.busy /\ buf'[b].flags.valid = buf[b].flags.valid
      /\ buf'[b].flags.dirty = TRUE
  BY <1>1, <1>3, <1>5 DEF Buffers, Flags
<1>9. QED
  BY <1>6, <1>7, <1>8 DEF Busy, Valid, Dirty

\* A buffer as bget leaves it for another sector.
LEMMA Recycled ==
  ASSUME buf \in [Bufs -> Buffers], NEW b \in Bufs, NEW s \in Sectors,
         buf' = [buf EXCEPT ![b].sector = s,
                            ![b].flags = [busy |-> TRUE, valid |-> FALSE, dirty |-> FALSE]]
  PROVE  /\ buf' \in [Bufs -> Buffers]
         /\ buf'[b].sector = s /\ Busy(b)' /\ ~Valid(b)' /\ ~Dirty(b)'
         /\ \A c \in Bufs : c # b => /\ buf'[c] = buf[c]
                                     /\ Valid(c)' <=> Valid(c)
                                     /\ Dirty(c)' <=> Dirty(c)
                                     /\ Busy(c)' <=> Busy(c)
<1>1. PICK h : h = [busy |-> TRUE, valid |-> FALSE, dirty |-> FALSE]
  BY Zenon
<1>2. h \in Flags
  BY <1>1 DEF Flags
<1>3. PICK r : r = [buf[b] EXCEPT !.sector = s, !.flags = h]
  OBVIOUS
<1>4. r \in Buffers /\ r.sector = s /\ r.flags = h
  BY <1>2, <1>3, Zenon DEF Buffers
<1>5. buf' = [buf EXCEPT ![b] = r]
  BY <1>1, <1>3, Zenon DEF Buffers
<1>6. buf' \in [Bufs -> Buffers]
  BY <1>4, <1>5, Zenon
<1>7. \A c \in Bufs : c # b => buf'[c] = buf[c]
  BY <1>5
<1>8. buf'[b].sector = s /\ buf'[b].flags = h
  BY <1>4, <1>5, Zenon
<1>9. QED
  BY <1>1, <1>6, <1>7, <1>8 DEF Busy, Valid, Dirty

\* Who has a buffer in iderw has it alone.
LEMMA InHandIsOther ==
  ASSUME IInv, NEW p \in Procs, at[p] = "run", NEW b \in held[p],
         NEW q \in Procs, at[q] \in {"iderw", "io"}
  PROVE  q # p /\ cur[q] # b /\ cur[q] \in Bufs
<1>1. cur[q] \in held[q] /\ cur[q] \in Bufs
  BY Zenon DEF IInv, Types, Placed, PlacedAt
<1>2. q # p
  OBVIOUS
<1>3. QED
  BY <1>1, <1>2 DEF IInv, Exclusive

\* A step leaves a process where it is.
LEMMA StaysPlaced ==
  ASSUME IInv, NEW q \in Procs,
         at'[q] = at[q] /\ cur'[q] = cur[q] /\ want'[q] = want[q] /\ idequeue' = idequeue,
         chan'[q] \in {chan[q], None},
         at[q] \in {"iderw", "io"} => cur[q] \in held'[q] /\ buf'[cur[q]].flags = buf[cur[q]].flags,
         at[q] = "bget" /\ chan'[q] # None => Busy(chan[q])'
  PROVE  PlacedAt(q)'
<1>1. PlacedAt(q) /\ at[q] \in {"run", "bget", "iderw", "io"}
  BY Zenon DEF IInv, Placed, Types
<1>2. CASE at[q] \in {"run", "bget"}
  BY <1>1, <1>2 DEF PlacedAt
<1>3. CASE at[q] \in {"iderw", "io"}
  <2>1. Synced(buf[cur[q]].flags)' <=> Synced(buf[cur[q]].flags)
    BY <1>3 DEF Synced
  <2>2. QED
    BY <1>1, <1>3, <2>1 DEF PlacedAt
<1>4. QED
  BY <1>1, <1>2, <1>3

\* A step of a process outside iderw leaves the queue as it is.
LEMMA QueueStays ==
  ASSUME IInv, UNCHANGED <<idequeue, drive>>,
         \A q \in Procs : at[q] = "io" =>
           at'[q] = "io" /\ cur'[q] = cur[q] /\ buf'[cur[q]] = buf[cur[q]]
  PROVE  Queued'
<1>1. idequeue \in Seq(Bufs)
  BY Zenon DEF IInv, Types
<1>2. \A i \in 1..Len(idequeue) : \E q \in Procs : at[q] = "io" /\ cur[q] = idequeue[i]
  BY DEF IInv, Queued
<1>3. (drive = IF idequeue = <<>> THEN <<>> ELSE idestart(idequeue[1]))'
  <2>1. CASE idequeue # <<>>
    <3>1. 1 \in 1..Len(idequeue)
      BY <1>1, <2>1
    <3>2. buf'[idequeue[1]] = buf[idequeue[1]]
      BY <1>2, <3>1
    <3>3. drive = idestart(idequeue[1])
      BY <2>1 DEF IInv, Queued
    <3>4. QED
      BY <2>1, <3>2, <3>3 DEF idestart, Dirty
  <2>2. CASE idequeue = <<>>
    BY <2>2 DEF IInv, Queued
  <2>3. QED
    BY <2>1, <2>2
<1>4. QED
  BY <1>2, <1>3 DEF IInv, Queued

\* A holder writes a buffer it has and log.c marks it dirty without queueing it.
LEMMA LogWriteKeeps ==
  ASSUME IInv, NEW p \in Procs, NEW b \in held[p], NEW v \in Values, log_write(p, b, v)
  PROVE  IInv'
<1>1. /\ at[p] = "run" /\ b \in Bufs /\ buf \in [Bufs -> Buffers]
      /\ buf' = [buf EXCEPT ![b].data = v, ![b].flags.dirty = TRUE]
      /\ UNCHANGED <<idequeue, drive, disk, chan, at, cur, machine, lru, want, held>>
  BY DEF log_write, ideVars, IInv, Types
<1>2. /\ buf' \in [Bufs -> Buffers]
      /\ buf'[b].data = v
      /\ \A c \in Bufs : /\ c # b => buf'[c] = buf[c]
                         /\ buf'[c].sector = buf[c].sector
                         /\ Valid(c)' <=> Valid(c)
                         /\ Dirty(c)' <=> Dirty(c) \/ c = b
                         /\ Busy(c)' <=> Busy(c)
  BY <1>1, Changed, Zenon
<1>3. Valid(b)
  BY <1>1, BufsAssumption, Zenon DEF IInv, Types, Filled, Placed, PlacedAt
<1>4. Types' /\ Listed'
  BY <1>1, <1>2, Zenon DEF IInv, Types, Listed
<1>5. Exclusive'
  BY <1>1, <1>2 DEF IInv, Exclusive
<1>6. Filled'
  BY <1>1, <1>2, <1>3, Zenon DEF IInv, Types, Filled
<1>7. Placed'
  <2>1. ASSUME NEW q \in Procs, at[q] \in {"iderw", "io"}
        PROVE  cur'[q] = cur[q] /\ buf'[cur[q]] = buf[cur[q]]
    BY <1>1, <1>2, <2>1, InHandIsOther
  <2>2. ASSUME NEW q \in Procs, at[q] = "bget", chan[q] # None PROVE Busy(chan[q])'
    <3>1. chan[q] \in Bufs /\ Busy(chan[q])
      BY <2>2, Zenon DEF IInv, Types, Placed, PlacedAt
    <3>2. QED
      BY <1>1, <1>2, <3>1
  <2>3. ASSUME NEW q \in Procs PROVE PlacedAt(q)'
    <3>1. at[q] \in {"iderw", "io"} => cur[q] \in held[q] /\ buf'[cur[q]].flags = buf[cur[q]].flags
      BY <2>1, Zenon DEF IInv, Placed, PlacedAt
    <3>2. QED
      BY <1>1, <2>2, <3>1, StaysPlaced, Zenon
  <2>4. QED
    BY <2>3 DEF Placed
<1>8. Queued'
  <2>1. \A q \in Procs : at[q] = "io" => at'[q] = "io" /\ cur'[q] = cur[q] /\ buf'[cur[q]] = buf[cur[q]]
    BY <1>1, <1>2, InHandIsOther
  <2>2. QED
    BY <1>1, <2>1, QueueStays, Zenon
<1>9. QED
  BY <1>4, <1>5, <1>6, <1>7, <1>8 DEF IInv

\* bwrite is called with a buffer the caller has busy, and hands iderw one with
\* changes.
LEMMA BwriteKeeps ==
  ASSUME IInv, NEW p \in Procs, NEW b \in held[p], NEW v \in Values, bwrite(p, b, v)
  PROVE  IInv'
<1>1. /\ at[p] = "run" /\ b \in Bufs /\ buf \in [Bufs -> Buffers] /\ Busy(b)
  BY DEF bwrite, IInv, Types, Exclusive
<1>2. /\ buf' = [buf EXCEPT ![b].data = v, ![b].flags.dirty = TRUE]
      /\ cur' = [cur EXCEPT ![p] = b]
      /\ at' = [at EXCEPT ![p] = "iderw"]
      /\ UNCHANGED <<idequeue, drive, disk, chan, machine, lru, want, held>>
  BY <1>1 DEF bwrite, ideVars
<1>3. /\ buf' \in [Bufs -> Buffers]
      /\ buf'[b].data = v
      /\ \A c \in Bufs : /\ c # b => buf'[c] = buf[c]
                         /\ buf'[c].sector = buf[c].sector
                         /\ Valid(c)' <=> Valid(c)
                         /\ Dirty(c)' <=> Dirty(c) \/ c = b
                         /\ Busy(c)' <=> Busy(c)
  BY <1>1, <1>2, Changed, Zenon
<1>4. ASSUME NEW c \in held[p] PROVE Valid(c)
  <2>1. cur[p] = None /\ c \in Bufs
    BY <1>1, Zenon DEF IInv, Types, Placed, PlacedAt
  <2>2. QED
    BY <2>1, BufsAssumption, Zenon DEF IInv, Filled
<1>5. Types' /\ Listed'
  BY <1>1, <1>2, <1>3, Zenon DEF IInv, Types, Listed
<1>6. Exclusive'
  BY <1>2, <1>3 DEF IInv, Exclusive
<1>7. Filled'
  <2>1. ASSUME NEW c \in Bufs
        PROVE  /\ Dirty(c)' => Valid(c)'
               /\ Valid(c)' \/ Busy(c)' => buf'[c].sector \in Sectors
               /\ ~Valid(c)' /\ ~Busy(c)' => buf'[c].sector = NoSector
    BY <1>1, <1>3, <1>4, Zenon DEF IInv, Filled
  <2>2. ASSUME NEW q \in Procs, NEW c \in held[q] PROVE Valid(c)' \/ cur'[q] = c
    <3>1. c \in Bufs /\ (q # p => cur'[q] = cur[q])
      BY <1>2, Zenon DEF IInv, Types
    <3>2. QED
      BY <1>3, <1>4, <3>1, Zenon DEF IInv, Filled
  <2>3. QED
    BY <1>2, <2>1, <2>2, Zenon DEF Filled
<1>8. Placed'
  <2>1. ASSUME NEW q \in Procs, q # p PROVE PlacedAt(q)'
    <3>1. at'[q] = at[q] /\ cur'[q] = cur[q]
      BY <1>2, <2>1, Zenon DEF IInv, Types
    <3>2. ASSUME at[q] \in {"iderw", "io"}
          PROVE  cur[q] \in held[q] /\ buf'[cur[q]].flags = buf[cur[q]].flags
      <4>1. cur[q] # b /\ cur[q] \in Bufs
        BY <1>1, <3>2, InHandIsOther
      <4>2. cur[q] \in held[q]
        BY <3>2, Zenon DEF IInv, Placed, PlacedAt
      <4>3. QED
        BY <1>3, <4>1, <4>2
    <3>3. ASSUME at[q] = "bget", chan[q] # None PROVE Busy(chan[q])'
      <4>1. chan[q] \in Bufs /\ Busy(chan[q])
        BY <3>3, Zenon DEF IInv, Types, Placed, PlacedAt
      <4>2. QED
        BY <1>2, <1>3, <4>1
    <3>4. QED
      BY <1>2, <3>1, <3>2, <3>3, StaysPlaced, Zenon
  <2>2. PlacedAt(p)'
    <3>1. at'[p] = "iderw" /\ cur'[p] = b /\ chan'[p] = None /\ b \in held'[p]
      BY <1>1, <1>2, Zenon DEF IInv, Types, Placed, PlacedAt
    <3>2. ~Synced(buf[cur[p]].flags)'
      BY <1>1, <1>3, <3>1 DEF Synced, Dirty
    <3>3. QED
      BY <3>1, <3>2 DEF PlacedAt
  <2>3. QED
    BY <2>1, <2>2 DEF Placed
<1>9. Queued'
  <2>1. ASSUME NEW q \in Procs, at[q] = "io"
        PROVE  at'[q] = "io" /\ cur'[q] = cur[q] /\ buf'[cur[q]] = buf[cur[q]]
    <3>1. q # p /\ cur[q] # b /\ cur[q] \in Bufs
      BY <1>1, <2>1, InHandIsOther
    <3>2. QED
      BY <1>2, <1>3, <2>1, <3>1, Zenon DEF IInv, Types
  <2>2. QED
    BY <1>2, <2>1, QueueStays, Zenon
<1>10. QED
  BY <1>5, <1>6, <1>7, <1>8, <1>9 DEF IInv

\* brelse gives up a buffer the caller has busy, and wakes who waits for it.
LEMMA BrelseKeeps ==
  ASSUME IInv, NEW p \in Procs, NEW b \in held[p], brelse(p, b)
  PROVE  IInv'
<1>1. at[p] = "run" /\ b \in Bufs /\ buf \in [Bufs -> Buffers] /\ Busy(b)
  BY DEF brelse, IInv, Types, Exclusive
<1>2. /\ lru' = <<b>> \o RemoveFirst(lru, b)
      /\ buf' = [buf EXCEPT ![b].flags.busy = FALSE]
      /\ chan' = wakeup(b)
      /\ held' = [held EXCEPT ![p] = @ \ {b}]
      /\ UNCHANGED <<idequeue, drive, disk, at, cur, machine, want>>
  BY <1>1 DEF brelse, ideVars
<1>3. /\ buf' \in [Bufs -> Buffers]
      /\ \A c \in Bufs : /\ c # b => buf'[c] = buf[c]
                         /\ buf'[c].sector = buf[c].sector /\ buf'[c].data = buf[c].data
                         /\ Valid(c)' <=> Valid(c)
                         /\ Dirty(c)' <=> Dirty(c)
                         /\ Busy(c)' <=> IF c = b THEN FALSE ELSE Busy(c)
  BY <1>1, <1>2, BusySet, Zenon
<1>4. /\ held'[p] = held[p] \ {b} /\ \A q \in Procs : q # p => held'[q] = held[q]
      /\ held' \in [Procs -> SUBSET Bufs] /\ held \in [Procs -> SUBSET Bufs]
  BY <1>2, Zenon DEF IInv, Types
<1>5. Valid(b)
  BY <1>1, BufsAssumption, Zenon DEF IInv, Types, Filled, Placed, PlacedAt
<1>6. Types'
  <2>1. chan' \in [Procs -> Bufs \cup {None}]
    BY <1>2, Zenon DEF IInv, Types, wakeup
  <2>2. QED
    BY <1>2, <1>3, <1>4, <2>1, Zenon DEF IInv, Types
<1>7. Listed'
  <2>1. HasAll(lru, Bufs) /\ b \in Bufs
    BY <1>1, Zenon DEF IInv, Types, Listed
  <2>2. HasAll(<<b>> \o RemoveFirst(lru, b), Bufs)
    BY <2>1, MoveToFront
  <2>3. QED
    BY <1>2, <2>2 DEF Listed
<1>8. Exclusive'
  <2>1. ASSUME NEW c \in Bufs PROVE Busy(c)' <=> \E q \in Procs : c \in held'[q]
    <3>1. CASE c = b
      BY <1>3, <1>4, <3>1 DEF IInv, Exclusive
    <3>2. CASE c # b
      BY <1>3, <1>4, <3>2 DEF IInv, Exclusive
    <3>3. QED
      BY <3>1, <3>2
  <2>2. ASSUME NEW q \in Procs, NEW r \in Procs, NEW c \in held'[q], c \in held'[r] PROVE q = r
    BY <1>4, <2>2 DEF IInv, Exclusive
  <2>3. QED
    BY <1>3, <2>1, <2>2 DEF IInv, Exclusive
<1>9. Filled'
  <2>1. ASSUME NEW c \in Bufs
        PROVE  (/\ Dirty(c) => Valid(c)
                /\ Valid(c) \/ Busy(c) => buf[c].sector \in Sectors
                /\ ~Valid(c) /\ ~Busy(c) => buf[c].sector = NoSector)'
    BY <1>1, <1>3, <1>5 DEF IInv, Filled
  <2>2. ASSUME NEW q \in Procs, NEW c \in held'[q] PROVE Valid(c)' \/ cur'[q] = c
    <3>1. c \in held[q] /\ c \in Bufs
      BY <1>4
    <3>2. QED
      BY <1>2, <1>3, <3>1 DEF IInv, Filled
  <2>3. QED
    BY <2>1, <2>2 DEF Filled
<1>10. Placed'
  <2>1. ASSUME NEW q \in Procs PROVE PlacedAt(q)'
    <3>1. chan'[q] = IF chan[q] = b THEN None ELSE chan[q]
      BY <1>2 DEF wakeup
    <3>2. ASSUME at[q] \in {"iderw", "io"} PROVE cur[q] \in held'[q] /\ buf'[cur[q]].flags = buf[cur[q]].flags
      <4>1. q # p /\ cur[q] # b /\ cur[q] \in Bufs
        BY <1>1, <3>2, InHandIsOther
      <4>2. cur[q] \in held[q]
        BY <3>2 DEF IInv, Placed, PlacedAt
      <4>3. QED
        BY <1>3, <1>4, <4>1, <4>2
    <3>3. ASSUME at[q] = "bget", chan'[q] # None PROVE Busy(chan[q])'
      <4>1. chan[q] \in Bufs /\ chan[q] # b /\ chan'[q] = chan[q] /\ Busy(chan[q])
        BY <3>1, <3>3, Zenon DEF IInv, Types, Placed, PlacedAt
      <4>2. QED
        BY <1>3, <4>1
    <3>4. QED
      BY <1>2, <3>1, <3>2, <3>3, StaysPlaced, Zenon
  <2>2. QED
    BY <2>1 DEF Placed
<1>11. Queued'
  <2>1. ASSUME NEW q \in Procs, at[q] = "io" PROVE buf'[cur[q]] = buf[cur[q]]
    <3>1. cur[q] # b /\ cur[q] \in Bufs
      BY <1>1, <2>1, InHandIsOther
    <3>2. QED
      BY <1>3, <3>1
  <2>2. QED
    BY <1>2, <2>1, QueueStays, Zenon
<1>12. QED
  BY <1>6, <1>7, <1>8, <1>9, <1>10, <1>11 DEF IInv

\* bget sleeps only on a buffer that is busy.
LEMMA BgetSleepKeeps ==
  ASSUME IInv, NEW p \in Procs, at[p] = "bget", NEW b \in Bufs, Busy(b),
         bgetSleep(p, b), UNCHANGED <<ideVars, lru>>
  PROVE  IInv'
<1>1. /\ chan' = [chan EXCEPT ![p] = b]
      /\ UNCHANGED <<buf, at, cur, held, want, machine, idequeue, drive, disk, lru>>
  BY DEF bgetSleep, ideVars
<1>2. Types' /\ Listed' /\ Exclusive' /\ Filled'
  BY <1>1, Zenon DEF IInv, Types, Listed, Exclusive, Filled, Busy, Valid, Dirty
<1>3. ASSUME NEW q \in Procs PROVE PlacedAt(q)'
  <2>1. CASE q = p
    BY <1>1, <2>1, Zenon DEF IInv, Types, Placed, PlacedAt, Busy
  <2>2. CASE q # p
    <3>1. chan'[q] = chan[q]
      BY <1>1, <2>2, Zenon DEF IInv, Types
    <3>2. QED
      BY <1>1, <3>1, StaysPlaced, Zenon DEF IInv, Placed, PlacedAt, Busy
  <2>3. QED
    BY <2>1, <2>2
<1>4. Queued'
  BY <1>1, QueueStays
<1>5. QED
  BY <1>2, <1>3, <1>4 DEF IInv, Placed

\* A process that bget hands a buffer goes on, to iderw when it has no data.
LEMMA HandedPlaced ==
  ASSUME IInv, NEW p \in Procs, at[p] = "bget", chan[p] = None, NEW b \in Bufs,
         bgetReturn(p, b)
  PROVE  PlacedAt(p)'
<1>1. /\ cur'[p] = IF Valid(b)' THEN None ELSE b
      /\ at'[p] = IF Valid(b)' THEN "run" ELSE "iderw"
      /\ b \in held'[p] /\ chan'[p] = None
  BY Zenon DEF bgetReturn, IInv, Types, Valid
<1>2. ~Valid(b)' => ~Synced(buf[b].flags)'
  BY DEF Synced, Valid
<1>3. QED
  BY <1>1, <1>2 DEF PlacedAt

\* The other processes see nothing of a buffer handed out that nobody had.
LEMMA OthersStay ==
  ASSUME IInv, NEW p \in Procs, at[p] = "bget", NEW b \in Bufs, ~Busy(b),
         bgetReturn(p, b), UNCHANGED <<ideVars, lru>>,
         \A c \in Bufs : c # b => buf'[c] = buf[c],
         Busy(b)'
  PROVE  (\A q \in Procs : q # p => PlacedAt(q)') /\ Queued'
<1>1. /\ UNCHANGED <<idequeue, drive, chan>>
      /\ \A q \in Procs : q # p => at'[q] = at[q] /\ cur'[q] = cur[q] /\ want'[q] = want[q] /\ held'[q] = held[q]
  BY Zenon DEF bgetReturn, ideVars, IInv, Types
<1>2. ASSUME NEW q \in Procs, at[q] \in {"iderw", "io"}
      PROVE  q # p /\ cur[q] \in held[q] /\ buf'[cur[q]] = buf[cur[q]]
  <2>1. cur[q] \in held[q] /\ cur[q] \in Bufs
    BY <1>2, Zenon DEF IInv, Types, Placed, PlacedAt
  <2>2. cur[q] # b
    BY <2>1 DEF IInv, Exclusive
  <2>3. QED
    BY <1>2, <2>1, <2>2
<1>3. ASSUME NEW q \in Procs, q # p PROVE PlacedAt(q)'
  <2>1. ASSUME at[q] = "bget", chan'[q] # None PROVE Busy(chan[q])'
    <3>1. chan'[q] = chan[q] /\ chan[q] \in Bufs /\ Busy(chan[q])
      BY <1>1, <2>1, Zenon DEF IInv, Types, Placed, PlacedAt
    <3>2. QED
      BY <3>1 DEF Busy
  <2>2. QED
    BY <1>1, <1>2, <1>3, <2>1, StaysPlaced
<1>4. Queued'
  BY <1>1, <1>2, QueueStays, Zenon
<1>5. QED
  BY <1>3, <1>4

\* A buffer nobody had goes to the process that asked for its sector.
LEMMA HandedExclusive ==
  ASSUME IInv, NEW p \in Procs, NEW b \in Bufs, ~Busy(b), bgetReturn(p, b),
         \A c \in Bufs : c # b => (Busy(c)' <=> Busy(c)),
         Busy(b)',
         \A c, d \in Bufs : buf'[c].sector = buf'[d].sector /\ buf'[c].sector # NoSector => c = d
  PROVE  Exclusive' /\ held' \in [Procs -> SUBSET Bufs]
<1>1. /\ held'[p] = held[p] \cup {b} /\ \A q \in Procs : q # p => held'[q] = held[q]
      /\ held' \in [Procs -> SUBSET Bufs] /\ held \in [Procs -> SUBSET Bufs]
  BY Zenon DEF bgetReturn, IInv, Types
<1>2. \A q \in Procs : b \notin held[q]
  BY DEF IInv, Exclusive
<1>3. ASSUME NEW c \in Bufs PROVE Busy(c)' <=> \E q \in Procs : c \in held'[q]
  <2>1. CASE c = b
    BY <1>1, <2>1
  <2>2. CASE c # b
    BY <1>1, <2>2 DEF IInv, Exclusive
  <2>3. QED
    BY <2>1, <2>2
<1>4. ASSUME NEW q \in Procs, NEW r \in Procs, NEW c \in held'[q], c \in held'[r] PROVE q = r
  BY <1>1, <1>2, <1>4 DEF IInv, Exclusive
<1>5. QED
  BY <1>1, <1>3, <1>4 DEF Exclusive

\* bget finds the sector's buffer idle.
LEMMA BgetHitKeeps ==
  ASSUME IInv, NEW p \in Procs, at[p] = "bget", chan[p] = None,
         NEW b \in Bufs, buf[b].sector = want[p], ~Busy(b),
         buf' = [buf EXCEPT ![b].flags.busy = TRUE],
         bgetReturn(p, b), UNCHANGED <<ideVars, lru>>
  PROVE  IInv' /\ Valid(b)
<1>1. buf \in [Bufs -> Buffers] /\ want[p] \in Sectors
  BY Zenon DEF IInv, Types, Placed, PlacedAt
<1>2. /\ buf' \in [Bufs -> Buffers]
      /\ \A c \in Bufs : /\ c # b => buf'[c] = buf[c]
                         /\ buf'[c].sector = buf[c].sector /\ buf'[c].data = buf[c].data
                         /\ Valid(c)' <=> Valid(c)
                         /\ Dirty(c)' <=> Dirty(c)
                         /\ Busy(c)' <=> IF c = b THEN TRUE ELSE Busy(c)
  BY <1>1, BusySet, Zenon
<1>3. Valid(b)
  BY <1>1, DiskAssumption DEF IInv, Filled
<1>4. Exclusive' /\ held' \in [Procs -> SUBSET Bufs]
  <2>1. \A c, d \in Bufs : buf'[c].sector = buf'[d].sector /\ buf'[c].sector # NoSector => c = d
    BY <1>2 DEF IInv, Exclusive
  <2>2. QED
    BY <1>2, <2>1, HandedExclusive
<1>5. Types' /\ Listed'
  BY <1>2, <1>4, Zenon DEF IInv, Types, Listed, bgetReturn, ideVars
<1>6. Filled'
  <2>1. ASSUME NEW c \in Bufs
        PROVE  (/\ Dirty(c) => Valid(c)
                /\ Valid(c) \/ Busy(c) => buf[c].sector \in Sectors
                /\ ~Valid(c) /\ ~Busy(c) => buf[c].sector = NoSector)'
    BY <1>1, <1>2, <1>3 DEF IInv, Filled
  <2>2. ASSUME NEW q \in Procs, NEW c \in held'[q] PROVE Valid(c)' \/ cur'[q] = c
    <3>1. CASE c = b
      BY <1>2, <1>3, <3>1
    <3>2. CASE c # b
      <4>1. c \in held[q] /\ c \in Bufs /\ (cur'[q] = cur[q] \/ q = p)
        BY <2>2, <3>2, <1>4, Zenon DEF bgetReturn, IInv, Types
      <4>2. cur[p] = None
        BY DEF IInv, Placed, PlacedAt
      <4>3. QED
        BY <1>2, <4>1, <4>2, BufsAssumption DEF IInv, Filled
    <3>3. QED
      BY <3>1, <3>2
  <2>3. QED
    BY <2>1, <2>2 DEF Filled
<1>7. Placed' /\ Queued'
  BY <1>2, HandedPlaced, OthersStay DEF Placed
<1>8. QED
  BY <1>3, <1>4, <1>5, <1>6, <1>7 DEF IInv

\* bget recycles a buffer for a sector that no buffer has.
LEMMA BgetMissKeeps ==
  ASSUME IInv, NEW p \in Procs, at[p] = "bget", chan[p] = None,
         NEW b \in Bufs, Recyclable(b), Cached(want[p]) = {},
         buf' = [buf EXCEPT ![b].sector = want[p],
                            ![b].flags = [busy |-> TRUE, valid |-> FALSE, dirty |-> FALSE]],
         bgetReturn(p, b), UNCHANGED <<ideVars, lru>>
  PROVE  IInv'
<1>1. buf \in [Bufs -> Buffers] /\ want[p] \in Sectors
  BY Zenon DEF IInv, Types, Placed, PlacedAt
<1>2. /\ buf' \in [Bufs -> Buffers]
      /\ buf'[b].sector = want[p] /\ Busy(b)' /\ ~Valid(b)' /\ ~Dirty(b)'
      /\ \A c \in Bufs : c # b => /\ buf'[c] = buf[c]
                                  /\ Valid(c)' <=> Valid(c)
                                  /\ Dirty(c)' <=> Dirty(c)
                                  /\ Busy(c)' <=> Busy(c)
  BY <1>1, Recycled, Zenon
<1>3. ~Busy(b)
  BY DEF Recyclable
<1>4. Exclusive' /\ held' \in [Procs -> SUBSET Bufs]
  <2>1. \A c \in Bufs : buf[c].sector # want[p]
    BY DEF Cached
  <2>2. ASSUME NEW c \in Bufs, NEW d \in Bufs, buf'[c].sector = buf'[d].sector, buf'[c].sector # NoSector
        PROVE  c = d
    BY <1>2, <2>1, <2>2 DEF IInv, Exclusive
  <2>3. QED
    BY <1>2, <1>3, <2>2, HandedExclusive
<1>5. Types' /\ Listed'
  BY <1>2, <1>4, Zenon DEF IInv, Types, Listed, bgetReturn, ideVars
<1>6. Filled'
  <2>1. ASSUME NEW c \in Bufs
        PROVE  (/\ Dirty(c) => Valid(c)
                /\ Valid(c) \/ Busy(c) => buf[c].sector \in Sectors
                /\ ~Valid(c) /\ ~Busy(c) => buf[c].sector = NoSector)'
    BY <1>1, <1>2 DEF IInv, Filled
  <2>2. ASSUME NEW q \in Procs, NEW c \in held'[q] PROVE Valid(c)' \/ cur'[q] = c
    <3>0. held'[p] = held[p] \cup {b} /\ (q # p => held'[q] = held[q] /\ cur'[q] = cur[q]) /\ cur'[p] = b
      BY <1>2, Zenon DEF bgetReturn, IInv, Types, Valid
    <3>1. CASE c = b
      <4>1. q = p
        BY <1>3, <2>2, <3>0, <3>1 DEF IInv, Exclusive
      <4>2. QED
        BY <3>0, <3>1, <4>1
    <3>2. CASE c # b
      <4>1. c \in held[q] /\ c \in Bufs /\ (cur'[q] = cur[q] \/ q = p)
        BY <1>4, <2>2, <3>0, <3>2
      <4>2. cur[p] = None
        BY DEF IInv, Placed, PlacedAt
      <4>3. QED
        BY <1>2, <3>2, <4>1, <4>2, BufsAssumption DEF IInv, Filled
    <3>3. QED
      BY <3>1, <3>2
  <2>3. QED
    BY <2>1, <2>2, Zenon DEF Filled
<1>7. Placed' /\ Queued'
  BY <1>2, <1>3, HandedPlaced, OthersStay DEF Placed
<1>8. QED
  BY <1>4, <1>5, <1>6, <1>7 DEF IInv

\* bget: sleep on the busy buffer, take the free one, recycle one, or panic.
LEMMA BgetKeeps ==
  ASSUME IInv, NEW p \in Procs, bget(p)
  PROVE  IInv'
<1>1. at[p] = "bget" /\ chan[p] = None /\ UNCHANGED <<ideVars, lru>>
  BY Zenon DEF bget
<1>2. CASE \E b \in Cached(want[p]) : Busy(b) /\ bgetSleep(p, b)
  <2>1. PICK b \in Cached(want[p]) : Busy(b) /\ bgetSleep(p, b)
    BY <1>2
  <2>2. b \in Bufs
    BY DEF Cached
  <2>3. QED
    BY <1>1, <2>1, <2>2, BgetSleepKeeps
<1>3. CASE \E b \in Cached(want[p]) : /\ ~Busy(b)
                                      /\ buf' = [buf EXCEPT ![b].flags.busy = TRUE]
                                      /\ bgetReturn(p, b)
  <2>1. PICK b \in Cached(want[p]) : /\ ~Busy(b)
                                     /\ buf' = [buf EXCEPT ![b].flags.busy = TRUE]
                                     /\ bgetReturn(p, b)
    BY <1>3, Zenon
  <2>2. b \in Bufs /\ buf[b].sector = want[p]
    BY DEF Cached
  <2>3. QED
    BY <1>1, <2>1, <2>2, BgetHitKeeps, Zenon
<1>4. CASE /\ Cached(want[p]) = {} /\ \E b \in Bufs : Recyclable(b)
           /\ buf' = [buf EXCEPT ![Victim].sector = want[p],
                        ![Victim].flags = [busy |-> TRUE, valid |-> FALSE, dirty |-> FALSE]]
           /\ bgetReturn(p, Victim)
  <2>1. Victim \in Bufs /\ Recyclable(Victim)
    BY <1>4, VictimRecyclable DEF IInv
  <2>2. QED
    BY <1>1, <1>4, <2>1, BgetMissKeeps, Zenon
<1>5. CASE machine' = "bget: no buffers" /\ UNCHANGED <<buf, chan, at, cur, held, want>>
  <2>1. Types' /\ Listed' /\ Exclusive' /\ Filled'
    BY <1>1, <1>5, Zenon DEF IInv, ideVars, Types, Listed, Exclusive, Filled, Busy, Valid, Dirty
  <2>2. \A q \in Procs : PlacedAt(q)'
    BY <1>1, <1>5, StaysPlaced, Zenon DEF IInv, Placed, PlacedAt, Busy, ideVars
  <2>3. Queued'
    BY <1>1, <1>5, QueueStays, Zenon DEF ideVars
  <2>4. QED
    BY <2>1, <2>2, <2>3 DEF IInv, Placed
<1>6. QED
  BY <1>2, <1>3, <1>4, <1>5, Zenon DEF bget

\* Every step of the cache, the driver and the drive keeps the invariant.
LEMMA NextKeeps == IInv /\ [Next]_vars => IInv'
<1> SUFFICES ASSUME IInv, [Next]_vars PROVE IInv'
  OBVIOUS
<1>1. ASSUME NEW p \in Procs, NEW s \in Sectors, call(p, s) PROVE IInv'
  BY <1>1, CallKeeps
<1>2. ASSUME NEW p \in Procs, bget(p) PROVE IInv'
  BY <1>2, BgetKeeps
<1>3. ASSUME NEW p \in Procs, iderw(p), UNCHANGED <<lru, want, held>> PROVE IInv'
  BY <1>3, IderwKeeps
<1>4. ASSUME NEW p \in Procs, iderwWoken(p), UNCHANGED <<lru, want, held>> PROVE IInv'
  BY <1>4, IderwWokenKeeps
<1>5. ASSUME NEW p \in Procs, kill(p), UNCHANGED <<lru, want, held>> PROVE IInv'
  BY <1>5, KillKeeps
<1>6. ASSUME NEW p \in Procs, NEW b \in held[p], brelse(p, b) PROVE IInv'
  BY <1>6, BrelseKeeps
<1>7. ASSUME NEW p \in Procs, NEW b \in held[p], NEW v \in Values, log_write(p, b, v) PROVE IInv'
  BY <1>7, LogWriteKeeps
<1>8. ASSUME NEW p \in Procs, NEW b \in held[p], NEW v \in Values, bwrite(p, b, v) PROVE IInv'
  BY <1>8, BwriteKeeps
<1>9. ASSUME ideintr, UNCHANGED <<lru, want, held>> PROVE IInv'
  BY <1>9, IdeintrKeeps
<1>10. ASSUME UNCHANGED vars PROVE IInv'
  <2>1. UNCHANGED <<buf, idequeue, drive, disk, chan, at, cur, machine, lru, want, held>>
    BY <1>10 DEF vars, ideVars
  <2>2. Types' /\ Listed' /\ Exclusive' /\ Filled'
    BY <2>1, Zenon DEF IInv, Types, Listed, Exclusive, Filled, Busy, Valid, Dirty
  <2>3. \A q \in Procs : PlacedAt(q)'
    BY <2>1, StaysPlaced, Zenon DEF IInv, Placed, PlacedAt, Busy
  <2>4. Queued'
    BY <2>1, QueueStays
  <2>5. QED
    BY <2>2, <2>3, <2>4 DEF IInv, Placed
<1>11. QED
  BY <1>1, <1>2, <1>3, <1>4, <1>5, <1>6, <1>7, <1>8, <1>9, <1>10, Zenon DEF Next, stopped

\* The clauses are what makes sleeping safe.
LEMMA IInvWakes == IInv => SleeperHasWaker
<1> SUFFICES ASSUME IInv PROVE SleeperHasWaker
  OBVIOUS
<1>1. ASSUME NEW p \in Procs, chan[p] # None
      PROVE  \/ at[p] = "bget" /\ Busy(chan[p])
             \/ at[p] = "io" /\ chan[p] \in Range(idequeue)
  <2>1. at[p] \in {"run", "bget", "iderw", "io"} /\ PlacedAt(p)
    BY Zenon DEF IInv, Types, Placed
  <2>2. CASE at[p] = "bget"
    BY <1>1, <2>1, <2>2 DEF PlacedAt
  <2>3. CASE at[p] = "io"
    <3>1. chan[p] = cur[p] /\ \E i \in 1..Len(idequeue) : idequeue[i] = cur[p]
      BY <1>1, <2>1, <2>3, Zenon DEF PlacedAt
    <3>2. idequeue \in Seq(Bufs)
      BY Zenon DEF IInv, Types
    <3>3. QED
      BY <2>3, <3>1, <3>2 DEF Range
  <2>4. QED
    BY <1>1, <2>1, <2>2, <2>3 DEF PlacedAt
<1>2. ASSUME idequeue # <<>>
      PROVE  /\ drive # <<>>
             /\ LET b == Head(idequeue) IN
                  /\ drive[1].sector = buf[b].sector /\ drive[1].write = Dirty(b)
                  /\ drive[1].write => drive[1].data = buf[b].data
  <2>1. Head(idequeue) = idequeue[1]
    <3>1. idequeue \in Seq(Bufs)
      BY Zenon DEF IInv, Types
    <3>2. QED
      BY <1>2, <3>1
  <2>2. drive = idestart(idequeue[1])
    BY <1>2 DEF IInv, Queued
  <2>3. drive # <<>> /\ drive[1] = [write |-> Dirty(idequeue[1]), sector |-> buf[idequeue[1]].sector,
                                  data |-> buf[idequeue[1]].data]
    <3>1. PICK r : r = [write |-> Dirty(idequeue[1]), sector |-> buf[idequeue[1]].sector,
                        data |-> buf[idequeue[1]].data]
      BY Zenon
    <3>2. drive = <<r>>
      BY <2>2, <3>1 DEF idestart
    <3>3. QED
      BY <3>1, <3>2
  <2>4. /\ drive[1].sector = buf[idequeue[1]].sector
        /\ drive[1].write = Dirty(idequeue[1])
        /\ drive[1].data = buf[idequeue[1]].data
    BY <2>3
  <2>5. QED
    BY <2>1, <2>3, <2>4
<1>3. QED
  BY <1>1, <1>2 DEF SleeperHasWaker

\* The states stay well formed: every buffer list, hold, request and sleep of
\* bio.c and ide.c is as IInv describes, whatever the number of processes,
\* buffers and sectors.
THEOREM Invariant == Spec => []IInv
<1>1. Init => IInv
  BY InitIInv
<1>2. QED
  BY <1>1, NextKeeps, PTL DEF Spec

\* No process sleeps in bget or iderw without somebody who will wake it, and
\* the drive works on the first request of the queue as its buffer has it.
THEOREM NobodySleepsForever == Spec => []SleeperHasWaker
BY Invariant, IInvWakes, PTL

\* The only panic the cache and the driver can come to is bget's, when every
\* buffer is busy or pinned by the log: "iderw: buf not busy", "iderw: nothing
\* to do", "bwrite" and "brelse" are not reached from the callers' protocol.
OnlyBgetPanics == machine \in {"up", "bget: no buffers"}

\* For every set of buffers, processes and sectors the panics of iderw, bwrite
\* and brelse are out of reach of the callers bio.c and log.c have.
THEOREM OtherPanicsUnreachable == Spec => []OnlyBgetPanics
<1>1. IInv => OnlyBgetPanics
  BY Zenon DEF IInv, Types, OnlyBgetPanics
<1>2. QED
  BY <1>1, Invariant, PTL

----------------------------------------------------------------------------
\* What the store's variables stand for: a buffer with data has the sector's
\* content, and who holds it is the owner.
Mapped ==
  /\ \A b \in Bufs : Valid(b) => Content(buf[b].sector) = buf[b].data
  /\ \A s \in Sectors : (\A b \in Bufs : buf[b].sector = s => ~Valid(b)) => Content(s) = disk[s]
  /\ \A p \in Procs : \A b \in held[p] : Valid(b) => Owner(buf[b].sector) = p
  /\ \A s \in Sectors : (\A b \in Bufs : buf[b].sector = s /\ Valid(b) => ~Busy(b)) => Owner(s) = None

\* At most one valid buffer per sector and one holder per buffer make Content
\* and Owner what the buffers say.
LEMMA IInvMaps == IInv => Mapped
<1> SUFFICES ASSUME IInv PROVE Mapped
  OBVIOUS
<1>1. ASSUME NEW b \in Bufs, Valid(b) PROVE Content(buf[b].sector) = buf[b].data
  <2>1. {c \in Bufs : buf[c].sector = buf[b].sector /\ Valid(c)} = {b}
    BY <1>1, DiskAssumption DEF IInv, Exclusive, Filled
  <2>2. QED
    BY <2>1 DEF Content
<1>2. ASSUME NEW s \in Sectors, \A b \in Bufs : buf[b].sector = s => ~Valid(b) PROVE Content(s) = disk[s]
  BY <1>2 DEF Content
<1>3. ASSUME NEW p \in Procs, NEW b \in held[p], Valid(b) PROVE Owner(buf[b].sector) = p
  <2>1. b \in Bufs /\ \A q \in Procs : held[q] \subseteq Bufs
    BY Zenon DEF IInv, Types
  <2>2. \A q \in Procs : \A c \in held[q] : buf[c].sector = buf[b].sector => c = b /\ q = p
    BY <1>3, <2>1, DiskAssumption DEF IInv, Exclusive, Filled
  <2>3. {q \in Procs : \E c \in held[q] : buf[c].sector = buf[b].sector /\ ~(cur[q] = c /\ ~Valid(c))} = {p}
    BY <1>3, <2>2
  <2>4. QED
    BY <2>3 DEF Owner
<1>4. ASSUME NEW s \in Sectors, \A b \in Bufs : buf[b].sector = s /\ Valid(b) => ~Busy(b) PROVE Owner(s) = None
  <2>1. \A q \in Procs : held[q] \subseteq Bufs
    BY Zenon DEF IInv, Types
  <2>2. ASSUME NEW q \in Procs, NEW c \in held[q], buf[c].sector = s PROVE cur[q] = c /\ ~Valid(c)
    BY <1>4, <2>1, <2>2 DEF IInv, Exclusive, Filled
  <2>3. {q \in Procs : \E c \in held[q] : buf[c].sector = s /\ ~(cur[q] = c /\ ~Valid(c))} = {}
    BY <2>2
  <2>4. QED
    BY <2>3 DEF Owner
<1>5. QED
  BY <1>1, <1>2, <1>3, <1>4 DEF Mapped

\* The same for the state after a step.
LEMMA IInvMapsNext == IInv' => Mapped'
BY IInvMaps, PTL

\* The store's steps in terms of the two mapped functions.
LEMMA StoreStutters ==
  ASSUME \A s \in Sectors : Content(s)' = Content(s) /\ Owner(s)' = Owner(s)
  PROVE  [Store!Next]_Store!vars
BY DEF Store!vars

\* A step that only makes p the owner of a free sector is the store's Take.
LEMMA StoreTakes ==
  ASSUME NEW p \in Procs, NEW s \in Sectors, Owner(s) = None, Owner(s)' = p,
         \A t \in Sectors : Content(t)' = Content(t) /\ (t # s => Owner(t)' = Owner(t))
  PROVE  [Store!Next]_Store!vars
<1>1. Store!Take(p, s)
  BY Zenon DEF Store!Take
<1>2. QED
  BY <1>1 DEF Store!Next

\* A step that only changes what p's own sector contains is the store's Put.
LEMMA StorePuts ==
  ASSUME NEW p \in Procs, NEW s \in Sectors, NEW v \in Values, Owner(s) = p, Content(s)' = v,
         \A t \in Sectors : Owner(t)' = Owner(t) /\ (t # s => Content(t)' = Content(t))
  PROVE  [Store!Next]_Store!vars
<1>1. Store!Put(p, s)
  BY Zenon DEF Store!Put
<1>2. QED
  BY <1>1 DEF Store!Next

\* A step that only frees p's own sector is the store's Give.
LEMMA StoreGives ==
  ASSUME NEW p \in Procs, NEW s \in Sectors, Owner(s) = p, Owner(s)' = None,
         \A t \in Sectors : Content(t)' = Content(t) /\ (t # s => Owner(t)' = Owner(t))
  PROVE  [Store!Next]_Store!vars
<1>1. Store!Give(p, s)
  BY Zenon DEF Store!Give
<1>2. QED
  BY <1>1 DEF Store!Next

\* A sector's content stays where its buffer keeps the data, or the disk does.
LEMMA SameContent ==
  ASSUME IInv, IInv', NEW s \in Sectors,
         \A b \in Bufs : buf[b].sector = s /\ Valid(b) <=> buf'[b].sector = s /\ Valid(b)',
         \A b \in Bufs : buf[b].sector = s /\ Valid(b) => buf'[b].data = buf[b].data,
         (\A b \in Bufs : buf[b].sector = s => ~Valid(b)) => disk'[s] = disk[s]
  PROVE  Content(s)' = Content(s)
<1>1. Mapped /\ Mapped'
  BY IInvMaps, IInvMapsNext
<1>2. CASE \E b \in Bufs : buf[b].sector = s /\ Valid(b)
  <2>1. PICK b \in Bufs : buf[b].sector = s /\ Valid(b)
    BY <1>2
  <2>2. Content(s) = buf[b].data
    BY <1>1, <2>1, Zenon DEF Mapped
  <2>3. Content(s)' = buf'[b].data
    BY <1>1, <2>1, Zenon DEF Mapped
  <2>4. QED
    BY <2>1, <2>2, <2>3
<1>3. CASE \A b \in Bufs : buf[b].sector = s => ~Valid(b)
  <2>1. Content(s) = disk[s]
    BY <1>1, <1>3 DEF Mapped
  <2>2. Content(s)' = disk'[s]
    BY <1>1, <1>3 DEF Mapped
  <2>3. QED
    BY <1>3, <2>1, <2>2
<1>4. QED
  BY <1>2, <1>3

\* A sector's owner stays where the hold on its buffer does.
LEMMA SameOwner ==
  ASSUME IInv, IInv', NEW s \in Sectors,
         \A b \in Bufs : buf[b].sector = s /\ Valid(b) <=> buf'[b].sector = s /\ Valid(b)',
         \A b \in Bufs : buf[b].sector = s /\ Valid(b) =>
           \A q \in Procs : b \in held'[q] <=> b \in held[q]
  PROVE  Owner(s)' = Owner(s)
<1>1. Mapped /\ Mapped'
  BY IInvMaps, IInvMapsNext
<1>2. CASE \E b \in Bufs : buf[b].sector = s /\ Valid(b) /\ Busy(b)
  <2>1. PICK b \in Bufs : buf[b].sector = s /\ Valid(b) /\ Busy(b)
    BY <1>2
  <2>2. PICK q \in Procs : b \in held[q]
    BY <2>1, Zenon DEF IInv, Exclusive
  <2>3. Owner(s) = q
    BY <1>1, <2>1, <2>2 DEF Mapped
  <2>4. Owner(s)' = q
    BY <1>1, <2>1, <2>2 DEF Mapped
  <2>5. QED
    BY <2>3, <2>4
<1>3. CASE \A b \in Bufs : buf[b].sector = s /\ Valid(b) => ~Busy(b)
  <2>1. Owner(s) = None
    BY <1>1, <1>3, Zenon DEF Mapped
  <2>2. \A b \in Bufs : buf'[b].sector = s /\ Valid(b)' => ~Busy(b)'
    BY <1>3 DEF IInv, Exclusive
  <2>3. Owner(s)' = None
    BY <1>1, <2>2 DEF Mapped
  <2>4. QED
    BY <2>1, <2>3
<1>4. QED
  BY <1>2, <1>3

\* A step that changes no buffer, no hold and nothing on the disk.
LEMMA QuietMaps ==
  ASSUME IInv, IInv', Clean, UNCHANGED <<buf, held, disk>>
  PROVE  Clean' /\ [Store!Next]_Store!vars
<1>1. Clean'
  BY DEF Clean, Valid, Dirty
<1>2. ASSUME NEW s \in Sectors PROVE Content(s)' = Content(s) /\ Owner(s)' = Owner(s)
  BY SameContent, SameOwner DEF Valid
<1>3. QED
  BY <1>1, <1>2, StoreStutters

\* bget's hit takes the sector.
LEMMA BgetHitMaps ==
  ASSUME IInv, IInv', Clean, NEW p \in Procs, at[p] = "bget", chan[p] = None,
         NEW b \in Bufs, buf[b].sector = want[p], ~Busy(b),
         buf' = [buf EXCEPT ![b].flags.busy = TRUE],
         bgetReturn(p, b), UNCHANGED <<ideVars, lru>>
  PROVE  Clean' /\ [Store!Next]_Store!vars
<1>1. buf \in [Bufs -> Buffers] /\ want[p] \in Sectors /\ UNCHANGED disk
  BY Zenon DEF IInv, Types, Placed, PlacedAt, ideVars
<1>2. \A c \in Bufs : /\ buf'[c].sector = buf[c].sector /\ buf'[c].data = buf[c].data
                      /\ Valid(c)' <=> Valid(c)
                      /\ Dirty(c)' <=> Dirty(c)
  BY <1>1, BusySet, Zenon
<1>3. Valid(b)
  BY BgetHitKeeps, Zenon
<1>4. Clean'
  BY <1>1, <1>2 DEF Clean
<1>5. ASSUME NEW s \in Sectors PROVE Content(s)' = Content(s)
  BY <1>1, <1>2, SameContent
<1>6. held'[p] = held[p] \cup {b} /\ \A q \in Procs : q # p => held'[q] = held[q]
  BY Zenon DEF bgetReturn, IInv, Types
<1>7. ASSUME NEW s \in Sectors, s # want[p] PROVE Owner(s)' = Owner(s)
  <2>1. \A c \in Bufs : buf[c].sector = s => c # b
    BY <1>7
  <2>2. QED
    BY <1>2, <1>6, <2>1, SameOwner
<1>8. Owner(want[p]) = None
  <2>1. \A c \in Bufs : buf[c].sector = want[p] => c = b
    BY <1>1, DiskAssumption DEF IInv, Exclusive
  <2>2. QED
    BY <1>1, <2>1, IInvMaps DEF Mapped
<1>9. PICK s \in Sectors : s = want[p]
  BY <1>1
<1>10. Owner(s)' = p
  BY <1>2, <1>3, <1>6, <1>9, IInvMapsNext DEF Mapped
<1>11. QED
  BY <1>4, <1>5, <1>7, <1>8, <1>9, <1>10, StoreTakes

\* Recycling is not seen: what the buffer had is on the disk, and what it will
\* have is not there yet.
LEMMA BgetMissMaps ==
  ASSUME IInv, IInv', Clean, NEW p \in Procs, at[p] = "bget", chan[p] = None,
         NEW b \in Bufs, Recyclable(b), Cached(want[p]) = {},
         buf' = [buf EXCEPT ![b].sector = want[p],
                            ![b].flags = [busy |-> TRUE, valid |-> FALSE, dirty |-> FALSE]],
         bgetReturn(p, b), UNCHANGED <<ideVars, lru>>
  PROVE  Clean' /\ [Store!Next]_Store!vars
<1>1. buf \in [Bufs -> Buffers] /\ want[p] \in Sectors /\ UNCHANGED disk
  BY Zenon DEF IInv, Types, Placed, PlacedAt, ideVars
<1>2. /\ ~Valid(b)'
      /\ \A c \in Bufs : c # b => /\ buf'[c] = buf[c]
                                  /\ Valid(c)' <=> Valid(c)
                                  /\ Dirty(c)' <=> Dirty(c)
  BY <1>1, Recycled, Zenon
<1>3. Clean'
  BY <1>1, <1>2 DEF Clean
<1>4. held'[p] = held[p] \cup {b} /\ \A q \in Procs : q # p => held'[q] = held[q]
  BY Zenon DEF bgetReturn, IInv, Types
<1>5. ASSUME NEW s \in Sectors, buf[b].sector = s, Valid(b)
      PROVE  Content(s)' = Content(s) /\ Owner(s)' = Owner(s)
  <2>1. \A c \in Bufs : buf[c].sector = s => c = b
    BY <1>5, DiskAssumption DEF IInv, Exclusive
  <2>2. Content(s) = disk[s] /\ Owner(s) = None
    BY <1>5, <2>1, IInvMaps DEF Mapped, Clean, Recyclable
  <2>3. \A c \in Bufs : buf'[c].sector = s => ~Valid(c)'
    BY <1>2, <2>1
  <2>4. Content(s)' = disk'[s] /\ Owner(s)' = None
    BY <2>3, IInvMapsNext, Zenon DEF Mapped
  <2>5. QED
    BY <1>1, <2>2, <2>4
<1>6. ASSUME NEW s \in Sectors, ~(buf[b].sector = s /\ Valid(b))
      PROVE  Content(s)' = Content(s) /\ Owner(s)' = Owner(s)
  <2>1. \A c \in Bufs : buf[c].sector = s /\ Valid(c) <=> buf'[c].sector = s /\ Valid(c)'
    BY <1>2, <1>6, Zenon
  <2>2. \A c \in Bufs : buf[c].sector = s /\ Valid(c) => buf'[c].data = buf[c].data
    BY <1>2, <1>6, Zenon
  <2>3. \A c \in Bufs : buf[c].sector = s /\ Valid(c) => \A q \in Procs : c \in held'[q] <=> c \in held[q]
    BY <1>4, <1>6
  <2>4. QED
    BY <1>1, <2>1, <2>2, <2>3, SameContent, SameOwner
<1>7. QED
  BY <1>3, <1>5, <1>6, StoreStutters

\* A process that is not inside the cache has its buffers with their data.
LEMMA HeldIsValid ==
  ASSUME IInv, NEW p \in Procs, at[p] = "run", NEW b \in held[p]
  PROVE  b \in Bufs /\ Valid(b) /\ buf[b].sector \in Sectors
<1>1. b \in Bufs /\ cur[p] = None
  BY Zenon DEF IInv, Types, Placed, PlacedAt
<1>2. Valid(b)
  BY <1>1, BufsAssumption DEF IInv, Filled
<1>3. QED
  BY <1>1, <1>2 DEF IInv, Filled

\* log_write and bwrite put the new data.
LEMMA ChangeMaps ==
  ASSUME IInv, IInv', Clean, NEW p \in Procs, at[p] = "run", NEW b \in held[p], NEW v \in Values,
         buf' = [buf EXCEPT ![b].data = v, ![b].flags.dirty = TRUE],
         UNCHANGED <<held, disk>>
  PROVE  Clean' /\ [Store!Next]_Store!vars
<1>1. buf \in [Bufs -> Buffers] /\ b \in Bufs
  BY Zenon DEF IInv, Types
<1>2. /\ buf'[b].data = v
      /\ \A c \in Bufs : /\ c # b => buf'[c] = buf[c]
                         /\ buf'[c].sector = buf[c].sector
                         /\ Valid(c)' <=> Valid(c)
                         /\ Dirty(c)' <=> Dirty(c) \/ c = b
  BY <1>1, Changed, Zenon
<1>3. Valid(b) /\ buf[b].sector \in Sectors
  BY <1>1, HeldIsValid
<1>4. Clean'
  BY <1>2, Zenon DEF Clean
<1>5. PICK s \in Sectors : s = buf[b].sector
  BY <1>3
<1>6. Owner(s) = p
  BY <1>3, <1>5, IInvMaps DEF Mapped
<1>7. Content(s)' = v
  BY <1>1, <1>2, <1>3, <1>5, IInvMapsNext DEF Mapped
<1>8. ASSUME NEW t \in Sectors PROVE Owner(t)' = Owner(t)
  BY <1>2, SameOwner, Zenon
<1>9. ASSUME NEW t \in Sectors, t # s PROVE Content(t)' = Content(t)
  BY <1>2, <1>5, <1>9, SameContent, Zenon
<1>10. QED
  BY <1>4, <1>6, <1>7, <1>8, <1>9, StorePuts

\* brelse gives the sector back.
LEMMA BrelseMaps ==
  ASSUME IInv, IInv', Clean, NEW p \in Procs, NEW b \in held[p], brelse(p, b)
  PROVE  Clean' /\ [Store!Next]_Store!vars
<1>1. at[p] = "run" /\ b \in Bufs /\ buf \in [Bufs -> Buffers] /\ Busy(b)
  BY Zenon DEF brelse, IInv, Types, Exclusive
<1>2. /\ buf' = [buf EXCEPT ![b].flags.busy = FALSE]
      /\ held' = [held EXCEPT ![p] = @ \ {b}]
      /\ UNCHANGED disk
  BY <1>1 DEF brelse, ideVars
<1>3. \A c \in Bufs : /\ buf'[c].sector = buf[c].sector /\ buf'[c].data = buf[c].data
                      /\ Valid(c)' <=> Valid(c)
                      /\ Dirty(c)' <=> Dirty(c)
                      /\ Busy(c)' <=> IF c = b THEN FALSE ELSE Busy(c)
  BY <1>1, <1>2, BusySet, Zenon
<1>4. Valid(b) /\ buf[b].sector \in Sectors
  BY <1>1, HeldIsValid
<1>5. Clean'
  BY <1>2, <1>3 DEF Clean
<1>6. PICK s \in Sectors : s = buf[b].sector
  BY <1>4
<1>7. Owner(s) = p
  BY <1>4, <1>6, IInvMaps DEF Mapped
<1>8. Owner(s)' = None
  <2>0. s # NoSector
    BY <1>6, DiskAssumption
  <2>1. \A c \in Bufs : buf'[c].sector = s => c = b
    <3>1. \A c \in Bufs : buf'[c].sector = buf[c].sector
      BY <1>3, Zenon
    <3>2. \A c \in Bufs : buf[b].sector = buf[c].sector /\ buf[b].sector # NoSector => b = c
      BY <1>1, Zenon DEF IInv, Exclusive
    <3>3. QED
      BY <1>6, <2>0, <3>1, <3>2
  <2>2. \A c \in Bufs : buf'[c].sector = s /\ Valid(c)' => ~Busy(c)'
    BY <1>3, <2>1, Zenon
  <2>3. QED
    BY <2>2, IInvMapsNext, Zenon DEF Mapped
<1>9. ASSUME NEW t \in Sectors PROVE Content(t)' = Content(t)
  BY <1>2, <1>3, SameContent
<1>10. ASSUME NEW t \in Sectors, t # s PROVE Owner(t)' = Owner(t)
  <2>1. \A c \in Bufs : buf[c].sector = t => \A q \in Procs : c \in held'[q] <=> c \in held[q]
    BY <1>2, <1>6, <1>10, Zenon DEF IInv, Types
  <2>2. QED
    BY <1>3, <2>1, SameOwner, Zenon
<1>11. QED
  BY <1>5, <1>7, <1>8, <1>9, <1>10, StoreGives

\* A write of the drive is not seen, a read makes the sector available to who
\* asked for it.
LEMMA IdeintrMaps ==
  ASSUME ReadOk = {TRUE}, IInv, IInv', Clean, ideintr, UNCHANGED <<lru, want, held>>
  PROVE  Clean' /\ [Store!Next]_Store!vars
<1>0. idequeue \in Seq(Bufs) /\ idequeue # <<>> /\ Len(idequeue) \in Nat \ {0}
  BY EmptyList DEF IInv, Types, ideintr
<1>1. PICK b \in Bufs : b = idequeue[1] /\ b = Head(idequeue)
  BY <1>0, FirstIsHead
<1>2. PICK o \in Procs : at[o] = "io" /\ cur[o] = b
  <2>1. 1 \in 1 .. Len(idequeue)
    BY <1>0
  <2>2. QED
    BY <1>1, <2>1, Zenon DEF IInv, Queued
<1>3. b \in held[o] /\ ~Synced(buf[b].flags) /\ buf[b].sector \in Sectors
  <2>1. \E i \in 1..Len(idequeue) : idequeue[i] = b
    BY <1>0, <1>1
  <2>2. b \in held[o] /\ ~Synced(buf[b].flags)
    BY <1>2, <2>1, Zenon DEF IInv, Placed, PlacedAt
  <2>3. QED
    BY <2>2, Zenon DEF IInv, Exclusive, Filled
<1>4. PICK s \in Sectors : s = buf[b].sector
  BY <1>3
<1>5. drive[1].write = Dirty(b) /\ drive[1].sector = s /\ drive[1].data = buf[b].data
  <2>1. drive = idestart(b)
    BY <1>0, <1>1 DEF IInv, Queued
  <2>2. QED
    BY <1>4, <2>1 DEF idestart
<1>6. PICK v \in Values : v = IF Dirty(b) THEN buf[b].data ELSE disk[s]
  BY Zenon DEF IInv, Types, Buffers
<1>7. buf' = [buf EXCEPT ![b].flags.valid = TRUE, ![b].flags.dirty = FALSE, ![b].data = v]
  BY <1>1, <1>5, <1>6 DEF ideintr
<1>8. buf \in [Bufs -> Buffers]
  BY Zenon DEF IInv, Types
<1>9. /\ \A c \in Bufs : c # b => buf'[c] = buf[c] /\ (Valid(c)' <=> Valid(c)) /\ (Dirty(c)' <=> Dirty(c))
      /\ buf'[b].sector = s /\ buf'[b].data = v /\ Valid(b)' /\ ~Dirty(b)'
  BY <1>4, <1>7, <1>8, Finished, Zenon DEF Valid, Dirty
<1>10. \A c \in Bufs : buf[c].sector = s => c = b
  BY <1>4, DiskAssumption DEF IInv, Exclusive
<1>11. \A c \in Bufs : buf'[c].sector = buf[c].sector
  BY <1>4, <1>9
<1>12. CASE Dirty(b)
  <2>1. Valid(b) /\ disk' = [disk EXCEPT ![s] = v]
    BY <1>5, <1>6, <1>12 DEF IInv, Filled, ideintr, platter
  <2>2. disk'[s] = v /\ \A t \in Sectors : t # s => disk'[t] = disk[t]
    BY <2>1, Zenon DEF IInv, Types
  <2>3. Clean'
    <3>1. ASSUME NEW c \in Bufs, Valid(c)', ~Dirty(c)' PROVE buf'[c].data = disk'[buf'[c].sector]
      <4>1. CASE c = b
        BY <1>9, <2>2, <4>1
      <4>2. CASE c # b
        <5>1. Valid(c) /\ ~Dirty(c) /\ buf[c].sector \in Sectors /\ buf[c].sector # s
          BY <1>9, <1>10, <3>1, <4>2, Zenon DEF IInv, Filled
        <5>2. QED
          BY <1>9, <2>2, <4>2, <5>1 DEF Clean
      <4>3. QED
        BY <4>1, <4>2
    <3>2. QED
      BY <3>1 DEF Clean
  <2>4. ASSUME NEW t \in Sectors PROVE Content(t)' = Content(t) /\ Owner(t)' = Owner(t)
    <3>1. \A c \in Bufs : buf[c].sector = t /\ Valid(c) <=> buf'[c].sector = t /\ Valid(c)'
      BY <1>9, <1>11, <2>1
    <3>2. \A c \in Bufs : buf[c].sector = t /\ Valid(c) => buf'[c].data = buf[c].data
      BY <1>6, <1>9, <1>12
    <3>3. (\A c \in Bufs : buf[c].sector = t => ~Valid(c)) => disk'[t] = disk[t]
      BY <1>4, <2>1, <2>2
    <3>4. QED
      BY <3>1, <3>2, <3>3, SameContent, SameOwner
  <2>5. QED
    BY <2>3, <2>4, StoreStutters
<1>13. CASE ~Dirty(b)
  <2>1. ~Valid(b) /\ disk' = disk /\ v = disk[s]
    BY <1>3, <1>5, <1>6, <1>13 DEF Synced, Valid, Dirty, ideintr, platter
  <2>2. Clean'
    BY <1>9, <2>1 DEF Clean
  <2>3. ASSUME NEW t \in Sectors, t # s PROVE Content(t)' = Content(t) /\ Owner(t)' = Owner(t)
    <3>1. \A c \in Bufs : buf[c].sector = t => c # b
      BY <1>4, <2>3
    <3>2. \A c \in Bufs : buf[c].sector = t /\ Valid(c) <=> buf'[c].sector = t /\ Valid(c)'
      BY <1>9, <1>11, <3>1
    <3>3. \A c \in Bufs : buf[c].sector = t /\ Valid(c) => buf'[c].data = buf[c].data
      BY <1>9, <3>1
    <3>4. QED
      BY <2>1, <3>2, <3>3, SameContent, SameOwner
  <2>4. Content(s) = disk[s] /\ Owner(s) = None
    BY <1>10, <2>1, IInvMaps DEF Mapped
  <2>5. Content(s)' = v /\ Owner(s)' = o
    <3>1. b \in held'[o]
      BY <1>3
    <3>2. QED
      BY <1>9, <3>1, IInvMapsNext, Zenon DEF Mapped
  <2>6. QED
    BY <2>1, <2>2, <2>3, <2>4, <2>5, StoreTakes
<1>14. QED
  BY <1>12, <1>13

\* bget takes the sector when it finds it valid; to sleep, to recycle a buffer
\* or to panic changes nothing the store has.
LEMMA BgetMaps ==
  ASSUME IInv, IInv', Clean, NEW p \in Procs, bget(p)
  PROVE  Clean' /\ [Store!Next]_Store!vars
<1>1. at[p] = "bget" /\ chan[p] = None /\ UNCHANGED <<ideVars, lru>>
  BY Zenon DEF bget
<1>2. CASE \E b \in Cached(want[p]) : Busy(b) /\ bgetSleep(p, b)
  BY <1>1, <1>2, QuietMaps, Zenon DEF bgetSleep, ideVars
<1>3. CASE \E b \in Cached(want[p]) : /\ ~Busy(b)
                                      /\ buf' = [buf EXCEPT ![b].flags.busy = TRUE]
                                      /\ bgetReturn(p, b)
  <2>1. PICK b \in Cached(want[p]) : /\ ~Busy(b)
                                     /\ buf' = [buf EXCEPT ![b].flags.busy = TRUE]
                                     /\ bgetReturn(p, b)
    BY <1>3, Zenon
  <2>2. b \in Bufs /\ buf[b].sector = want[p]
    BY DEF Cached
  <2>3. QED
    BY <1>1, <2>1, <2>2, BgetHitMaps, Zenon
<1>4. CASE /\ Cached(want[p]) = {} /\ \E b \in Bufs : Recyclable(b)
           /\ buf' = [buf EXCEPT ![Victim].sector = want[p],
                        ![Victim].flags = [busy |-> TRUE, valid |-> FALSE, dirty |-> FALSE]]
           /\ bgetReturn(p, Victim)
  <2>1. Victim \in Bufs /\ Recyclable(Victim)
    BY <1>4, VictimRecyclable DEF IInv
  <2>2. QED
    BY <1>1, <1>4, <2>1, BgetMissMaps, Zenon
<1>5. CASE machine' = "bget: no buffers" /\ UNCHANGED <<buf, chan, at, cur, held, want>>
  BY <1>1, <1>5, QuietMaps, Zenon DEF ideVars
<1>6. QED
  BY <1>2, <1>3, <1>4, <1>5, Zenon DEF bget

\* Every step of the cache is a step of the store, or none, while reads succeed.
LEMMA NextMaps ==
  ASSUME ReadOk = {TRUE}, IInv, IInv', Clean, [Next]_vars
  PROVE  Clean' /\ [Store!Next]_Store!vars
<1> DEFINE Goal == Clean' /\ [Store!Next]_Store!vars
<1>1. ASSUME NEW p \in Procs, NEW s \in Sectors, call(p, s) PROVE Goal
  BY <1>1, QuietMaps DEF call, ideVars
<1>2. ASSUME NEW p \in Procs, bget(p) PROVE Goal
  BY <1>2, BgetMaps
<1>3. ASSUME NEW p \in Procs, iderw(p), UNCHANGED <<lru, want, held>> PROVE Goal
  BY <1>3, QuietMaps, Zenon DEF iderw, ideVars
<1>4. ASSUME NEW p \in Procs, iderwWoken(p), UNCHANGED <<lru, want, held>> PROVE Goal
  BY <1>4, QuietMaps DEF iderwWoken, ideVars
<1>5. ASSUME NEW p \in Procs, kill(p), UNCHANGED <<lru, want, held>> PROVE Goal
  BY <1>5, QuietMaps DEF kill, ideVars
<1>6. ASSUME NEW p \in Procs, NEW b \in held[p], brelse(p, b) PROVE Goal
  BY <1>6, BrelseMaps
<1>7. ASSUME NEW p \in Procs, NEW b \in held[p], NEW v \in Values, log_write(p, b, v) PROVE Goal
  BY <1>7, ChangeMaps, Zenon DEF log_write, ideVars
<1>8. ASSUME NEW p \in Procs, NEW b \in held[p], NEW v \in Values, bwrite(p, b, v) PROVE Goal
  <2>1. Busy(b)
    BY Zenon DEF IInv, Types, Exclusive
  <2>2. QED
    BY <1>8, <2>1, ChangeMaps DEF bwrite, ideVars
<1>9. ASSUME ideintr, UNCHANGED <<lru, want, held>> PROVE Goal
  BY <1>9, IdeintrMaps
<1>10. ASSUME UNCHANGED vars PROVE Goal
  BY <1>10, QuietMaps DEF vars, ideVars
<1>11. QED
  BY <1>1, <1>2, <1>3, <1>4, <1>5, <1>6, <1>7, <1>8, <1>9, <1>10, Zenon DEF Next, stopped

\* At boot no buffer is valid: the store is the disk, and nobody owns a sector.
LEMMA InitMaps == Init => Store!Init
<1> SUFFICES ASSUME Init PROVE Store!Init
  OBVIOUS
<1>1. Mapped /\ Types /\ Clean
  BY InitIInv, IInvMaps DEF IInv
<1>2. \A s \in Sectors : Content(s) \in Values /\ Owner(s) = None
  BY <1>1 DEF Init, Mapped, Types, Valid, Busy
<1>3. QED
  BY <1>2 DEF Store!Init

\* Over a drive whose reads succeed, bread, bwrite, log_write and brelse are a
\* store of sectors: one owner at a time, who finds what the last one left.
\* With read errors ideintr still sets B_VALID, and this does not hold.
THEOREM CacheIsStore ==
  ASSUME ReadOk = {TRUE}
  PROVE  Spec => ImplementsStore
<1>1. IInv /\ Clean /\ IInv' /\ [Next]_vars => Clean' /\ [Store!Next]_Store!vars
  BY NextMaps
<1>2. Spec => []Clean
  BY <1>1, InitIInv, Invariant, PTL DEF Spec
<1>3. Spec => Store!Init /\ [][Store!Next]_Store!vars
  BY <1>1, <1>2, InitMaps, Invariant, PTL DEF Spec
<1>4. QED
  BY <1>3 DEF ImplementsStore, Store!Spec
=============================================================================
