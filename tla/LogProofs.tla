----------------------------- MODULE LogProofs -----------------------------
(***************************************************************************)
(* The log implements AtomicStore, for every number of processes, blocks   *)
(* and values and every size of the log, as long as log_write is not       *)
(* preempted: whatever the point of a crash, what recovery leaves is the   *)
(* state of the last commit.                                               *)
(***************************************************************************)
EXTENDS Log, FiniteSetTheorems, WellFoundedInduction, TLAPS

----------------------------------------------------------------------------
(* Facts about sets of numbers and about lists.                            *)

\* A non-empty set of naturals has a least element.
LEMMA MinOfNats ==
  ASSUME NEW S \in SUBSET Nat, S # {}
  PROVE  Min(S) \in S /\ \A y \in S : Min(S) <= y
<1> DEFINE R == {ss \in Nat \X Nat : ss[1] < ss[2]}
<1>1. IsWellFoundedOn(R, Nat)
  BY NatLessThanWellFounded DEF OpToRel
<1>2. PICK x \in S : \A y \in S : ~(<<y, x>> \in R)
  BY <1>1, WFMin, Zenon
<1>3. ASSUME NEW y \in S PROVE x <= y
  <2>1. ~(<<y, x>> \in R) /\ x \in Nat /\ y \in Nat
    BY <1>2
  <2>2. QED
    BY <2>1
<1>4. QED
  BY <1>3, Zenon DEF Min

\* A non-empty bounded set of naturals has a greatest element.
LEMMA MaxOfNats ==
  ASSUME NEW bound \in Nat, NEW S \in SUBSET (0..bound), S # {}
  PROVE  Max(S) \in S /\ \A y \in S : y <= Max(S)
<1> DEFINE T == {y \in Nat : bound - y \in S}
<1>1. T \in SUBSET Nat /\ T # {}
  <2>1. PICK x \in S : TRUE
    BY Zenon
  <2>2. bound - x \in T
    BY <2>1
  <2>3. QED
    BY <2>2, Zenon
<1>2. Min(T) \in T /\ \A y \in T : Min(T) <= y
  BY <1>1, MinOfNats
<1>3. \A x \in S : Min(T) <= bound - x
  <2>1. \A x \in S : bound - x \in T
    OBVIOUS
  <2>2. QED
    BY <1>2, <2>1
<1>4. bound - Min(T) \in S /\ \A y \in S : bound - Min(T) >= y
  BY <1>2, <1>3
<1>5. Max(S) \in S /\ \A y \in S : Max(S) >= y
  BY <1>4, Zenon DEF Max
<1>6. QED
  BY <1>5

\* A non-empty set of positions of a sequence has a greatest element.
LEMMA MaxOfInterval ==
  ASSUME NEW bound \in Nat, NEW S \in SUBSET (1..bound), S # {}
  PROVE  Max(S) \in S
BY MaxOfNats

\* The places of the elements when one is put at the end.
LEMMA Appended ==
  ASSUME NEW S, NEW l \in Seq(S), NEW b \in S
  PROVE  /\ Append(l, b) \in Seq(S) /\ Len(Append(l, b)) = Len(l) + 1
         /\ \A i \in 1 .. Len(l) : Append(l, b)[i] = l[i]
         /\ Append(l, b)[Len(l) + 1] = b
OBVIOUS

\* A list without repetitions.
Distinct(l) == \A i, j \in 1..Len(l) : l[i] = l[j] => i = j

\* A new element at the end of a list without repetitions.
LEMMA AppendToDistinct ==
  ASSUME NEW S, NEW l \in Seq(S), Distinct(l), NEW b \in S, b \notin Range(l)
  PROVE  /\ Append(l, b) \in Seq(S)
         /\ Distinct(Append(l, b))
         /\ Range(Append(l, b)) = Range(l) \cup {b}
         /\ Last(Append(l, b)) = b
<1>1. PICK m : m = Append(l, b)
  BY Zenon
<1>2. /\ m \in Seq(S) /\ Len(m) = Len(l) + 1 /\ Len(l) \in Nat
      /\ \A i \in 1..Len(l) : m[i] = l[i]
      /\ m[Len(l) + 1] = b
  BY <1>1, Appended
<1>3. DOMAIN m = 1..Len(m) /\ DOMAIN l = 1..Len(l)
  BY <1>2
<1>4. \A i \in 1..Len(l) : l[i] # b
  BY <1>3 DEF Range
<1>5. Distinct(m)
  BY <1>2, <1>4 DEF Distinct
<1>6. Range(m) = Range(l) \cup {b}
  <2>1. \A i \in 1..Len(m) : i \in 1..Len(l) \/ i = Len(l) + 1
    BY <1>2
  <2>2. 1..Len(l) \subseteq 1..Len(m) /\ Len(l) + 1 \in 1..Len(m)
    BY <1>2
  <2> QED
    BY <1>2, <1>3, <2>1, <2>2 DEF Range
<1> QED
  BY <1>1, <1>2, <1>5, <1>6 DEF Last

----------------------------------------------------------------------------
(* The inductive invariant.                                                *)

Active == {p \in Procs : pc[p] \in {"op", "log_write"}}

Up == machine \in {"up", "panic"}

Types ==
  /\ home \in [Sectors -> Values] /\ buf \in [Sectors -> Values]
  /\ logged \in [LogBlocks -> Values]
  /\ head \in Seq(Sectors) /\ lh \in Seq(Sectors)
  /\ dirty \in SUBSET Sectors
  /\ pc \in [Procs -> {"user", "sleep", "woken", "op", "log_write", "commit"}]
  /\ committing \in BOOLEAN
  /\ tail \in Nat \ {0}
  /\ machine \in {"off", "boot", "up", "panic"}

\* A header lists no block twice and no more blocks than the log has.
Headers == Distinct(lh) /\ Len(lh) < NLOG /\ Distinct(head) /\ Len(head) < NLOG

\* outstanding counts the operations, none is under way in a commit, and a
\* machine that is not up runs none.
Counted ==
  /\ outstanding = Cardinality(Active)
  /\ committing => Active = {}
  /\ Up => (committing <=> phase # "none")
  /\ ~Up => Active = {} /\ ~committing

\* Where the header on disk stands in each phase.
OnDisk ==
  /\ Up => phase \in {"none", "write_log", "write_head", "install_trans", "clear", "done"}
  /\ machine = "boot" => phase \in {"install_trans", "clear"}
  /\ machine = "off" => phase = "none"
  /\ phase \in {"none", "write_log", "write_head", "done"} /\ machine # "off" => head = <<>>
  /\ phase \in {"install_trans", "clear"} => head = lh
  /\ phase \in {"write_log", "install_trans"} => tail <= Len(lh)
  /\ phase \notin {"write_log", "install_trans"} => tail = 1
  /\ phase = "write_head" => 1 <= Len(lh)
  /\ phase = "done" => lh = <<>>

\* What the loops of write_log and install_trans have copied so far.
Copied ==
  /\ phase = "write_log" => \A i \in 1 .. Len(lh) : i < tail => logged[i] = buf[lh[i]]
  /\ phase = "write_head" => \A i \in 1 .. Len(lh) : logged[i] = buf[lh[i]]
  /\ phase = "install_trans" /\ Up => \A i \in 1 .. Len(lh) : logged[i] = buf[lh[i]]
  /\ phase = "install_trans" => \A i \in 1 .. Len(lh) : i < tail => logged[i] = home[lh[i]]
  /\ phase = "clear" => \A i \in 1 .. Len(lh) : logged[i] = home[lh[i]]

\* A buffer that is not pinned holds what is on disk.
Coherent == \A s \in Sectors \ dirty : buf[s] = home[s]

\* The blocks pinned are those of the header that are not installed yet.
Pinned ==
  /\ Up /\ phase \in {"none", "write_log", "write_head"} => dirty = Range(lh)
  /\ Up /\ phase = "install_trans" => dirty = {lh[i] : i \in tail .. Len(lh)}
  /\ ~Up \/ phase \in {"clear", "done"} => dirty = {}

\* One call of log_write is under way at a time, and the entry it found is
\* still the right one.
Writing ==
  /\ \A w \in writing : /\ w.proc \in Procs /\ pc[w.proc] = "log_write"
                        /\ w.sector \in Sectors /\ w.value \in Values
                        /\ w.i = Entry(w.sector) /\ Len(lh) + 1 < NLOG
  /\ \A v, w \in writing : v = w
  /\ \A p, q \in Procs : pc[p] = "log_write" /\ pc[q] = "log_write" => p = q

IInv == /\ Types /\ Headers /\ Counted /\ OnDisk
        /\ Copied /\ Coherent /\ Pinned /\ Writing

----------------------------------------------------------------------------
(* Facts about the header and the counts.                                  *)

\* The search of log_write finds a block's entry, or the first free one.
LEMMA EntryFound ==
  ASSUME NEW s \in Sectors, lh \in Seq(Sectors)
  PROVE  \/ /\ s \in Range(lh)
            /\ Entry(s) \in 1 .. Len(lh) /\ lh[Entry(s)] = s
         \/ s \notin Range(lh) /\ Entry(s) = Len(lh) + 1
<1> DEFINE I == {i \in 1 .. Len(lh) : lh[i] = s}
<1>1. Len(lh) \in Nat /\ DOMAIN lh = 1 .. Len(lh)
  OBVIOUS
<1>2. CASE \E i \in 1 .. Len(lh) : lh[i] = s
  <2>1. I \in SUBSET Nat /\ I # {}
    BY <1>2
  <2>2. Min(I) \in I
    BY <2>1, MinOfNats, Zenon
  <2>3. s \in Range(lh)
    BY <1>1, <1>2 DEF Range
  <2>4. Entry(s) = Min(I)
    BY <2>3 DEF Entry, n
  <2> HIDE DEF I
  <2>5. Min(I) \in 1 .. Len(lh) /\ lh[Min(I)] = s
    BY <2>2 DEF I
  <2> QED
    BY <2>3, <2>4, <2>5
<1>3. CASE ~ \E i \in 1 .. Len(lh) : lh[i] = s
  <2>1. s \notin Range(lh)
    BY <1>1, <1>3 DEF Range
  <2>2. Entry(s) = Len(lh) + 1
    BY <2>1 DEF Entry, n
  <2> QED
    BY <2>1, <2>2
<1> QED
  BY <1>2, <1>3

\* A header that stays the same keeps its entries where they are.
LEMMA EntryStays ==
  ASSUME lh' = lh, NEW s
  PROVE  Entry(s)' = Entry(s)
BY DEF Entry, n

\* What recovery makes of a block: the copy in the log if the header lists it.
LEMMA RecoveredIs ==
  ASSUME head \in Seq(Sectors), Distinct(head)
  PROVE  /\ \A i \in 1 .. Len(head) : Recovered[head[i]] = logged[i]
         /\ \A s \in Sectors \ Range(head) : Recovered[s] = home[s]
<1>1. Len(head) \in Nat /\ DOMAIN head = 1 .. Len(head)
  OBVIOUS
<1>2. ASSUME NEW i \in 1 .. Len(head) PROVE Recovered[head[i]] = logged[i]
  <2> DEFINE I == {j \in 1 .. Len(head) : head[j] = head[i]}
  <2>1. I \in SUBSET (1 .. Len(head)) /\ I # {}
    OBVIOUS
  <2>2. Max(I) \in I
    BY <1>1, <2>1, MaxOfInterval, Zenon
  <2>4. Max(I) = i
    <3> HIDE DEF I
    <3>1. Max(I) \in 1 .. Len(head) /\ head[Max(I)] = head[i]
      BY <2>2 DEF I
    <3> QED
      BY <3>1 DEF Distinct
  <2>5. head[i] \in Range(head)
    BY <1>1 DEF Range
  <2>6. head[i] \in Sectors
    BY <1>1
  <2>7. Recovered[head[i]] = logged[Max(I)]
    BY <2>5, <2>6, Zenon DEF Recovered
  <2> HIDE DEF I
  <2> QED
    BY <2>4, <2>7
<1>3. ASSUME NEW s \in Sectors \ Range(head) PROVE Recovered[s] = home[s]
  BY <1>3 DEF Recovered
<1> QED
  BY <1>2, <1>3

\* The operations under way are finitely many.
LEMMA ActiveFinite == IsFiniteSet(Active)
BY LogAssumption, FS_Subset DEF Active

\* At boot the log is empty, and cache and disk agree.
LEMMA InitIInv == Init => IInv
<1> SUFFICES ASSUME Init PROVE IInv
  OBVIOUS
<1>1. PICK v \in Values : home = [s \in Sectors |-> v] /\ logged = [i \in LogBlocks |-> v]
  BY DEF Init
<1>2. /\ head = <<>> /\ buf = home /\ dirty = {} /\ lh = <<>>
      /\ outstanding = 0 /\ ~committing /\ committing \in BOOLEAN
      /\ pc = [p \in Procs |-> "user"] /\ writing = {}
      /\ phase = "none" /\ tail = 1 /\ machine = "off"
  BY Zenon DEF Init
<1>3. lh \in Seq(Sectors) /\ head \in Seq(Sectors) /\ Len(lh) = 0 /\ Len(head) = 0
  BY <1>2
<1>4. Types
  BY <1>1, <1>2, <1>3 DEF Types
<1>5. Headers
  BY <1>3, LogAssumption DEF Headers, Distinct
<1>6. Counted
  <2>1. Active = {}
    BY <1>2 DEF Active
  <2>2. Cardinality(Active) = 0
    BY <2>1, FS_EmptySet
  <2> QED
    BY <1>2, <2>1, <2>2 DEF Counted, Up
<1>7. OnDisk
  BY <1>2 DEF OnDisk, Up
<1>8. Copied /\ Coherent /\ Pinned
  BY <1>2 DEF Copied, Coherent, Pinned, Up
<1>9. Writing
  BY <1>2 DEF Writing
<1> QED
  BY <1>4, <1>5, <1>6, <1>7, <1>8, <1>9 DEF IInv

----------------------------------------------------------------------------
(* The steps of an operation.                                              *)

\* What no step of an operation but the recording of a block touches.
Untouched == UNCHANGED <<disk, cache, lh, phase, tail>>

\* A step that leaves the disk, the cache and the commit alone keeps what the
\* invariant says of them.
LEMMA UntouchedKeeps ==
  ASSUME IInv, Untouched, machine' = machine \/ (Up /\ Up')
  PROVE  Headers' /\ OnDisk' /\ Copied' /\ Coherent' /\ Pinned'
<1>1. /\ home' = home /\ logged' = logged /\ head' = head /\ buf' = buf /\ dirty' = dirty
      /\ lh' = lh /\ phase' = phase /\ tail' = tail
  BY DEF Untouched, disk, cache
<1>2. Up' <=> Up
  BY DEF Up
<1>3. Headers' /\ Coherent'
  BY <1>1 DEF IInv, Headers, Coherent, Distinct
<1>4. Copied' /\ Pinned'
  BY <1>1, <1>2 DEF IInv, Copied, Pinned
<1>5. OnDisk'
  BY <1>1, <1>2 DEF IInv, OnDisk, Up
<1> QED
  BY <1>3, <1>4, <1>5

\* A panic stops the machine and changes nothing else.
LEMMA PanicKeeps == IInv /\ Up /\ panic => IInv'
<1> SUFFICES ASSUME IInv, Up, panic PROVE IInv'
  OBVIOUS
<1>1. machine' = "panic" /\ UNCHANGED <<disk, cache, lh, counts, ops, phase, tail>>
  BY DEF panic
<1>2. Up' /\ Untouched
  BY <1>1 DEF Up, Untouched
<1>3. Headers' /\ OnDisk' /\ Copied' /\ Coherent' /\ Pinned'
  BY <1>2, UntouchedKeeps
<1>4. Types'
  BY <1>1 DEF IInv, Types, disk, cache, counts, ops
<1>5. Counted'
  BY <1>1, <1>2 DEF IInv, Counted, Active, counts, ops
<1>6. Writing'
  BY <1>1, EntryStays DEF IInv, Writing, ops
<1> QED
  BY <1>3, <1>4, <1>5, <1>6 DEF IInv

\* begin_op: sleep while committing or short of log space, or join.
LEMMA BeginKeeps ==
  ASSUME IInv, NEW p \in Procs, begin_op(p)
  PROVE  IInv'
<1>1. /\ machine = "up" /\ pc[p] \in {"user", "woken"}
      /\ Untouched /\ machine' = machine /\ committing' = committing /\ writing' = writing
  BY DEF begin_op, Runs, Untouched, disk, cache
<1>2. Headers' /\ OnDisk' /\ Copied' /\ Coherent' /\ Pinned'
  BY <1>1, UntouchedKeeps
<1>3. \/ pc' = [pc EXCEPT ![p] = "sleep"] /\ outstanding' = outstanding
      \/ pc' = [pc EXCEPT ![p] = "op"] /\ outstanding' = outstanding + 1 /\ ~committing
  BY DEF begin_op
<1>4. pc \in [Procs -> {"user", "sleep", "woken", "op", "log_write", "commit"}]
  BY DEF IInv, Types
<1>5. Types'
  <2>1. pc' \in [Procs -> {"user", "sleep", "woken", "op", "log_write", "commit"}]
    BY <1>3, <1>4
  <2> QED
    BY <1>1, <2>1 DEF IInv, Types, Untouched, disk, cache
<1>6. Counted'
  <2>1. Up /\ Up' /\ phase' = phase
    BY <1>1 DEF Up, Untouched
  <2>2. p \notin Active
    BY <1>1 DEF Active
  <2>3. CASE pc' = [pc EXCEPT ![p] = "sleep"] /\ outstanding' = outstanding
    <3>1. Active' = Active
      BY <1>1, <1>4, <2>3 DEF Active
    <3> QED
      BY <1>1, <2>1, <2>3, <3>1 DEF IInv, Counted
  <2>4. CASE pc' = [pc EXCEPT ![p] = "op"] /\ outstanding' = outstanding + 1 /\ ~committing
    <3>1. Active' = Active \cup {p}
      BY <1>4, <2>4 DEF Active
    <3>2. Cardinality(Active') = Cardinality(Active) + 1
      BY <2>2, <3>1, ActiveFinite, FS_AddElement, Zenon
    <3> QED
      BY <1>1, <2>1, <2>4, <3>2 DEF IInv, Counted
  <2> QED
    BY <1>3, <2>3, <2>4
<1>7. Writing'
  <2>1. \A q \in Procs : pc'[q] = "log_write" <=> pc[q] = "log_write"
    BY <1>1, <1>3, <1>4
  <2>2. lh' = lh
    BY <1>1 DEF Untouched
  <2> QED
    BY <1>1, <2>1, <2>2, EntryStays DEF IInv, Writing
<1> QED
  BY <1>2, <1>5, <1>6, <1>7 DEF IInv

\* No other process is in log_write: the call that starts is the only one.
LEMMA LogWriteKeeps ==
  ASSUME Preemptible = FALSE, IInv, NEW p \in Procs, log_write(p)
  PROVE  IInv'
<1>1. CASE panic
  BY <1>1, PanicKeeps DEF log_write, Runs, Up
<1>2. CASE ~panic
  <2>1. PICK s \in Sectors, v \in Values :
          /\ writing' = writing \cup {[proc |-> p, sector |-> s, value |-> v, i |-> Entry(s)]}
          /\ pc' = [pc EXCEPT ![p] = "log_write"]
          /\ UNCHANGED <<disk, cache, lh, counts, wrote, phase, tail, machine>>
    BY <1>2 DEF log_write
  <2>2. machine = "up" /\ pc[p] = "op" /\ ~Full
        /\ \A q \in Procs \ {p} : pc[q] # "log_write"
    BY <1>2 DEF log_write, Runs
  <2>3. Untouched /\ machine' = machine /\ committing' = committing /\ outstanding' = outstanding
    BY <2>1 DEF Untouched, counts
  <2>4. Headers' /\ OnDisk' /\ Copied' /\ Coherent' /\ Pinned'
    BY <2>3, UntouchedKeeps
  <2>5. pc \in [Procs -> {"user", "sleep", "woken", "op", "log_write", "commit"}]
    BY DEF IInv, Types
  <2>6. Types'
    <3>1. pc' \in [Procs -> {"user", "sleep", "woken", "op", "log_write", "commit"}]
      BY <2>1, <2>5
    <3> QED
      BY <2>3, <3>1 DEF IInv, Types, Untouched, disk, cache
  <2>7. Counted'
    <3>1. Active' = Active
      BY <2>1, <2>2, <2>5 DEF Active
    <3>2. (Up' <=> Up) /\ phase' = phase
      BY <2>3 DEF Up, Untouched
    <3> QED
      BY <2>3, <3>1, <3>2 DEF IInv, Counted
  <2>8. Writing'
    <3>1. writing = {}
      BY <2>2 DEF IInv, Writing
    <3>2. PICK w : w = [proc |-> p, sector |-> s, value |-> v, i |-> Entry(s)]
      BY Zenon
    <3>3. w.proc = p /\ w.sector = s /\ w.value = v /\ w.i = Entry(s)
      BY <3>2
    <3>4. writing' = {w}
      BY <2>1, <3>1, <3>2
    <3>5. \A q \in Procs : pc'[q] = "log_write" <=> q = p
      BY <2>1, <2>2, <2>5
    <3>6. lh' = lh /\ Len(lh) \in Nat /\ NLOG \in Nat
      BY <2>3, LogAssumption DEF Untouched, IInv, Types
    <3>7. Len(lh) + 1 < NLOG
      BY <2>2, <3>6 DEF Full, n
    <3>8. Entry(s)' = Entry(s)
      BY <3>6, EntryStays
    <3> QED
      BY <3>3, <3>4, <3>5, <3>6, <3>7, <3>8 DEF Writing
  <2> QED
    BY <2>4, <2>6, <2>7, <2>8 DEF IInv
<1> QED
  BY <1>1, <1>2

\* While an operation is under way there is no commit.
LEMMA NoCommitYet ==
  ASSUME IInv, machine = "up", NEW p \in Active
  PROVE  ~committing /\ phase = "none" /\ head = <<>> /\ tail = 1 /\ dirty = Range(lh)
<1>1. Up
  BY DEF Up
<1>2. ~committing /\ phase = "none"
  BY <1>1 DEF IInv, Counted
<1>3. head = <<>> /\ tail = 1
  BY <1>2 DEF IInv, OnDisk
<1>4. dirty = Range(lh)
  BY <1>1, <1>2 DEF IInv, Pinned
<1> QED
  BY <1>2, <1>3, <1>4

\* A block recorded at the entry found is in the header, once.
LEMMA Recorded ==
  ASSUME lh \in Seq(Sectors), Distinct(lh), NEW s \in Sectors, NEW e, e = Entry(s),
         lh' = IF e = Len(lh) + 1 THEN Append(lh, s) ELSE [lh EXCEPT ![e] = s]
  PROVE  /\ lh' \in Seq(Sectors) /\ Distinct(lh')
         /\ Range(lh') = Range(lh) \cup {s}
         /\ Len(lh') \in Nat /\ Len(lh') <= Len(lh) + 1
<1>0. Len(lh) \in Nat
  OBVIOUS
<1>1. CASE s \in Range(lh) /\ e \in 1 .. Len(lh) /\ lh[e] = s
  <2>1. lh' = [lh EXCEPT ![e] = s]
    BY <1>0, <1>1
  <2>2. lh' = lh
    BY <1>1, <2>1
  <2>3. lh' \in Seq(Sectors) /\ Distinct(lh')
    BY <2>2, Zenon
  <2>4. Range(lh') = Range(lh) \cup {s}
    BY <1>1, <2>2
  <2>5. Len(lh) <= Len(lh) + 1
    BY <1>0
  <2>6. Len(lh') \in Nat /\ Len(lh') <= Len(lh) + 1
    BY <1>0, <2>2, <2>5, Zenon
  <2> QED
    BY <2>3, <2>4, <2>6, Zenon
<1>2. CASE s \notin Range(lh) /\ e = Len(lh) + 1
  <2>1. lh' = Append(lh, s)
    BY <1>2
  <2>2. lh' \in Seq(Sectors) /\ Distinct(lh') /\ Range(lh') = Range(lh) \cup {s}
    BY <1>2, <2>1, AppendToDistinct
  <2>3. Len(lh') = Len(lh) + 1
    BY <2>1, Appended
  <2> QED
    BY <1>0, <2>2, <2>3
<1> QED
  BY <1>1, <1>2, EntryFound, Zenon

\* log_write's second half: the block into the header in memory, and pinned.
LEMMA RecordKeeps ==
  ASSUME IInv, NEW p \in Procs, record(p)
  PROVE  IInv'
<1>1. PICK w \in writing :
        /\ w.proc = p
        /\ lh' = IF w.i = n + 1 THEN Append(lh, w.sector) ELSE [lh EXCEPT ![w.i] = w.sector]
        /\ buf' = [buf EXCEPT ![w.sector] = w.value]
        /\ dirty' = dirty \cup {w.sector}
        /\ writing' = writing \ {w}
  BY Zenon DEF record
<1>2. /\ machine = "up" /\ machine' = machine /\ pc[p] = "log_write"
      /\ pc' = [pc EXCEPT ![p] = "op"]
      /\ UNCHANGED <<home, logged, head, outstanding, committing, phase, tail>>
  BY DEF record, Runs, disk, counts
<1>3. PICK s \in Sectors, v \in Values : s = w.sector /\ v = w.value
  BY DEF IInv, Writing
<1>4. w.i = Entry(s) /\ Len(lh) + 1 < NLOG
  BY <1>3 DEF IInv, Writing
<1>5. /\ lh \in Seq(Sectors) /\ buf \in [Sectors -> Values] /\ dirty \in SUBSET Sectors
      /\ pc \in [Procs -> {"user", "sleep", "woken", "op", "log_write", "commit"}]
      /\ Distinct(lh) /\ NLOG \in Nat /\ Len(lh) \in Nat
  BY LogAssumption DEF IInv, Types, Headers
<1>6. /\ lh' \in Seq(Sectors) /\ Distinct(lh')
      /\ Range(lh') = Range(lh) \cup {s}
      /\ Len(lh') \in Nat /\ Len(lh') <= Len(lh) + 1
  BY <1>1, <1>3, <1>4, <1>5, Recorded, Zenon DEF n
<1>7. ~committing /\ phase = "none" /\ head = <<>> /\ tail = 1 /\ dirty = Range(lh)
  BY <1>2, NoCommitYet DEF Active
<1>8. Types'
  <2>1. pc' \in [Procs -> {"user", "sleep", "woken", "op", "log_write", "commit"}]
    BY <1>2, <1>5
  <2>2. buf' \in [Sectors -> Values] /\ dirty' \in SUBSET Sectors
    BY <1>1, <1>3, <1>5
  <2> QED
    BY <1>2, <1>6, <2>1, <2>2 DEF IInv, Types
<1>9. Headers'
  BY <1>2, <1>4, <1>5, <1>6 DEF IInv, Headers
<1>10. Counted'
  <2>1. Active' = Active
    BY <1>2, <1>5 DEF Active
  <2>2. Up' <=> Up
    BY <1>2 DEF Up
  <2> QED
    BY <1>2, <2>1, <2>2 DEF IInv, Counted
<1>11. OnDisk' /\ Copied'
  BY <1>2, <1>7 DEF OnDisk, Copied
<1>12. Coherent'
  <2>1. \A t \in Sectors \ dirty' : t \in Sectors \ dirty /\ buf'[t] = buf[t]
    BY <1>1, <1>3, <1>5
  <2> QED
    BY <1>2, <2>1 DEF IInv, Coherent
<1>13. Pinned'
  BY <1>1, <1>2, <1>3, <1>6, <1>7, Zenon DEF Pinned, Up
<1>14. Writing'
  <2>1. writing' = {}
    BY <1>1 DEF IInv, Writing
  <2>2. \A q \in Procs : pc'[q] # "log_write"
    BY <1>2, <1>5 DEF IInv, Writing
  <2> QED
    BY <2>1, <2>2 DEF Writing
<1> QED
  BY <1>8, <1>9, <1>10, <1>11, <1>12, <1>13, <1>14 DEF IInv

\* end_op: leave, and when the last one left start the commit.
LEMMA EndKeeps ==
  ASSUME IInv, NEW p \in Procs, end_op(p)
  PROVE  IInv'
<1>1. machine = "up" /\ pc[p] = "op" /\ p \in Active
  BY DEF end_op, Runs, Active
<1>2. ~committing /\ phase = "none" /\ head = <<>> /\ tail = 1 /\ dirty = Range(lh)
  BY <1>1, NoCommitYet
<1>3. /\ outstanding' = outstanding - 1
      /\ UNCHANGED <<disk, cache, lh, writing, machine>>
      /\ \/ /\ outstanding' = 0 /\ committing' = TRUE
            /\ pc' = [pc EXCEPT ![p] = "commit"]
            /\ phase' = IF n > 0 THEN "write_log" ELSE "done"
            /\ tail' = 1
         \/ /\ outstanding' # 0
            /\ pc' = [wakeup EXCEPT ![p] = "user"]
            /\ UNCHANGED <<committing, phase, tail>>
  BY <1>2 DEF end_op
<1>4. /\ pc \in [Procs -> {"user", "sleep", "woken", "op", "log_write", "commit"}]
      /\ lh \in Seq(Sectors) /\ Len(lh) \in Nat
  BY DEF IInv, Types
<1>5. /\ pc' \in [Procs -> {"user", "sleep", "woken", "op", "log_write", "commit"}]
      /\ pc'[p] \in {"user", "commit"}
      /\ \A q \in Procs \ {p} : \/ pc'[q] = pc[q]
                                \/ pc[q] = "sleep" /\ pc'[q] = "woken"
  BY <1>3, <1>4, Zenon DEF wakeup
<1>6. Types'
  BY <1>2, <1>3, <1>5, Zenon DEF IInv, Types, disk, cache
<1>7. Headers' /\ Coherent'
  BY <1>3, Zenon DEF IInv, Headers, Coherent, disk, cache
<1>8. Counted'
  <2>1. Active' = Active \ {p}
    BY <1>4, <1>5 DEF Active
  <2>2. Cardinality(Active') = Cardinality(Active) - 1
    BY <1>1, <2>1, ActiveFinite, FS_RemoveElement
  <2>3. outstanding' = Cardinality(Active')
    BY <1>3, <2>2 DEF IInv, Counted
  <2>4. IsFiniteSet(Active')
    BY <2>1, ActiveFinite, FS_Subset
  <2>5. outstanding' = 0 => Active' = {}
    BY <2>3, <2>4, FS_EmptySet, Zenon
  <2>6. Up /\ Up'
    BY <1>1, <1>3 DEF Up
  <2> QED
    BY <1>2, <1>3, <2>3, <2>5, <2>6 DEF Counted
<1>9. lh' = lh /\ dirty' = dirty /\ head' = head /\ machine' = "up"
  BY <1>1, <1>3 DEF disk, cache
<1>11. OnDisk' /\ Copied' /\ Pinned'
  <2>1. CASE phase' = "none" /\ tail' = 1
    BY <1>2, <1>9, <2>1 DEF OnDisk, Copied, Pinned, Up
  <2>2. CASE phase' = "write_log" /\ tail' = 1 /\ Len(lh) > 0
    BY <1>2, <1>4, <1>9, <2>2 DEF OnDisk, Copied, Pinned, Up
  <2>3. CASE phase' = "done" /\ tail' = 1 /\ ~(Len(lh) > 0)
    <3>1. lh = <<>>
      BY <1>4, <2>3
    <3>2. dirty = {}
      BY <1>2, <3>1 DEF Range
    <3> QED
      BY <1>2, <1>9, <2>3, <3>1, <3>2 DEF OnDisk, Copied, Pinned, Up
  <2> QED
    BY <1>2, <1>3, <2>1, <2>2, <2>3 DEF n
<1>12. Writing'
  <2>1. \A q \in Procs : pc'[q] = "log_write" <=> pc[q] = "log_write"
    BY <1>1, <1>5
  <2> QED
    BY <1>3, <1>9, <2>1, EntryStays DEF IInv, Writing
<1> QED
  BY <1>6, <1>7, <1>8, <1>11, <1>12 DEF IInv

----------------------------------------------------------------------------
(* Commit and recovery.                                                    *)

\* No operation is under way in a commit or a recovery.
LEMMA Quiet ==
  ASSUME IInv, phase # "none" \/ ~Up
  PROVE  Active = {} /\ writing = {}
<1>1. Active = {}
  BY DEF IInv, Counted
<1>2. writing = {}
  BY <1>1 DEF IInv, Writing, Active
<1> QED
  BY <1>1, <1>2

\* A step of a commit or a recovery leaves the operations alone.
LEMMA OpsStay ==
  ASSUME IInv, phase # "none" \/ ~Up, UNCHANGED <<counts, ops>>
  PROVE  /\ Active' = {} /\ outstanding' = Cardinality(Active') /\ committing' = committing
         /\ Writing'
<1>1. Active = {} /\ writing = {}
  BY Quiet
<1>2. pc' = pc /\ writing' = writing /\ outstanding' = outstanding /\ committing' = committing
  BY DEF counts, ops
<1>3. Active' = {}
  BY <1>1, <1>2 DEF Active
<1>4. outstanding' = Cardinality(Active')
  BY <1>1, <1>2, <1>3 DEF IInv, Counted
<1>5. Writing'
  BY <1>1, <1>2 DEF Writing, Active
<1> QED
  BY <1>2, <1>3, <1>4, <1>5

\* write_log copies one block of the cache to its log block.
LEMMA WriteLogKeeps ==
  ASSUME IInv, machine = "up", write_log
  PROVE  IInv'
<1>1. /\ phase = "write_log"
      /\ \/ tail < Len(lh) /\ tail' = tail + 1 /\ phase' = "write_log"
         \/ ~(tail < Len(lh)) /\ tail' = 1 /\ phase' = "write_head"
  BY DEF write_log, Loop, n
<1>2. /\ logged' = [logged EXCEPT ![tail] = buf[lh[tail]]]
      /\ home' = home /\ head' = head /\ buf' = buf /\ dirty' = dirty
      /\ lh' = lh /\ machine' = machine
      /\ UNCHANGED <<counts, ops>>
  BY DEF write_log, cache
<1>3. /\ lh \in Seq(Sectors) /\ Len(lh) \in Nat /\ buf \in [Sectors -> Values]
      /\ logged \in [LogBlocks -> Values] /\ NLOG \in Nat /\ Len(lh) < NLOG
      /\ tail \in Nat \ {0}
  BY LogAssumption DEF IInv, Types, Headers
<1>4. tail <= Len(lh) /\ head = <<>> /\ dirty = Range(lh)
  BY <1>1 DEF IInv, OnDisk, Pinned, Up
<1>5. tail \in LogBlocks /\ lh[tail] \in Sectors
  BY <1>3, <1>4 DEF LogBlocks
<1>6. \A i \in LogBlocks : logged'[i] = IF i = tail THEN buf[lh[tail]] ELSE logged[i]
  BY <1>2, <1>3
<1>7. \A i \in 1 .. Len(lh) : i <= tail => logged'[i] = buf[lh[i]]
  <2> SUFFICES ASSUME NEW i \in 1 .. Len(lh), i <= tail PROVE logged'[i] = buf[lh[i]]
    OBVIOUS
  <2>1. i \in LogBlocks
    BY <1>3 DEF LogBlocks
  <2>2. i # tail => logged[i] = buf[lh[i]]
    BY <1>1, <1>3 DEF IInv, Copied
  <2> QED
    BY <1>6, <2>1, <2>2
<1>8. Active' = {} /\ outstanding' = Cardinality(Active') /\ committing' = committing /\ Writing'
  BY <1>1, <1>2, OpsStay
<1>9. Types'
  <2>1. logged' \in [LogBlocks -> Values]
    BY <1>2, <1>3, <1>5
  <2>2. tail' \in Nat \ {0}
    BY <1>1, <1>3
  <2> QED
    BY <1>2, <2>1, <2>2 DEF IInv, Types, counts, ops
<1>10. Headers' /\ Coherent'
  BY <1>2 DEF IInv, Headers, Coherent
<1>11. Counted'
  BY <1>1, <1>2, <1>8 DEF IInv, Counted, Up
<1>12. OnDisk'
  BY <1>1, <1>2, <1>3, <1>4 DEF OnDisk, Up
<1>13. Copied'
  <2>1. \A i \in 1 .. Len(lh) : i < tail' => i <= tail
    BY <1>1, <1>3
  <2>2. phase' = "write_head" => \A i \in 1 .. Len(lh) : i <= tail
    BY <1>1, <1>3
  <2> QED
    BY <1>1, <1>2, <1>7, <2>1, <2>2 DEF Copied
<1>14. Pinned'
  BY <1>1, <1>2, <1>4 DEF IInv, Pinned, Up
<1> QED
  BY <1>8, <1>9, <1>10, <1>11, <1>12, <1>13, <1>14 DEF IInv

\* write_head puts the header on the disk: from here on the logged blocks are
\* what recovery makes of the disk.
LEMMA WriteHeadKeeps ==
  ASSUME IInv, machine = "up", write_head
  PROVE  IInv'
<1>1. /\ phase = "write_head" /\ head' = lh /\ phase' = "install_trans"
      /\ home' = home /\ logged' = logged /\ buf' = buf /\ dirty' = dirty
      /\ lh' = lh /\ tail' = tail /\ machine' = machine
      /\ UNCHANGED <<counts, ops>>
  BY DEF write_head, cache
<1>2. tail = 1 /\ 1 <= Len(lh) /\ dirty = Range(lh)
  BY <1>1 DEF IInv, OnDisk, Pinned, Up
<1>3. lh \in Seq(Sectors) /\ Len(lh) \in Nat /\ DOMAIN lh = 1 .. Len(lh)
  BY DEF IInv, Types
<1>4. Active' = {} /\ outstanding' = Cardinality(Active') /\ committing' = committing /\ Writing'
  BY <1>1, OpsStay
<1>5. Types'
  BY <1>1, <1>3 DEF IInv, Types, counts, ops
<1>6. Headers' /\ Coherent'
  BY <1>1 DEF IInv, Headers, Coherent
<1>7. Counted'
  BY <1>1, <1>4 DEF IInv, Counted, Up
<1>8. OnDisk'
  BY <1>1, <1>2 DEF OnDisk, Up
<1>9. Copied'
  BY <1>1, <1>2, <1>3 DEF IInv, Copied
<1>10. Pinned'
  <2>1. dirty = {lh[i] : i \in 1 .. Len(lh)}
    BY <1>2, <1>3 DEF Range
  <2> QED
    BY <1>1, <1>2, <2>1 DEF Pinned, Up
<1> QED
  BY <1>4, <1>5, <1>6, <1>7, <1>8, <1>9, <1>10 DEF IInv

\* install_trans copies one log block home, at a commit and at recovery.
LEMMA InstallKeeps ==
  ASSUME IInv, machine \in {"up", "boot"}, install_trans
  PROVE  IInv'
<1>1. /\ phase = "install_trans"
      /\ \/ tail < Len(lh) /\ tail' = tail + 1 /\ phase' = "install_trans"
         \/ ~(tail < Len(lh)) /\ tail' = 1 /\ phase' = "clear"
  BY DEF install_trans, Loop, n
<1>2. /\ buf' = [buf EXCEPT ![lh[tail]] = logged[tail]]
      /\ dirty' = dirty \ {lh[tail]}
      /\ home' = [home EXCEPT ![lh[tail]] = logged[tail]]
      /\ logged' = logged /\ head' = head /\ lh' = lh /\ machine' = machine
      /\ UNCHANGED <<counts, ops>>
  BY DEF install_trans
<1>3. /\ lh \in Seq(Sectors) /\ Len(lh) \in Nat /\ Distinct(lh)
      /\ buf \in [Sectors -> Values] /\ home \in [Sectors -> Values]
      /\ logged \in [LogBlocks -> Values] /\ NLOG \in Nat /\ Len(lh) < NLOG
      /\ tail \in Nat \ {0} /\ dirty \in SUBSET Sectors
  BY LogAssumption DEF IInv, Types, Headers
<1>4. tail <= Len(lh) /\ head = lh
  BY <1>1 DEF IInv, OnDisk
<1>5. PICK s \in Sectors, v \in Values : s = lh[tail] /\ v = logged[tail]
  BY <1>3, <1>4 DEF LogBlocks
<1>6. \A x \in Sectors : /\ home'[x] = (IF x = s THEN v ELSE home[x])
                         /\ buf'[x] = (IF x = s THEN v ELSE buf[x])
  BY <1>2, <1>3, <1>5
<1>7. \A i \in 1 .. Len(lh) : lh[i] \in Sectors /\ (lh[i] = s <=> i = tail)
  BY <1>3, <1>4, <1>5 DEF Distinct
<1>8. Active' = {} /\ outstanding' = Cardinality(Active') /\ committing' = committing /\ Writing'
  BY <1>1, <1>2, OpsStay
<1>9. Types'
  <2>1. home' \in [Sectors -> Values] /\ buf' \in [Sectors -> Values] /\ dirty' \in SUBSET Sectors
    BY <1>2, <1>3, <1>5
  <2>2. tail' \in Nat \ {0}
    BY <1>1, <1>3
  <2> QED
    BY <1>2, <2>1, <2>2 DEF IInv, Types, counts, ops
<1>10. Headers'
  BY <1>2 DEF IInv, Headers
<1>11. Coherent'
  BY <1>2, <1>5, <1>6 DEF IInv, Coherent
<1>12. Up' <=> Up
  BY <1>2 DEF Up
<1>13. Counted'
  BY <1>1, <1>8, <1>12 DEF IInv, Counted
<1>14. OnDisk'
  BY <1>1, <1>2, <1>3, <1>4 DEF OnDisk, Up
<1>15. Copied'
  <2>1. \A i \in 1 .. Len(lh) : i <= tail => logged[i] = home'[lh[i]]
    <3> SUFFICES ASSUME NEW i \in 1 .. Len(lh), i <= tail PROVE logged[i] = home'[lh[i]]
      OBVIOUS
    <3>1. CASE i = tail
      BY <1>5, <1>6, <1>7, <3>1
    <3>2. CASE i < tail
      BY <1>1, <1>6, <1>7, <3>2 DEF IInv, Copied
    <3> QED
      BY <1>3, <3>1, <3>2
  <2>2. Up => \A i \in 1 .. Len(lh) : logged[i] = buf'[lh[i]]
    BY <1>1, <1>5, <1>6, <1>7, Zenon DEF IInv, Copied
  <2>3. \A i \in 1 .. Len(lh) : i < tail' => i <= tail
    BY <1>1, <1>3
  <2>4. phase' = "clear" => \A i \in 1 .. Len(lh) : i <= tail
    BY <1>1, <1>3
  <2> QED
    BY <1>1, <1>2, <1>12, <2>1, <2>2, <2>3, <2>4 DEF Copied
<1>16. Pinned'
  <2>1. CASE ~Up
    BY <1>2, <1>12, <2>1 DEF IInv, Pinned
  <2>2. CASE Up
    <3>1. dirty = {lh[i] : i \in tail .. Len(lh)}
      BY <1>1, <2>2 DEF IInv, Pinned
    <3>2. dirty' = {lh[i] : i \in tail + 1 .. Len(lh)}
      <4>1. \A i \in tail .. Len(lh) : i \in 1 .. Len(lh) /\ (i # tail <=> i \in tail + 1 .. Len(lh))
        BY <1>3
      <4>2. \A i \in tail + 1 .. Len(lh) : i \in tail .. Len(lh) /\ i # tail
        BY <1>3
      <4>3. \A i \in tail .. Len(lh) : lh[i] = s <=> i = tail
        BY <1>7, <4>1
      <4>4. dirty' = dirty \ {s}
        BY <1>2, <1>5
      <4> QED
        BY <3>1, <4>1, <4>2, <4>3, <4>4
    <3>3. CASE tail < Len(lh)
      BY <1>1, <1>2, <1>3, <1>12, <2>2, <3>2, <3>3 DEF Pinned
    <3>4. CASE ~(tail < Len(lh))
      <4>1. dirty' = {}
        BY <1>3, <3>2, <3>4
      <4> QED
        BY <1>1, <1>12, <2>2, <3>4, <4>1 DEF Pinned
    <3> QED
      BY <3>3, <3>4
  <2> QED
    BY <2>1, <2>2
<1> QED
  BY <1>8, <1>9, <1>10, <1>11, <1>13, <1>14, <1>15, <1>16 DEF IInv

\* The second write_head, with n = 0, once every block is home.
LEMMA ClearKeeps ==
  ASSUME IInv, machine \in {"up", "boot"}, clear
  PROVE  IInv'
<1>1. /\ phase = "clear" /\ lh' = <<>> /\ head' = <<>> /\ machine' = "up"
      /\ phase' = IF machine = "boot" THEN "none" ELSE "done"
      /\ home' = home /\ logged' = logged /\ buf' = buf /\ dirty' = dirty /\ tail' = tail
      /\ UNCHANGED <<counts, ops>>
  BY DEF clear, cache
<1>2. dirty = {} /\ tail = 1
  BY <1>1 DEF IInv, OnDisk, Pinned
<1>3. lh' \in Seq(Sectors) /\ head' \in Seq(Sectors) /\ Len(lh') = 0 /\ Len(head') = 0
  BY <1>1
<1>4. Active' = {} /\ outstanding' = Cardinality(Active') /\ committing' = committing /\ Writing'
  BY <1>1, OpsStay
<1>5. Types'
  BY <1>1, <1>3 DEF IInv, Types, counts, ops
<1>6. Headers'
  BY <1>3, LogAssumption DEF Headers, Distinct
<1>7. Coherent'
  BY <1>1 DEF IInv, Coherent
<1>8. Counted'
  BY <1>1, <1>4 DEF IInv, Counted, Up
<1>9. OnDisk' /\ Copied'
  BY <1>1, <1>2 DEF OnDisk, Copied, Up
<1>10. Pinned'
  <2>1. Range(lh') = {}
    BY <1>1 DEF Range
  <2> QED
    BY <1>1, <1>2, <2>1 DEF Pinned, Up
<1> QED
  BY <1>4, <1>5, <1>6, <1>7, <1>8, <1>9, <1>10 DEF IInv

\* end_op's last part: the commit is over and the sleepers are woken.
LEMMA CommittedKeeps ==
  ASSUME IInv, NEW p \in Procs, committed(p)
  PROVE  IInv'
<1>1. /\ machine = "up" /\ pc[p] = "commit" /\ phase = "done" /\ phase' = "none"
      /\ committing' = FALSE /\ pc' = [wakeup EXCEPT ![p] = "user"]
      /\ home' = home /\ logged' = logged /\ head' = head /\ buf' = buf /\ dirty' = dirty
      /\ lh' = lh /\ outstanding' = outstanding /\ writing' = writing /\ tail' = tail
      /\ machine' = machine
  BY DEF committed, Runs, disk, cache
<1>2. Active = {} /\ writing = {}
  BY <1>1, Quiet
<1>3. dirty = {} /\ lh = <<>> /\ tail = 1 /\ head = <<>>
  BY <1>1 DEF IInv, OnDisk, Pinned
<1>4. pc \in [Procs -> {"user", "sleep", "woken", "op", "log_write", "commit"}]
  BY DEF IInv, Types
<1>5. /\ pc' \in [Procs -> {"user", "sleep", "woken", "op", "log_write", "commit"}]
      /\ \A q \in Procs : pc'[q] \in {"op", "log_write"} => pc[q] \in {"op", "log_write"}
  BY <1>1, <1>4 DEF wakeup
<1>6. Active' = {}
  BY <1>2, <1>5 DEF Active
<1>7. Types'
  BY <1>1, <1>5, Zenon DEF IInv, Types
<1>8. Headers' /\ Coherent'
  BY <1>1 DEF IInv, Headers, Coherent
<1>9. Counted'
  <2>1. outstanding' = Cardinality(Active')
    BY <1>1, <1>2, <1>6 DEF IInv, Counted
  <2> QED
    BY <1>1, <1>6, <2>1 DEF Counted, Up
<1>10. OnDisk' /\ Copied'
  BY <1>1, <1>3 DEF OnDisk, Copied, Up
<1>11. Pinned'
  BY <1>1, <1>3 DEF Pinned, Range, Up
<1>12. Writing'
  BY <1>1, <1>2, <1>6 DEF Writing, Active
<1> QED
  BY <1>7, <1>8, <1>9, <1>10, <1>11, <1>12 DEF IInv

\* A clean buffer holds what is on disk: reading it again changes nothing.
LEMMA RecycleChangesNothing ==
  ASSUME IInv, NEW s \in Sectors, recycle(s)
  PROVE  UNCHANGED vars
<1>1. buf' = [buf EXCEPT ![s] = home[s]] /\ s \notin dirty
  BY DEF recycle
<1>2. buf[s] = home[s] /\ buf \in [Sectors -> Values]
  BY <1>1 DEF IInv, Coherent, Types
<1>3. buf' = buf
  BY <1>1, <1>2
<1> QED
  BY <1>3 DEF recycle, vars, cache

\* The invariant depends on the variables only.
LEMMA StutterKeeps == IInv /\ UNCHANGED vars => IInv'
<1> SUFFICES ASSUME IInv, UNCHANGED vars PROVE IInv'
  OBVIOUS
<1>1. Untouched /\ machine' = machine /\ lh' = lh
      /\ UNCHANGED <<home, logged, head, buf, dirty, phase, tail, pc, writing, outstanding, committing>>
  BY DEF vars, Untouched, disk, cache, ops, counts
<1>2. Headers' /\ OnDisk' /\ Copied' /\ Coherent' /\ Pinned'
  BY <1>1, UntouchedKeeps
<1>3. Types'
  BY <1>1 DEF IInv, Types
<1>4. Counted'
  BY <1>1 DEF IInv, Counted, Active, Up
<1>5. Writing'
  BY <1>1, EntryStays DEF IInv, Writing
<1> QED
  BY <1>2, <1>3, <1>4, <1>5 DEF IInv

\* A crash keeps the disk and loses the rest.
LEMMA CrashKeeps == IInv /\ crash => IInv'
<1> SUFFICES ASSUME IInv, crash PROVE IInv'
  OBVIOUS
<1>1. /\ machine' = "off" /\ buf' = home /\ dirty' = {} /\ lh' = <<>>
      /\ outstanding' = 0 /\ ~committing' /\ committing' \in BOOLEAN
      /\ pc' = [p \in Procs |-> "user"] /\ writing' = {}
      /\ phase' = "none" /\ tail' = 1
      /\ home' = home /\ logged' = logged /\ head' = head
  BY Zenon DEF crash, disk
<1>2. lh' \in Seq(Sectors) /\ Len(lh') = 0
  BY <1>1
<1>3. Types'
  BY <1>1, <1>2 DEF IInv, Types
<1>4. Headers'
  BY <1>1, <1>2, LogAssumption DEF IInv, Headers, Distinct
<1>5. Counted'
  <2>1. Active' = {}
    BY <1>1 DEF Active
  <2>2. Cardinality(Active') = 0
    BY <2>1, FS_EmptySet
  <2> QED
    BY <1>1, <2>1, <2>2 DEF Counted, Up
<1>6. OnDisk' /\ Copied' /\ Pinned'
  BY <1>1 DEF OnDisk, Copied, Pinned, Up
<1>7. Coherent'
  BY <1>1 DEF Coherent
<1>8. Writing'
  BY <1>1 DEF Writing
<1> QED
  BY <1>3, <1>4, <1>5, <1>6, <1>7, <1>8 DEF IInv

\* initlog reads the header back and starts the recovery.
LEMMA InitlogKeeps == IInv /\ initlog => IInv'
<1> SUFFICES ASSUME IInv, initlog PROVE IInv'
  OBVIOUS
<1>1. /\ machine = "off" /\ machine' = "boot" /\ lh' = head
      /\ phase' = IF head = <<>> THEN "clear" ELSE "install_trans"
      /\ home' = home /\ logged' = logged /\ head' = head /\ buf' = buf /\ dirty' = dirty
      /\ tail' = tail /\ UNCHANGED <<counts, ops>>
  BY DEF initlog, disk, cache
<1>2. ~Up /\ ~Up' /\ dirty = {} /\ tail = 1
  BY <1>1 DEF Up, IInv, Pinned, OnDisk
<1>3. head \in Seq(Sectors) /\ Len(head) \in Nat
  BY DEF IInv, Types
<1>4. Active' = {} /\ outstanding' = Cardinality(Active') /\ committing' = committing /\ Writing'
  BY <1>1, <1>2, OpsStay
<1>5. Types'
  BY <1>1, <1>3 DEF IInv, Types, counts, ops
<1>6. Headers' /\ Coherent'
  BY <1>1 DEF IInv, Headers, Coherent, Distinct
<1>7. Counted'
  BY <1>2, <1>4 DEF IInv, Counted
<1>8. head # <<>> => 1 <= Len(head)
  BY <1>3
<1>9. head = <<>> => Len(head) = 0
  OBVIOUS
<1>10. OnDisk'
  BY <1>1, <1>2, <1>8 DEF OnDisk
<1>11. Copied'
  BY <1>1, <1>2, <1>3, <1>9 DEF Copied
<1>12. Pinned'
  BY <1>1, <1>2 DEF Pinned
<1> QED
  BY <1>4, <1>5, <1>6, <1>7, <1>10, <1>11, <1>12 DEF IInv

\* Every step keeps the invariant when log_write is not interleaved.
LEMMA NextKeeps ==
  ASSUME Preemptible = FALSE
  PROVE  IInv /\ [Next]_vars => IInv'
<1> SUFFICES ASSUME IInv, [Next]_vars PROVE IInv'
  OBVIOUS
<1>1. ASSUME NEW p \in Procs, commit(p) PROVE IInv'
  BY <1>1, WriteLogKeeps, WriteHeadKeeps, InstallKeeps, ClearKeeps DEF commit, Runs
<1>2. ASSUME NEW p \in Procs, Step(p) PROVE IInv'
  BY <1>1, <1>2, BeginKeeps, LogWriteKeeps, RecordKeeps, EndKeeps, CommittedKeeps, Zenon DEF Step
<1>3. ASSUME NEW s \in Sectors, recycle(s) PROVE IInv'
  BY <1>3, RecycleChangesNothing, StutterKeeps
<1>4. CASE recover_from_log
  BY <1>4, InstallKeeps, ClearKeeps DEF recover_from_log
<1> QED
  BY <1>2, <1>3, <1>4, CrashKeeps, InitlogKeeps, StutterKeeps DEF Next

\* The invariant of the log, where log_write is not preempted.
THEOREM Invariant ==
  ASSUME Preemptible = FALSE
  PROVE  Spec => []IInv
BY InitIInv, NextKeeps, PTL DEF Spec

\* PinnedIsLogged breaks only by preemption in log_write: without it, outside a
\* commit the header lists the pinned blocks, each once, for every number of
\* processes and every size of the log.
THEOREM PinnedAreLogged ==
  ASSUME Preemptible = FALSE
  PROVE  Spec => []PinnedIsLogged
<1>1. IInv => PinnedIsLogged
  <2> SUFFICES ASSUME IInv, machine = "up", ~committing
               PROVE  dirty = Range(lh) /\ Cardinality(Range(lh)) = n
    BY DEF PinnedIsLogged
  <2>1. Up /\ phase = "none"
    BY DEF IInv, Counted, Up
  <2>2. dirty = Range(lh)
    BY <2>1 DEF IInv, Pinned
  <2>3. Cardinality(Range(lh)) = Len(lh)
    <3>1. lh \in Seq(Sectors) /\ Distinct(lh) /\ Len(lh) \in Nat /\ DOMAIN lh = 1 .. Len(lh)
      BY DEF IInv, Types, Headers
    <3>2. lh \in Bijection(1 .. Len(lh), Range(lh))
      BY <3>1 DEF Bijection, Injection, Surjection, IsInjective, Range, Distinct
    <3>3. ExistsBijection(1 .. Len(lh), Range(lh))
      BY <3>2 DEF ExistsBijection
    <3> QED
      BY <3>1, <3>3, FS_CountingElements
  <2> QED
    BY <2>2, <2>3 DEF n
<1> QED
  BY <1>1, Invariant, PTL

----------------------------------------------------------------------------
(* A sleeper of begin_op has somebody to wake it.                          *)

\* A commit is somebody's, and a log that no operation and no commit uses is
\* empty: begin_op finds room in it.
Committer == committing => \E q \in Procs : pc[q] = "commit"

Rested == Up /\ Active = {} /\ ~committing => lh = <<>>

WInv == Committer /\ Rested /\ SleeperHasOp

\* begin_op sleeps only when somebody is in an operation or a commit.
LEMMA BeginHasWaker ==
  ASSUME IInv, WInv, NEW p \in Procs, begin_op(p)
  PROVE  WInv'
<1>1. /\ machine = "up" /\ pc[p] \in {"user", "woken"}
      /\ lh' = lh /\ machine' = machine /\ committing' = committing
  BY DEF begin_op, Runs
<1>2. pc \in [Procs -> {"user", "sleep", "woken", "op", "log_write", "commit"}]
  BY DEF IInv, Types
<1>3. /\ pc' \in [Procs -> {"user", "sleep", "woken", "op", "log_write", "commit"}]
      /\ pc'[p] \in {"sleep", "op"}
      /\ \A q \in Procs \ {p} : pc'[q] = pc[q]
  BY <1>2 DEF begin_op
<1>4. Committer'
  BY <1>1, <1>3 DEF WInv, Committer
<1>5. Active \subseteq Active'
  BY <1>1, <1>3 DEF Active
<1>6. Rested'
  BY <1>1, <1>5 DEF WInv, Rested, Up
<1>7. CASE pc'[p] = "op"
  BY <1>4, <1>6, <1>7 DEF WInv, SleeperHasOp
<1>8. CASE pc'[p] = "sleep"
  <2>1. committing \/ n + (outstanding + 1) * MAXOPBLOCKS > LOGSIZE
    BY <1>2, <1>8 DEF begin_op
  <2>2. CASE committing
    BY <1>1, <1>3, <1>4, <1>6, <2>2 DEF WInv, Committer, SleeperHasOp
  <2>3. CASE ~committing /\ Active = {}
    <3>1. lh = <<>> /\ outstanding = 0
      BY <1>1, <2>3, FS_EmptySet DEF WInv, Rested, Up, IInv, Counted
    <3>2. n = 0
      BY <3>1 DEF n
    <3> QED
      BY <2>1, <2>3, <3>1, <3>2, LogAssumption
  <2>4. CASE Active # {}
    BY <1>1, <1>3, <1>4, <1>6, <2>4 DEF Active, WInv, SleeperHasOp
  <2> QED
    BY <2>2, <2>3, <2>4
<1> QED
  BY <1>3, <1>7, <1>8

\* An operation that goes on stays one, and the rest of the table stays.
LEMMA OpHasWaker ==
  ASSUME IInv, WInv, NEW p \in Procs, log_write(p) \/ record(p)
  PROVE  WInv'
<1>1. pc \in [Procs -> {"user", "sleep", "woken", "op", "log_write", "commit"}]
  BY DEF IInv, Types
<1>2. /\ pc[p] \in {"op", "log_write"} /\ pc'[p] \in {"op", "log_write"}
      /\ \A q \in Procs \ {p} : pc'[q] = pc[q]
      /\ committing' = committing
  <2>1. CASE log_write(p)
    BY <1>1, <2>1 DEF log_write, panic, ops, counts
  <2>2. CASE record(p)
    BY <1>1, <2>2 DEF record, counts
  <2> QED
    BY <2>1, <2>2
<1>3. Committer' /\ SleeperHasOp'
  BY <1>2 DEF WInv, Committer, SleeperHasOp
<1>4. Rested'
  BY <1>2 DEF Rested, Active
<1> QED
  BY <1>3, <1>4 DEF WInv

\* end_op becomes the commit, or wakes everybody and leaves others under way.
LEMMA EndHasWaker ==
  ASSUME IInv, WInv, NEW p \in Procs, end_op(p)
  PROVE  WInv'
<1>1. machine = "up" /\ pc[p] = "op" /\ p \in Active /\ ~committing
  BY NoCommitYet DEF end_op, Runs, Active
<1>2. pc \in [Procs -> {"user", "sleep", "woken", "op", "log_write", "commit"}]
  BY DEF IInv, Types
<1>3. IInv'
  BY EndKeeps
<1>4. CASE pc' = [pc EXCEPT ![p] = "commit"] /\ committing' = TRUE
  <2>1. pc'[p] = "commit"
    BY <1>2, <1>4
  <2> QED
    BY <1>4, <2>1 DEF WInv, Committer, Rested, SleeperHasOp
<1>5. CASE outstanding' # 0 /\ pc' = [wakeup EXCEPT ![p] = "user"] /\ committing' = committing
  <2>1. \A q \in Procs : pc'[q] # "sleep"
    BY <1>2, <1>5 DEF wakeup
  <2>2. Active' # {}
    BY <1>3, <1>5, FS_EmptySet DEF IInv, Counted
  <2> QED
    BY <1>1, <1>5, <2>1, <2>2 DEF WInv, Committer, Rested, SleeperHasOp
<1> QED
  BY <1>1, <1>4, <1>5 DEF end_op

\* In a commit or a recovery the table stays; clear empties the header.
LEMMA CommitHasWaker ==
  ASSUME IInv, WInv, machine \in {"up", "boot"},
         write_log \/ write_head \/ install_trans \/ clear
  PROVE  WInv'
<1>1. pc' = pc /\ committing' = committing /\ phase # "none"
  BY DEF write_log, write_head, install_trans, clear, Loop, counts, ops
<1>2. Committer' /\ SleeperHasOp'
  BY <1>1 DEF WInv, Committer, SleeperHasOp
<1>3. CASE clear
  BY <1>2, <1>3 DEF WInv, Rested, clear
<1>4. CASE write_log \/ write_head \/ install_trans
  <2>1. machine' = machine
    BY <1>4 DEF write_log, write_head, install_trans
  <2>2. Up => committing
    BY <1>1 DEF IInv, Counted
  <2> QED
    BY <1>1, <1>2, <2>1, <2>2 DEF WInv, Rested, Up
<1> QED
  BY <1>3, <1>4

\* The end of a commit wakes everybody and leaves an empty log.
LEMMA CommittedHasWaker ==
  ASSUME IInv, WInv, NEW p \in Procs, committed(p)
  PROVE  WInv'
<1>1. pc \in [Procs -> {"user", "sleep", "woken", "op", "log_write", "commit"}]
  BY DEF IInv, Types
<1>2. phase = "done" /\ committing' = FALSE /\ lh' = lh /\ pc' = [wakeup EXCEPT ![p] = "user"]
  BY DEF committed
<1>3. \A q \in Procs : pc'[q] # "sleep"
  BY <1>1, <1>2 DEF wakeup
<1>4. lh = <<>>
  BY <1>2 DEF IInv, OnDisk
<1> QED
  BY <1>2, <1>3, <1>4 DEF WInv, Committer, Rested, SleeperHasOp

\* A machine that stops or starts has no sleepers and no commit.
LEMMA BootHasWaker ==
  ASSUME IInv, WInv, crash \/ initlog
  PROVE  WInv'
<1>1. CASE crash
  <2>1. machine' = "off" /\ ~committing' /\ \A q \in Procs : pc'[q] = "user"
    BY <1>1 DEF crash
  <2> QED
    BY <2>1 DEF WInv, Committer, Rested, SleeperHasOp, Up
<1>2. CASE initlog
  <2>1. machine' = "boot" /\ pc' = pc /\ committing' = committing
    BY <1>2 DEF initlog, ops, counts
  <2> QED
    BY <2>1 DEF WInv, Committer, Rested, SleeperHasOp, Up
<1> QED
  BY <1>1, <1>2

\* A step that changes nothing keeps it.
LEMMA StutterHasWaker == WInv /\ UNCHANGED vars => WInv'
BY DEF vars, WInv, Committer, Rested, SleeperHasOp, Active, Up, counts, ops

\* SleeperHasOp, for every number of processes and every size of the log that
\* has room for one operation: whoever sleeps in begin_op (log.c:126-141), another
\* process is in an operation or a commit, at whose end it wakes the sleepers.
THEOREM SleepersHaveWaker ==
  ASSUME Preemptible = FALSE
  PROVE  Spec => []SleeperHasOp
<1>1. Init => WInv
  BY DEF Init, WInv, Committer, Rested, SleeperHasOp, Up
<1>2. IInv /\ WInv /\ [Next]_vars => WInv'
  <2> SUFFICES ASSUME IInv, WInv, [Next]_vars PROVE WInv'
    OBVIOUS
  <2>1. ASSUME NEW p \in Procs, Step(p) PROVE WInv'
    <3>1. CASE commit(p)
      BY <3>1, CommitHasWaker DEF commit, Runs
    <3> QED
      BY <2>1, <3>1, BeginHasWaker, OpHasWaker, EndHasWaker, CommittedHasWaker, Zenon DEF Step
  <2>2. ASSUME NEW s \in Sectors, recycle(s) PROVE WInv'
    BY <2>2, RecycleChangesNothing, StutterHasWaker
  <2>3. CASE recover_from_log
    BY <2>3, CommitHasWaker DEF recover_from_log
  <2> QED
    BY <2>1, <2>2, <2>3, BootHasWaker, StutterHasWaker DEF Next
<1>3. WInv => SleeperHasOp
  BY DEF WInv
<1> QED
  BY <1>1, <1>2, <1>3, Invariant, PTL DEF Spec

----------------------------------------------------------------------------
(* Every step of the log is a step of the store, or none.                  *)

\* What the file system calls see.
Mem == IF Up THEN buf ELSE Recovered

\* What recovery makes of each block of the disk.
RecoveredAs ==
  /\ \A i \in 1 .. Len(head) : Recovered[head[i]] = logged[i]
  /\ \A s \in Sectors \ Range(head) : Recovered[s] = home[s]

\* The invariant lists each sector once in the header on the disk.
LEMMA RecoveredInv == IInv => RecoveredAs
BY RecoveredIs DEF RecoveredAs, IInv, Types, Headers

\* The same for the state after a step.
LEMMA RecoveredInvNext == IInv' => RecoveredAs'
BY RecoveredInv, PTL

\* Two contents of the disk that agree on every block are the same.
LEMMA RecoveredDomain == Recovered = [s \in Sectors |-> Recovered[s]]
BY DEF Recovered

\* The same for the state after a step.
LEMMA RecoveredDomainNext == Recovered' = [s \in Sectors |-> Recovered'[s]]
BY DEF Recovered

\* Recovery depends on the disk only.
LEMMA RecoveredStays ==
  ASSUME home' = home, logged' = logged, head' = head
  PROVE  Recovered' = Recovered
BY DEF Recovered

\* With an empty header recovery leaves the disk as it is.
EmptyHeader == head = <<>> => Recovered = home

\* recover_from_log with n = 0 installs nothing.
LEMMA NothingToRecover == IInv => EmptyHeader
<1> SUFFICES ASSUME IInv, head = <<>> PROVE Recovered = home
  BY DEF EmptyHeader
<1>1. Range(head) = {}
  BY DEF Range
<1>2. \A s \in Sectors : Recovered[s] = home[s]
  BY <1>1, RecoveredInv DEF RecoveredAs
<1>3. home = [s \in Sectors |-> home[s]]
  BY DEF IInv, Types
<1> QED
  BY <1>2, <1>3, RecoveredDomain

\* The same for the state after a step.
LEMMA NothingToRecoverNext == IInv' => EmptyHeader'
BY NothingToRecover, PTL

\* The steps of AtomicStore in terms of the log.
LEMMA StoreStutters ==
  ASSUME Mem' = Mem, Recovered' = Recovered, Active' = Active
  PROVE  UNCHANGED Store!vars
BY DEF Store!vars, Mem, Up, Active

\* A step that only adds p to the operations is the store's Begin.
LEMMA StoreBegins ==
  ASSUME NEW p \in Procs, p \notin Active, Active' = Active \cup {p},
         Mem' = Mem, Recovered' = Recovered
  PROVE  Store!Next
BY DEF Store!Next, Store!Begin, Mem, Up, Active

\* A step that only writes one block in memory is the store's Write.
LEMMA StoreWrites ==
  ASSUME NEW p \in Procs, p \in Active, Active' = Active,
         NEW s \in Sectors, NEW v \in Values, Mem' = [Mem EXCEPT ![s] = v],
         Recovered' = Recovered
  PROVE  Store!Next
BY DEF Store!Next, Store!Write, Mem, Up, Active

\* A step that only takes p out of the operations is the store's End.
LEMMA StoreEnds ==
  ASSUME NEW p \in Procs, p \in Active, Active' = Active \ {p},
         Mem' = Mem, Recovered' = Recovered
  PROVE  Store!Next
BY DEF Store!Next, Store!End, Mem, Up, Active

\* A step that makes memory durable, with no operation open, is the store's Sync.
LEMMA StoreSyncs ==
  ASSUME Active = {}, Active' = {}, Mem' = Mem, Recovered' = Mem
  PROVE  Store!Next
BY DEF Store!Next, Store!Sync, Mem, Up, Active

\* A step that forgets memory and the operations is the store's Crash.
LEMMA StoreCrashes ==
  ASSUME Active' = {}, Mem' = Recovered, Recovered' = Recovered
  PROVE  Store!Next
BY DEF Store!Next, Store!Crash, Mem, Up, Active

\* The steps of an operation leave the disk alone.
LEMMA OperationMaps ==
  ASSUME IInv, NEW p \in Procs,
         begin_op(p) \/ log_write(p) \/ record(p) \/ end_op(p) \/ committed(p)
  PROVE  [Store!Next]_(Store!vars)
<1>1. machine = "up" /\ Up /\ Up' /\ UNCHANGED disk
  BY DEF begin_op, log_write, record, end_op, committed, panic, Runs, Up
<1>2. Recovered' = Recovered
  BY <1>1, RecoveredStays DEF disk
<1>3. Mem = buf /\ Mem' = buf'
  BY <1>1 DEF Mem
<1>4. pc \in [Procs -> {"user", "sleep", "woken", "op", "log_write", "commit"}]
  BY DEF IInv, Types
<1>5. CASE panic
  <2>1. Mem' = Mem /\ Active' = Active
    BY <1>3, <1>5 DEF panic, cache, ops, Active
  <2> QED
    BY <1>2, <2>1, StoreStutters
<1>6. CASE begin_op(p)
  <2>1. Mem' = Mem
    BY <1>3, <1>6 DEF begin_op, cache
  <2>2. p \notin Active
    BY <1>6 DEF begin_op, Active
  <2>3. CASE pc' = [pc EXCEPT ![p] = "sleep"]
    <3>1. Active' = Active
      BY <1>4, <2>2, <2>3 DEF Active
    <3> QED
      BY <1>2, <2>1, <3>1, StoreStutters
  <2>4. CASE pc' = [pc EXCEPT ![p] = "op"]
    <3>1. Active' = Active \cup {p}
      BY <1>4, <2>4 DEF Active
    <3> QED
      BY <1>2, <2>1, <2>2, <3>1, StoreBegins
  <2> QED
    BY <1>6, <2>3, <2>4 DEF begin_op
<1>7. CASE log_write(p) /\ ~panic
  <2>1. pc' = [pc EXCEPT ![p] = "log_write"] /\ pc[p] = "op" /\ buf' = buf
    BY <1>7, Zenon DEF log_write, cache
  <2>2. Active' = Active
    BY <1>4, <2>1 DEF Active
  <2> QED
    BY <1>2, <1>3, <2>1, <2>2, StoreStutters
<1>8. CASE record(p)
  <2>1. pc' = [pc EXCEPT ![p] = "op"] /\ pc[p] = "log_write"
    BY <1>8 DEF record
  <2>2. PICK w \in writing : buf' = [buf EXCEPT ![w.sector] = w.value]
    BY <1>8, Zenon DEF record
  <2>3. w.sector \in Sectors /\ w.value \in Values
    BY DEF IInv, Writing
  <2>4. p \in Active /\ Active' = Active
    BY <1>4, <2>1 DEF Active
  <2> QED
    BY <1>2, <1>3, <2>2, <2>3, <2>4, StoreWrites, Zenon
<1>9. CASE end_op(p) /\ ~panic
  <2>1. /\ pc[p] = "op" /\ buf' = buf
        /\ pc' = [pc EXCEPT ![p] = "commit"] \/ pc' = [wakeup EXCEPT ![p] = "user"]
    BY <1>9 DEF end_op, cache
  <2>2. p \in Active /\ Active' = Active \ {p}
    BY <1>4, <2>1, Zenon DEF Active, wakeup
  <2> QED
    BY <1>2, <1>3, <2>1, <2>2, StoreEnds
<1>10. CASE committed(p)
  <2>1. pc[p] = "commit" /\ buf' = buf /\ pc' = [wakeup EXCEPT ![p] = "user"]
    BY <1>10 DEF committed, cache
  <2>2. Active' = Active
    BY <1>4, <2>1 DEF Active, wakeup
  <2> QED
    BY <1>2, <1>3, <2>1, <2>2, StoreStutters
<1> QED
  BY <1>5, <1>6, <1>7, <1>8, <1>9, <1>10

\* write_log fills the log while the header on disk is empty.
LEMMA WriteLogMaps ==
  ASSUME IInv, IInv', machine = "up", write_log
  PROVE  UNCHANGED Store!vars
<1>1. /\ phase = "write_log" /\ home' = home /\ head' = head /\ buf' = buf /\ pc' = pc
      /\ machine' = machine
  BY DEF write_log, Loop, cache, ops
<1>2. head = <<>>
  BY <1>1 DEF IInv, OnDisk
<1>3. Recovered' = Recovered
  BY <1>1, <1>2, NothingToRecover, NothingToRecoverNext DEF EmptyHeader
<1>4. Mem' = Mem /\ Active' = Active
  BY <1>1, <1>3 DEF Mem, Up, Active
<1> QED
  BY <1>3, <1>4, StoreStutters

\* write_head is the moment of the commit: from here on recovery restores what
\* is in the cache.
LEMMA WriteHeadMaps ==
  ASSUME IInv, IInv', machine = "up", write_head
  PROVE  Store!Next
<1>1. /\ phase = "write_head" /\ head' = lh /\ home' = home /\ logged' = logged
      /\ buf' = buf /\ pc' = pc /\ machine' = machine
  BY DEF write_head, cache, ops
<1>2. Active = {} /\ Active' = {}
  BY <1>1, Quiet DEF Active
<1>3. lh \in Seq(Sectors) /\ DOMAIN lh = 1 .. Len(lh) /\ buf = [s \in Sectors |-> buf[s]]
  BY DEF IInv, Types
<1>4. ASSUME NEW s \in Sectors PROVE Recovered'[s] = buf[s]
  <2>1. CASE s \in Range(lh)
    <3>1. PICK i \in 1 .. Len(lh) : lh[i] = s
      BY <1>3, <2>1 DEF Range
    <3>2. Recovered'[s] = logged[i]
      BY <1>1, <3>1, RecoveredInvNext DEF RecoveredAs
    <3>3. logged[i] = buf[s]
      BY <1>1, <3>1 DEF IInv, Copied
    <3> QED
      BY <3>2, <3>3
  <2>2. CASE s \notin Range(lh)
    <3>1. Recovered'[s] = home[s]
      BY <1>1, <2>2, RecoveredInvNext DEF RecoveredAs
    <3>2. s \notin dirty
      BY <1>1, <2>2 DEF IInv, Pinned, Up
    <3> QED
      BY <3>1, <3>2 DEF IInv, Coherent
  <2> QED
    BY <2>1, <2>2
<1>5. Recovered' = buf
  BY <1>3, <1>4, RecoveredDomainNext
<1>6. Mem = buf /\ Mem' = buf
  BY <1>1 DEF Mem, Up
<1> QED
  BY <1>2, <1>5, <1>6, StoreSyncs

\* install_trans copies to their places blocks that the header lists.
LEMMA InstallMaps ==
  ASSUME IInv, IInv', machine \in {"up", "boot"}, install_trans
  PROVE  UNCHANGED Store!vars
<1>1. /\ phase = "install_trans" /\ head' = head /\ logged' = logged /\ pc' = pc
      /\ home' = [home EXCEPT ![lh[tail]] = logged[tail]]
      /\ buf' = [buf EXCEPT ![lh[tail]] = logged[tail]]
      /\ machine' = machine
  BY DEF install_trans, Loop, ops
<1>2. head = lh /\ tail <= Len(lh) /\ tail \in Nat \ {0} /\ Len(lh) \in Nat
  BY <1>1 DEF IInv, OnDisk, Types
<1>3. /\ lh \in Seq(Sectors) /\ DOMAIN lh = 1 .. Len(lh) /\ tail \in 1 .. Len(lh)
      /\ buf \in [Sectors -> Values] /\ home \in [Sectors -> Values]
  BY <1>2 DEF IInv, Types
<1>4. ASSUME NEW s \in Sectors PROVE Recovered'[s] = Recovered[s]
  <2>1. CASE s \in Range(lh)
    <3>1. PICK i \in 1 .. Len(lh) : lh[i] = s
      BY <1>3, <2>1 DEF Range
    <3> QED
      BY <1>1, <1>2, <3>1, RecoveredInv, RecoveredInvNext DEF RecoveredAs
  <2>2. CASE s \notin Range(lh)
    <3>1. Recovered'[s] = home'[s] /\ Recovered[s] = home[s]
      BY <1>1, <1>2, <2>2, RecoveredInv, RecoveredInvNext DEF RecoveredAs
    <3>2. s # lh[tail]
      BY <1>3, <2>2 DEF Range
    <3> QED
      BY <1>1, <1>3, <3>1, <3>2
  <2> QED
    BY <2>1, <2>2
<1>5. Recovered' = Recovered
  BY <1>4, RecoveredDomain, RecoveredDomainNext
<1>6. Active' = Active
  BY <1>1 DEF Active
<1>7. Mem' = Mem
  <2>1. CASE Up
    <3>1. logged[tail] = buf[lh[tail]]
      BY <1>1, <1>3, <2>1 DEF IInv, Copied
    <3>2. buf' = buf
      BY <1>1, <1>3, <3>1
    <3> QED
      BY <1>1, <2>1, <3>2 DEF Mem, Up
  <2>2. CASE ~Up
    BY <1>1, <1>5, <2>2 DEF Mem, Up
  <2> QED
    BY <2>1, <2>2
<1> QED
  BY <1>5, <1>6, <1>7, StoreStutters

\* When everything is installed the header is no longer needed.
LEMMA ClearMaps ==
  ASSUME IInv, IInv', machine \in {"up", "boot"}, clear
  PROVE  UNCHANGED Store!vars
<1>1. /\ phase = "clear" /\ head' = <<>> /\ home' = home /\ buf' = buf /\ pc' = pc
      /\ machine' = "up"
  BY DEF clear, cache, ops
<1>2. head = lh /\ dirty = {}
  BY <1>1 DEF IInv, OnDisk, Pinned
<1>3. /\ lh \in Seq(Sectors) /\ DOMAIN lh = 1 .. Len(lh)
      /\ home = [s \in Sectors |-> home[s]] /\ buf = [s \in Sectors |-> buf[s]]
  BY DEF IInv, Types
<1>4. ASSUME NEW s \in Sectors PROVE Recovered[s] = home[s]
  <2>1. CASE s \in Range(lh)
    <3>1. PICK i \in 1 .. Len(lh) : lh[i] = s
      BY <1>3, <2>1 DEF Range
    <3>2. Recovered[s] = logged[i]
      BY <1>2, <3>1, RecoveredInv DEF RecoveredAs
    <3>3. logged[i] = home[s]
      BY <1>1, <3>1 DEF IInv, Copied
    <3> QED
      BY <3>2, <3>3
  <2>2. CASE s \notin Range(lh)
    BY <1>2, <2>2, RecoveredInv DEF RecoveredAs
  <2> QED
    BY <2>1, <2>2
<1>5. Recovered = home
  BY <1>3, <1>4, RecoveredDomain
<1>6. Recovered' = home
  BY <1>1, NothingToRecoverNext DEF EmptyHeader
<1>7. buf = home
  BY <1>2, <1>3 DEF IInv, Coherent
<1>8. Active' = Active /\ Mem' = Mem
  BY <1>1, <1>5, <1>7 DEF Active, Mem, Up
<1> QED
  BY <1>5, <1>6, <1>8, StoreStutters

\* Every step of the log, a crash and the recovery included, is a step of the
\* store or none.
LEMMA NextMaps ==
  IInv /\ IInv' /\ [Next]_vars => [Store!Next]_(Store!vars)
<1> SUFFICES ASSUME IInv, IInv', [Next]_vars PROVE [Store!Next]_(Store!vars)
  OBVIOUS
<1>1. ASSUME NEW p \in Procs, commit(p) PROVE [Store!Next]_(Store!vars)
  BY <1>1, WriteLogMaps, WriteHeadMaps, InstallMaps, ClearMaps DEF commit, Runs
<1>2. ASSUME NEW p \in Procs, Step(p) PROVE [Store!Next]_(Store!vars)
  BY <1>1, <1>2, OperationMaps DEF Step
<1>3. CASE UNCHANGED vars
  <2>1. Recovered' = Recovered
    BY <1>3, RecoveredStays DEF vars, disk
  <2>2. Mem' = Mem /\ Active' = Active
    BY <1>3, <2>1 DEF vars, cache, ops, Mem, Up, Active
  <2> QED
    BY <2>1, <2>2, StoreStutters
<1>4. ASSUME NEW s \in Sectors, recycle(s) PROVE [Store!Next]_(Store!vars)
  BY <1>3, <1>4, RecycleChangesNothing
<1>5. CASE recover_from_log
  BY <1>5, InstallMaps, ClearMaps DEF recover_from_log
<1>6. CASE crash
  <2>1. Recovered' = Recovered
    BY <1>6, RecoveredStays DEF crash, disk
  <2>2. Mem' = Recovered /\ Active' = {}
    BY <1>6, <2>1 DEF crash, Mem, Up, Active
  <2> QED
    BY <2>1, <2>2, StoreCrashes
<1>7. CASE initlog
  <2>1. Recovered' = Recovered
    BY <1>7, RecoveredStays DEF initlog, disk
  <2>2. Mem' = Mem /\ Active' = Active
    BY <1>7, <2>1 DEF initlog, ops, Mem, Up, Active
  <2> QED
    BY <2>1, <2>2, StoreStutters
<1> QED
  BY <1>2, <1>3, <1>4, <1>5, <1>6, <1>7 DEF Next

\* At boot the cache, the disk and what recovery would make of it are the same.
LEMMA InitMaps == Init => Store!Init
<1> SUFFICES ASSUME Init PROVE Store!Init
  OBVIOUS
<1>1. Recovered = home /\ home \in [Sectors -> Values]
  BY InitIInv, NothingToRecover DEF Init, EmptyHeader, IInv, Types
<1>2. machine = "off" /\ pc = [p \in Procs |-> "user"]
  BY DEF Init
<1> QED
  BY <1>1, <1>2 DEF Store!Init

\* A crash at any point keeps all or none of the writes of the operations that
\* committed together (AllOrNothing), for every number of processes, blocks and
\* values and every size of the log, if log_write is not preempted.
THEOREM LogIsAtomic ==
  ASSUME Preemptible = FALSE
  PROVE  Spec => AllOrNothing
BY InitMaps, NextMaps, Invariant, PTL DEF Spec, AllOrNothing, Store!Spec
============================================================================
