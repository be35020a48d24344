------------------------- MODULE WindowQueueProofs -------------------------
(***************************************************************************)
(* The window list is well formed for every table size and every set of    *)
(* processes.  Reachability is handled without induction: what a walk      *)
(* visits is the least closed set, so a set is shown to be visited by      *)
(* turning any set closed under the new links into one closed under the    *)
(* old.                                                                    *)
(***************************************************************************)
EXTENDS WindowQueue, FiniteSetsExt, Lists, FiniteSetTheorems, WellFoundedInduction, TLAPS

----------------------------------------------------------------------------
(* Facts about sets of numbers and about lists.                            *)

\* A non-empty set of naturals has a least element.
LEMMA MinOfNats ==
  ASSUME NEW S \in SUBSET Nat, S # {}
  PROVE  Min(S) \in S /\ \A y \in S : Min(S) <= y
<1> DEFINE R == {ss \in Nat \X Nat : ss[1] < ss[2]}
<1>1. IsWellFoundedOn(R, Nat)
  BY NatLessThanWellFounded DEF OpToRel
<1>2. PICK x \in S : \A y \in S : ~(<<y, x>> \in R)
  BY <1>1, WFMin, Zenon
<1>3. ASSUME NEW y \in S PROVE x <= y
  <2>1. ~(<<y, x>> \in R) /\ x \in Nat /\ y \in Nat
    BY <1>2
  <2>2. QED
    BY <2>1
<1>4. QED
  BY <1>3, Zenon DEF Min

\* A non-empty bounded set of naturals has a greatest element.
LEMMA MaxOfNats ==
  ASSUME NEW bound \in Nat, NEW S \in SUBSET (0..bound), S # {}
  PROVE  Max(S) \in S /\ \A y \in S : y <= Max(S)
<1> DEFINE T == {y \in Nat : bound - y \in S}
<1>1. T \in SUBSET Nat /\ T # {}
  <2>1. PICK x \in S : TRUE
    BY Zenon
  <2>2. bound - x \in T
    BY <2>1
  <2>3. QED
    BY <2>2, Zenon
<1>2. Min(T) \in T /\ \A y \in T : Min(T) <= y
  BY <1>1, MinOfNats
<1>3. \A x \in S : Min(T) <= bound - x
  <2>1. \A x \in S : bound - x \in T
    OBVIOUS
  <2>2. QED
    BY <1>2, <2>1
<1>4. bound - Min(T) \in S /\ \A y \in S : bound - Min(T) >= y
  BY <1>2, <1>3
<1>5. Max(S) \in S /\ \A y \in S : Max(S) >= y
  BY <1>4, Zenon DEF Max
<1>6. QED
  BY <1>5

\* The places of the elements when one is put at the end.
LEMMA Appended ==
  ASSUME NEW S, NEW l \in Seq(S), NEW b \in S
  PROVE  /\ Append(l, b) \in Seq(S) /\ Len(Append(l, b)) = Len(l) + 1
         /\ \A i \in 1 .. Len(l) : Append(l, b)[i] = l[i]
         /\ Append(l, b)[Len(l) + 1] = b
OBVIOUS

\* What RemoveAt leaves is a sequence.
LEMMA RemoveAtLeaves ==
  ASSUME NEW S, NEW l \in Seq(S), NEW k \in 1 .. Len(l)
  PROVE  /\ RemoveAt(l, k) \in Seq(S) /\ Len(RemoveAt(l, k)) = Len(l) - 1
         /\ \A i \in 1 .. Len(l) - 1 : RemoveAt(l, k)[i] = IF i < k THEN l[i] ELSE l[i + 1]
<1>1. Len(l) \in Nat /\ Len(l) - 1 \in Nat
  OBVIOUS
<1>2. PICK m : m = RemoveAt(l, k)
  OBVIOUS
<1>3. m = [j \in 1 .. Len(l) - 1 |-> IF j < k THEN l[j] ELSE l[j + 1]]
  BY <1>2 DEF RemoveAt
<1>4. \A i \in 1 .. Len(l) - 1 : l[i] \in S /\ l[i + 1] \in S
  BY <1>1
<1>5. m \in [1 .. Len(l) - 1 -> S]
  BY <1>3, <1>4
<1>6. m \in Seq(S) /\ Len(m) = Len(l) - 1
  BY <1>1, <1>5
<1>7. QED
  BY <1>2, <1>3, <1>6

\* RemoveFirst unlinks an element that the list has.
LEMMA RemoveFirstLeaves ==
  ASSUME NEW S, NEW l \in Seq(S), NEW b, \E i \in 1 .. Len(l) : l[i] = b
  PROVE  \E k \in 1 .. Len(l) : l[k] = b /\ RemoveFirst(l, b) = RemoveAt(l, k)
<1> DEFINE I == {i \in 1 .. Len(l) : l[i] = b}
<1>1. DOMAIN l = 1 .. Len(l) /\ Len(l) \in Nat /\ I \in SUBSET Nat /\ I # {}
  OBVIOUS
<1>2. Min(I) \in I /\ \A i \in I : Min(I) <= i
  BY <1>1, MinOfNats, Zenon
<1>3. PICK f \in 1 .. Len(l) : l[f] = b /\ \A i \in 1 .. Len(l) : l[i] = b => f <= i
  BY <1>2, Zenon
<1>4. \A j \in 1 .. f - 1 : l[j] # b
  BY <1>1, <1>3
<1>5. PICK k : k = CHOOSE i \in DOMAIN l : l[i] = b /\ \A j \in 1 .. i - 1 : l[j] # b
  OBVIOUS
<1>6. k \in 1 .. Len(l) /\ l[k] = b
  BY <1>1, <1>3, <1>4, <1>5, Zenon
<1>7. b \in Range(l)
  BY <1>1, <1>3 DEF Range
<1>8. RemoveFirst(l, b) = RemoveAt(l, k)
  BY <1>5, <1>7 DEF RemoveFirst
<1>9. QED
  BY <1>6, <1>8

\* A list without repetitions.
Distinct(l) == \A i, j \in 1..Len(l) : l[i] = l[j] => i = j

\* Taking an element out of a list without repetitions takes it out of the
\* elements, leaves the others, and repeats none.
LEMMA RemoveFromDistinct ==
  ASSUME NEW S, NEW l \in Seq(S), Distinct(l), NEW b \in Range(l)
  PROVE  /\ RemoveFirst(l, b) \in Seq(S)
         /\ Distinct(RemoveFirst(l, b))
         /\ Range(RemoveFirst(l, b)) = Range(l) \ {b}
<1>1. Len(l) \in Nat /\ \E i \in 1..Len(l) : l[i] = b
  BY DEF Range
<1>2. PICK k \in 1..Len(l) : l[k] = b /\ RemoveFirst(l, b) = RemoveAt(l, k)
  BY <1>1, RemoveFirstLeaves
<1>3. PICK m : m = RemoveFirst(l, b)
  OBVIOUS
<1>4. /\ m \in Seq(S) /\ Len(m) = Len(l) - 1
      /\ \A i \in 1..(Len(l) - 1) : m[i] = IF i < k THEN l[i] ELSE l[i+1]
  BY <1>2, <1>3, RemoveAtLeaves, Zenon
<1>5. Distinct(m)
  <2> DEFINE old(i) == IF i < k THEN i ELSE i+1
  <2> SUFFICES ASSUME NEW i \in 1..Len(m), NEW j \in 1..Len(m), m[i] = m[j] PROVE i = j
    BY DEF Distinct
  <2>1. m[i] = l[old(i)] /\ old(i) \in 1..Len(l) /\ m[j] = l[old(j)] /\ old(j) \in 1..Len(l)
    BY <1>1, <1>4
  <2>2. old(i) = old(j)
    BY <2>1, Zenon DEF Distinct
  <2> QED
    BY <2>2, <1>1, <1>4
<1>6. Range(m) = Range(l) \ {b}
  <2>1. DOMAIN m = 1..Len(m) /\ DOMAIN l = 1..Len(l)
    BY <1>4
  <2>2. ASSUME NEW i \in 1..Len(m) PROVE m[i] \in Range(l) \ {b}
    <3>1. CASE i < k
      <4>1. m[i] = l[i] /\ i \in 1..Len(l) /\ i # k
        BY <1>1, <1>4, <2>2, <3>1
      <4> QED
        BY <4>1, <1>2, <2>1 DEF Distinct, Range
    <3>2. CASE ~(i < k)
      <4>1. m[i] = l[i+1] /\ i+1 \in 1..Len(l) /\ i+1 # k
        BY <1>1, <1>4, <2>2, <3>2
      <4> QED
        BY <4>1, <1>2, <2>1 DEF Distinct, Range
    <3> QED
      BY <3>1, <3>2
  <2>3. ASSUME NEW j \in 1..Len(l), l[j] # b PROVE \E i \in 1..Len(m) : m[i] = l[j]
    <3>1. j # k
      BY <1>2, <2>3
    <3>2. CASE j < k
      <4>1. j \in 1..Len(m) /\ m[j] = l[j]
        BY <1>1, <1>4, <3>2
      <4> QED
        BY <4>1
    <3>3. CASE j > k
      <4>1. j - 1 \in 1..Len(m) /\ m[j - 1] = l[j]
        BY <1>1, <1>4, <3>3
      <4> QED
        BY <4>1
    <3> QED
      BY <3>1, <3>2, <3>3
  <2>4. Range(m) \subseteq Range(l) \ {b}
    BY <2>1, <2>2 DEF Range
  <2>5. ASSUME NEW x \in Range(l), x # b PROVE x \in Range(m)
    <3>1. PICK j \in 1..Len(l) : l[j] = x
      BY <2>1, <2>5 DEF Range
    <3>2. PICK i \in 1..Len(m) : m[i] = x
      BY <2>3, <2>5, <3>1
    <3> QED
      BY <2>1, <3>2 DEF Range
  <2> QED
    BY <2>4, <2>5
<1> QED
  BY <1>3, <1>4, <1>5, <1>6

\* A new element at the end of a list without repetitions.
LEMMA AppendToDistinct ==
  ASSUME NEW S, NEW l \in Seq(S), Distinct(l), NEW b \in S, b \notin Range(l)
  PROVE  /\ Append(l, b) \in Seq(S)
         /\ Distinct(Append(l, b))
         /\ Range(Append(l, b)) = Range(l) \cup {b}
         /\ Last(Append(l, b)) = b
<1>1. PICK m : m = Append(l, b)
  BY Zenon
<1>2. /\ m \in Seq(S) /\ Len(m) = Len(l) + 1 /\ Len(l) \in Nat
      /\ \A i \in 1..Len(l) : m[i] = l[i]
      /\ m[Len(l) + 1] = b
  BY <1>1, Appended
<1>3. DOMAIN m = 1..Len(m) /\ DOMAIN l = 1..Len(l)
  BY <1>2
<1>4. \A i \in 1..Len(l) : l[i] # b
  BY <1>3 DEF Range
<1>5. Distinct(m)
  BY <1>2, <1>4 DEF Distinct
<1>6. Range(m) = Range(l) \cup {b}
  <2>1. \A i \in 1..Len(m) : i \in 1..Len(l) \/ i = Len(l) + 1
    BY <1>2
  <2>2. 1..Len(l) \subseteq 1..Len(m) /\ Len(l) + 1 \in 1..Len(m)
    BY <1>2
  <2> QED
    BY <1>2, <1>3, <2>1, <2>2 DEF Range
<1> QED
  BY <1>1, <1>2, <1>5, <1>6 DEF Last

----------------------------------------------------------------------------
\* A walk that starts in a closed set stays in it.
LEMMA WalkStays ==
  ASSUME NEW f, NEW n, NEW S \in Closed(n, f)
  PROVE  Walk(n, f) \subseteq S
BY DEF Walk

\* A walk visits every node that belongs to all the sets closed under it.
LEMMA WalkVisits ==
  ASSUME NEW f, NEW n, NEW L \in Closed(n, f),
         ASSUME NEW S \in Closed(n, f) PROVE L \subseteq S
  PROVE  Walk(n, f) = L
BY DEF Walk, Closed

\* f leads from a through exactly the nodes L to z, and g leads back.
Leads(f, g, a, z, L) ==
  /\ L \subseteq Nodes /\ a \in L /\ z \in L
  /\ Walk(a, f) = L
  /\ f[z] = NULL
  /\ \A n \in L \ {z} : f[n] \in L \ {a} /\ g[f[n]] = n

\* No node of a list points to itself.
LEMMA NoSelfLoop ==
  ASSUME NEW f, NEW g, NEW a, NEW z, NEW L, Leads(f, g, a, z, L),
         NEW h \in L \ {a}
  PROVE  f[h] # h
<1>1. SUFFICES ASSUME f[h] = h PROVE L \ {h} \in Closed(a, f)
  BY WalkStays DEF Leads
<1>2. h # z
  BY <1>1, PointersAssumption DEF Leads
<1>3. \A n \in L \ {h} : f[n] # h
  BY <1>1, <1>2, PointersAssumption DEF Leads
<1>4. QED
  BY <1>3 DEF Leads, Closed

\* A node put behind the end of a list is visited last (addWindow, and the
\* second half of reorderQueue).
LEMMA WalkAppend ==
  ASSUME NEW f, NEW g, NEW a, NEW z, NEW L, Leads(f, g, a, z, L),
         NEW x \in Nodes \ L, NEW f2,
         f2[z] = x, f2[x] = NULL, \A n \in L \ {z} : f2[n] = f[n]
  PROVE  Walk(a, f2) = L \cup {x}
<1>1. L \cup {x} \in Closed(a, f2)
  BY DEF Leads, Closed
<1>2. ASSUME NEW S \in Closed(a, f2) PROVE L \cup {x} \subseteq S
  <2>1. S \cap L \in Closed(a, f)
    BY DEF Leads, Closed
  <2>2. L \subseteq S
    BY <2>1, WalkStays DEF Leads
  <2>3. x \in S \cup {NULL}
    BY <2>2 DEF Leads, Closed
  <2>4. QED
    BY <2>2, <2>3, PointersAssumption
<1>3. QED
  BY <1>1, <1>2, WalkVisits, Zenon

\* A walk from a node put in front of a list goes on through the list.
LEMMA WalkPrepend ==
  ASSUME NEW f, NEW g, NEW a, NEW z, NEW L, Leads(f, g, a, z, L),
         NEW x \in Nodes \ L, NEW f2,
         f2[x] = a, \A n \in L : f2[n] = f[n]
  PROVE  Walk(x, f2) = L \cup {x}
<1>1. L \cup {x} \in Closed(x, f2)
  BY DEF Leads, Closed
<1>2. ASSUME NEW S \in Closed(x, f2) PROVE L \cup {x} \subseteq S
  <2>1. a \in S
    BY PointersAssumption DEF Leads, Closed
  <2>2. S \cap L \in Closed(a, f)
    BY <2>1 DEF Leads, Closed
  <2>3. L \subseteq S
    BY <2>2, WalkStays DEF Leads
  <2>4. QED
    BY <2>3 DEF Closed
<1>3. QED
  BY <1>1, <1>2, WalkVisits, Zenon

\* A walk past a node taken out visits the others (sys_deleteWindow, and the
\* first half of reorderQueue).
LEMMA WalkSkip ==
  ASSUME NEW f, NEW g, NEW a, NEW z, NEW L, Leads(f, g, a, z, L),
         NEW h \in L \ {a}, NEW q \in L, f[q] = h, q # z, NEW f2,
         f2[q] = f[h], \A n \in L \ {q, h} : f2[n] = f[n]
  PROVE  Walk(a, f2) = L \ {h}
<1>1. L \ {h} \in Closed(a, f2)
  <2>1. f[h] # h
    BY NoSelfLoop
  <2>2. \A n \in L \ {h} : f2[n] \in (L \ {h}) \cup {NULL}
    BY <2>1 DEF Leads
  <2>3. QED
    BY <2>2 DEF Leads, Closed
<1>2. ASSUME NEW S \in Closed(a, f2) PROVE L \ {h} \subseteq S
  <2>1. CASE q \in S
    <3>1. (S \cap L) \cup {h} \in Closed(a, f)
      BY <2>1 DEF Leads, Closed
    <3>2. QED
      BY <3>1, WalkStays DEF Leads
  <2>2. CASE q \notin S
    <3>1. (S \cap L) \ {h} \in Closed(a, f)
      BY <2>2 DEF Leads, Closed
    <3>2. QED
      BY <3>1, <2>2, WalkStays DEF Leads
  <2>3. QED
    BY <2>1, <2>2
<1>3. QED
  BY <1>1, <1>2, WalkVisits, Zenon

\* A walk from the second node of a list visits all but the first.
LEMMA WalkRest ==
  ASSUME NEW f, NEW g, NEW a, NEW z, NEW L, Leads(f, g, a, z, L), a # z,
         NEW f2, \A n \in L \ {a} : f2[n] = f[n]
  PROVE  Walk(f[a], f2) = L \ {a}
<1>1. L \ {a} \in Closed(f[a], f2)
  BY DEF Leads, Closed
<1>2. ASSUME NEW S \in Closed(f[a], f2) PROVE L \ {a} \subseteq S
  <2>1. (S \cap L) \cup {a} \in Closed(a, f)
    BY DEF Leads, Closed
  <2>2. QED
    BY <2>1, WalkStays DEF Leads
<1>3. QED
  BY <1>1, <1>2, WalkVisits, Zenon


\* The list both ways: f forwards from a to z, g backwards.
Linked(f, g, a, z, L) == Leads(f, g, a, z, L) /\ Leads(g, f, z, a, L)

\* Adding a node at the end of a list.
LEMMA LinkedAppend ==
  ASSUME NEW f, NEW g, NEW a, NEW z, NEW L, Linked(f, g, a, z, L),
         NEW x \in Nodes \ L, NEW f2, NEW g2,
         f2[z] = x, f2[x] = NULL, \A n \in L \ {z} : f2[n] = f[n],
         g2[x] = z, \A n \in L : g2[n] = g[n]
  PROVE  Linked(f2, g2, a, x, L \cup {x})
<1>1. Leads(f, g, a, z, L) /\ Leads(g, f, z, a, L)
  BY DEF Linked
<1>2. Walk(a, f2) = L \cup {x}
  BY <1>1, WalkAppend
<1>3. Walk(x, g2) = L \cup {x}
  BY <1>1, WalkPrepend
<1>4. Leads(f2, g2, a, x, L \cup {x})
  BY <1>1, <1>2 DEF Leads
<1>5. Leads(g2, f2, x, a, L \cup {x})
  BY <1>1, <1>3 DEF Leads
<1>6. QED
  BY <1>4, <1>5 DEF Linked

\* Taking a node out of the middle of a list.
LEMMA LinkedSkip ==
  ASSUME NEW f, NEW g, NEW a, NEW z, NEW L, Linked(f, g, a, z, L),
         NEW h \in L \ {a, z}, NEW f2, NEW g2,
         f2[g[h]] = f[h], \A n \in L \ {g[h], h} : f2[n] = f[n],
         g2[f[h]] = g[h], \A n \in L \ {f[h], h} : g2[n] = g[n]
  PROVE  Linked(f2, g2, a, z, L \ {h})
<1>1. Leads(f, g, a, z, L) /\ Leads(g, f, z, a, L)
  BY DEF Linked
<1>2. /\ g[h] \in L /\ g[h] # z /\ f[g[h]] = h
      /\ f[h] \in L /\ f[h] # a /\ g[f[h]] = h
  BY <1>1 DEF Leads
<1>3. Walk(a, f2) = L \ {h}
  BY <1>1, <1>2, WalkSkip
<1>4. Walk(z, g2) = L \ {h}
  BY <1>1, <1>2, WalkSkip
<1>5. f[h] # h /\ g[h] # h
  BY <1>1, <1>2, NoSelfLoop
<1>6. Leads(f2, g2, a, z, L \ {h})
  BY <1>1, <1>2, <1>3, <1>5 DEF Leads
<1>7. Leads(g2, f2, z, a, L \ {h})
  BY <1>1, <1>2, <1>4, <1>5 DEF Leads
<1>8. QED
  BY <1>6, <1>7 DEF Linked

\* Taking away the last node of a list of two or more.
LEMMA LinkedDrop ==
  ASSUME NEW f, NEW g, NEW a, NEW z, NEW L, Linked(f, g, a, z, L), a # z,
         NEW f2, f2[g[z]] = NULL, \A n \in L \ {g[z], z} : f2[n] = f[n]
  PROVE  Linked(f2, g, a, g[z], L \ {z})
<1>1. Leads(f, g, a, z, L) /\ Leads(g, f, z, a, L)
  BY DEF Linked
<1>2. g[z] \in L \ {z} /\ f[g[z]] = z
  BY <1>1 DEF Leads
<1>3. Walk(a, f2) = L \ {z}
  BY <1>1, <1>2, WalkSkip DEF Leads
<1>4. Walk(g[z], g) = L \ {z}
  BY <1>1, WalkRest
<1>5. Leads(f2, g, a, g[z], L \ {z})
  BY <1>1, <1>2, <1>3 DEF Leads
<1>6. Leads(g, f2, g[z], a, L \ {z})
  BY <1>1, <1>2, <1>4 DEF Leads
<1>7. QED
  BY <1>5, <1>6 DEF Linked

----------------------------------------------------------------------------
\* QueueOK says that the slots in use and the sentinel are linked both ways.
LEMMA QueueLinked ==
  ASSUME TypeOK
  PROVE  QueueOK <=> Linked(next, prev, windowQueue, lastWindow, List)
<1>1. List \subseteq Nodes /\ windowQueue \notin InUse /\ NULL \notin List
  BY PointersAssumption DEF List, InUse, Nodes
<1>2. ASSUME QueueOK PROVE Linked(next, prev, windowQueue, lastWindow, List)
  <2>1. lastWindow \in List
    <3>1. lastWindow \in Walk(lastWindow, prev)
      BY DEF Walk, Closed, TypeOK
    <3>2. QED
      BY <1>2, <3>1 DEF QueueOK
  <2>2. \A n \in List \ {windowQueue} : prev[n] # lastWindow
    BY <1>1, <1>2 DEF QueueOK
  <2>3. Leads(next, prev, windowQueue, lastWindow, List)
    BY <1>1, <1>2, <2>1 DEF QueueOK, Leads, List
  <2>4. Leads(prev, next, lastWindow, windowQueue, List)
    BY <1>1, <1>2, <2>1, <2>2 DEF QueueOK, Leads, List
  <2>5. QED
    BY <2>3, <2>4 DEF Linked
<1>3. ASSUME Linked(next, prev, windowQueue, lastWindow, List) PROVE QueueOK
  BY <1>1, <1>3 DEF QueueOK, Linked, Leads, List
<1>4. QED
  BY <1>2, <1>3

\* The same for the state after a step, in the direction that is needed.
LEMMA LinkedQueueNext ==
  ASSUME Linked(next', prev', windowQueue, lastWindow', List')
  PROVE  QueueOK'
<1>1. windowQueue \notin InUse'
  BY PointersAssumption DEF InUse
<1>2. QED
  BY <1>1 DEF QueueOK, Linked, Leads, List

\* sys_createWindow puts a slot without an owner behind lastWindow.
LEMMA CreateOK ==
  ASSUME TypeOK, QueueOK, DesktopAtBottom, NEW p \in Procs, sys_createWindow(p)
  PROVE  TypeOK' /\ QueueOK' /\ DesktopAtBottom'
<1>1. PICK x \in Slots : acquireWindow(x) /\ proc' = [proc EXCEPT ![x] = p] /\ addWindow(x)
  BY Zenon DEF sys_createWindow
<1>2. Linked(next, prev, windowQueue, lastWindow, List)
  BY QueueLinked
<1>3. /\ x \in Nodes \ List /\ x # windowQueue /\ x # lastWindow
      /\ lastWindow \in List /\ List \subseteq Nodes
  BY <1>1, <1>2, PointersAssumption DEF acquireWindow, List, InUse, Nodes, Linked, Leads
<1>4. /\ next' = [next EXCEPT ![lastWindow] = x, ![x] = NULL]
      /\ prev' = [prev EXCEPT ![x] = lastWindow]
      /\ lastWindow' = x
  <2>1. PICK q \in Walk(windowQueue, next) :
          /\ next[q] = NULL
          /\ next' = [next EXCEPT ![q] = x, ![x] = NULL]
          /\ prev' = [prev EXCEPT ![x] = q]
          /\ lastWindow' = x
    BY <1>1, Zenon DEF addWindow
  <2>2. q = lastWindow
    BY <1>2, <2>1, PointersAssumption DEF Linked, Leads
  <2>3. QED
    BY <2>1, <2>2
<1>5. InUse' = InUse \cup {x} /\ List' = List \cup {x}
  BY <1>1, ProcsAssumption DEF InUse, List, TypeOK
<1>6. TypeOK'
  BY <1>1, <1>3, <1>4 DEF TypeOK, sys_createWindow, painted, Nodes
<1>7. QueueOK'
  <2>1. /\ next'[lastWindow] = x /\ next'[x] = NULL
        /\ \A n \in List \ {lastWindow} : next'[n] = next[n]
        /\ prev'[x] = lastWindow
        /\ \A n \in List : prev'[n] = prev[n]
    BY <1>3, <1>4 DEF TypeOK
  <2>2. Linked(next', prev', windowQueue, x, List \cup {x})
    BY <1>2, <1>3, <2>1, LinkedAppend
  <2>3. QED
    BY <1>4, <1>5, <2>2, LinkedQueueNext
<1>8. DesktopAtBottom'
  <2>1. CASE InUse = {}
    <3>1. x = Desktop
      BY <1>1, <2>1, SlotsAssumption DEF acquireWindow, InUse, Slots, Desktop
    <3>2. lastWindow = windowQueue
      BY <1>3, <2>1 DEF List
    <3>3. QED
      BY <1>3, <1>4, <1>5, <3>1, <3>2 DEF DesktopAtBottom, TypeOK
  <2>2. CASE InUse # {}
    <3>1. windowQueue # lastWindow /\ windowQueue \in Nodes
      BY <2>2, PointersAssumption DEF DesktopAtBottom, QueueOK, Nodes, InUse
    <3>2. QED
      BY <2>2, <3>1, <1>3, <1>4, <1>5 DEF DesktopAtBottom, TypeOK
  <2>3. QED
    BY <2>1, <2>2
<1>9. QED
  BY <1>6, <1>7, <1>8

\* sys_deleteWindow takes the slot out of the middle or off the top.
LEMMA DeleteOK ==
  ASSUME TypeOK, QueueOK, DesktopAtBottom, NEW p \in Procs,
         NEW h \in Slots \ {Desktop}, sys_deleteWindow(p, h)
  PROVE  TypeOK' /\ QueueOK' /\ DesktopAtBottom'
<1>1. PICK q \in Walk(windowQueue, next) :
        /\ next[q] = h
        /\ proc' = [proc EXCEPT ![h] = NoProc]
        /\ lastWindow' = IF h = lastWindow THEN q ELSE lastWindow
        /\ next' = [next EXCEPT ![q] = next[h]]
        /\ prev' = IF next[h] = NULL THEN prev ELSE [prev EXCEPT ![next[h]] = q]
  BY Zenon DEF sys_deleteWindow
<1>2. Linked(next, prev, windowQueue, lastWindow, List)
  BY QueueLinked
<1>3. List \subseteq Nodes /\ lastWindow \in List /\ h # windowQueue /\ h # NULL
  BY <1>2, PointersAssumption DEF Linked, Leads, Nodes
<1>4. q \in List /\ h \in List /\ q = prev[h] /\ q # h
  <2>1. q \in List /\ q # lastWindow
    BY <1>1, <1>2, <1>3 DEF Linked, Leads
  <2>2. h \in List /\ q = prev[h]
    BY <1>1, <1>2, <2>1 DEF Linked, Leads
  <2>3. next[h] # h
    BY <1>2, <1>3, <2>2, NoSelfLoop DEF Linked
  <2>4. QED
    BY <1>1, <2>1, <2>2, <2>3
<1>5. InUse' = InUse \ {h} /\ List' = List \ {h}
  BY <1>1, <1>3, ProcsAssumption DEF InUse, List, TypeOK
<1>6. TypeOK'
  BY <1>1, <1>3, <1>4 DEF TypeOK, sys_deleteWindow, painted, Nodes
<1>7. QueueOK'
  <2>1. CASE h = lastWindow
    <3>1. next[h] = NULL
      BY <1>2, <2>1 DEF Linked, Leads
    <3>2. /\ next'[q] = NULL /\ prev' = prev
          /\ \A n \in List \ {q, h} : next'[n] = next[n]
      BY <1>1, <1>3, <1>4, <3>1 DEF TypeOK
    <3>3. Linked(next', prev, windowQueue, prev[lastWindow], List \ {lastWindow})
      BY <1>2, <1>3, <1>4, <2>1, <3>2, LinkedDrop, Zenon
    <3>4. QED
      BY <1>1, <1>4, <1>5, <2>1, <3>2, <3>3, LinkedQueueNext
  <2>2. CASE h # lastWindow
    <3>1. next[h] \in List /\ next[h] # NULL
      BY <1>2, <1>3, <1>4, <2>2, PointersAssumption DEF Linked, Leads
    <3>2. /\ next'[q] = next[h]
          /\ \A n \in List \ {q, h} : next'[n] = next[n]
          /\ prev'[next[h]] = q
          /\ \A n \in List \ {next[h], h} : prev'[n] = prev[n]
      BY <1>1, <1>3, <1>4, <3>1 DEF TypeOK
    <3>3. Linked(next', prev', windowQueue, lastWindow, List \ {h})
      BY <1>2, <1>3, <1>4, <2>2, <3>2, LinkedSkip
    <3>4. QED
      BY <1>1, <1>5, <2>2, <3>3, LinkedQueueNext
  <2>3. QED
    BY <2>1, <2>2
<1>8. DesktopAtBottom'
  <2>1. q # windowQueue
    BY <1>1, <1>4, <1>3 DEF DesktopAtBottom, List
  <2>2. QED
    BY <1>1, <1>3, <1>5, <2>1, <1>4 DEF DesktopAtBottom, TypeOK, Nodes, List
<1>9. QED
  BY <1>6, <1>7, <1>8

\* reorderQueue takes a window out of the middle and puts it on top.
LEMMA ReorderOK ==
  ASSUME TypeOK, QueueOK, DesktopAtBottom, NEW q \in Slots, reorderQueue(q)
  PROVE  TypeOK' /\ QueueOK' /\ DesktopAtBottom'
<1> DEFINE f == [next EXCEPT ![prev[q]] = next[q]]
           g == [prev EXCEPT ![next[q]] = prev[q]]
<1>1. Linked(next, prev, windowQueue, lastWindow, List)
  BY QueueLinked
<1>2. /\ q \in List \ {lastWindow, windowQueue, Desktop}
      /\ List \subseteq Nodes /\ lastWindow \in List
  BY <1>1 DEF reorderQueue, Linked, Leads
<1>3. /\ prev[q] \in List /\ prev[q] # lastWindow /\ prev[q] # q /\ next[prev[q]] = q
      /\ next[q] \in List /\ next[q] # windowQueue /\ next[q] # q /\ prev[next[q]] = q
  <2>1. next[q] # q
    BY <1>1, <1>2, NoSelfLoop DEF Linked
  <2>2. prev[q] # q
    BY <1>1, <1>2, NoSelfLoop DEF Linked
  <2>3. QED
    BY <1>1, <1>2, <2>1, <2>2 DEF Linked, Leads
<1>4. /\ next' = [f EXCEPT ![lastWindow] = q, ![q] = NULL]
      /\ prev' = [g EXCEPT ![q] = lastWindow]
      /\ lastWindow' = q
  BY DEF reorderQueue, relink
<1>5. InUse' = InUse /\ List' = List
  BY DEF reorderQueue, InUse, List
<1>6. TypeOK'
  <2>1. next' \in [Nodes -> Slots \cup {NULL}]
    BY <1>2, <1>3, <1>4 DEF TypeOK
  <2>2. prev' \in [Nodes -> Nodes \cup {NULL}]
    BY <1>2, <1>3, <1>4 DEF TypeOK
  <2>3. temp1' \subseteq Slots \X Slots
    BY DEF reorderQueue, Behind
  <2>4. QED
    BY <1>2, <1>4, <2>1, <2>2, <2>3 DEF TypeOK, reorderQueue
<1>7. QueueOK'
  <2>1. Linked(f, g, windowQueue, lastWindow, List \ {q})
    <3>1. /\ f[prev[q]] = next[q] /\ \A n \in List \ {prev[q], q} : f[n] = next[n]
          /\ g[next[q]] = prev[q] /\ \A n \in List \ {next[q], q} : g[n] = prev[n]
      BY <1>2, <1>3 DEF TypeOK
    <3>2. QED
      BY <1>1, <1>2, <3>1, LinkedSkip, Zenon
  <2>2. /\ next'[lastWindow] = q /\ next'[q] = NULL
        /\ \A n \in (List \ {q}) \ {lastWindow} : next'[n] = f[n]
        /\ prev'[q] = lastWindow /\ \A n \in List \ {q} : prev'[n] = g[n]
    BY <1>2, <1>3, <1>4 DEF TypeOK
  <2>3. q \in Nodes \ (List \ {q})
    BY <1>2
  <2> HIDE DEF f, g
  <2>4. Linked(next', prev', windowQueue, q, (List \ {q}) \cup {q})
    BY <2>1, <2>2, <2>3, LinkedAppend
  <2>5. (List \ {q}) \cup {q} = List
    BY <1>2
  <2>6. QED
    BY <1>4, <1>5, <2>4, <2>5, LinkedQueueNext
<1>8. DesktopAtBottom'
  <2>1. InUse # {} /\ windowQueue \in Nodes
    BY <1>2 DEF List, Nodes
  <2>2. windowQueue # prev[q] /\ windowQueue # lastWindow /\ windowQueue # q
    BY <1>1, <1>2, <1>3, <2>1, PointersAssumption
       DEF DesktopAtBottom, Linked, Leads, InUse, Nodes
  <2>3. next'[windowQueue] = next[windowQueue]
    BY <1>2, <1>3, <1>4, <2>1, <2>2 DEF TypeOK
  <2>4. QED
    BY <1>5, <2>1, <2>3 DEF DesktopAtBottom
<1>9. QED
  BY <1>6, <1>7, <1>8

----------------------------------------------------------------------------
\* The inductive invariant: each of its parts needs the ones before it.
Inv == TypeOK /\ QueueOK /\ DesktopAtBottom /\ ScreenFresh

\* The empty list that initWindow makes satisfies the invariant.
LEMMA InitInv == Init => Inv
<1> SUFFICES ASSUME Init PROVE Inv
  OBVIOUS
<1>1. InUse = {} /\ List = {windowQueue}
  BY DEF Init, initWindow, InUse, List
<1>2. TypeOK
  BY DEF Init, initWindow, TypeOK, Nodes
<1>3. Walk(windowQueue, next) = {windowQueue} /\ Walk(lastWindow, prev) = {windowQueue}
  <2>1. {windowQueue} \in Closed(windowQueue, next) /\ {windowQueue} \in Closed(lastWindow, prev)
    BY DEF Init, initWindow, Closed, Nodes
  <2>2. QED
    BY <2>1, Zenon DEF Walk, Closed, Nodes, Init, initWindow
<1>4. QueueOK
  BY <1>1, <1>3 DEF QueueOK, Init, initWindow, Nodes
<1>5. ScreenFresh
  BY <1>3 DEF ScreenFresh, Behind, Init, initWindow
<1>6. QED
  BY <1>1, <1>2, <1>4, <1>5 DEF Inv, DesktopAtBottom

\* One step per action of Next; the two that only paint leave the list alone.
LEMMA NextInv == Inv /\ [Next]_vars => Inv'
<1> SUFFICES ASSUME Inv, [Next]_vars PROVE Inv'
  OBVIOUS
<1> USE DEF Inv
<1>1. ASSUME NEW p \in Procs, sys_createWindow(p) PROVE Inv'
  <2>1. TypeOK' /\ QueueOK' /\ DesktopAtBottom'
    BY <1>1, CreateOK
  <2>2. pc'[p] = "redraw"
    BY <1>1 DEF sys_createWindow, TypeOK
  <2>3. QED
    BY <2>1, <2>2 DEF ScreenFresh
<1>2. ASSUME NEW p \in Procs, NEW h \in Slots \ {Desktop}, sys_deleteWindow(p, h) PROVE Inv'
  <2>1. TypeOK' /\ QueueOK' /\ DesktopAtBottom'
    BY <1>2, DeleteOK
  <2>2. pc'[p] = "redraw"
    BY <1>2 DEF sys_deleteWindow, TypeOK
  <2>3. QED
    BY <2>1, <2>2 DEF ScreenFresh
<1>3. ASSUME UNCHANGED queue PROVE QueueOK' /\ DesktopAtBottom' /\ Behind' = Behind
  BY <1>3 DEF queue, QueueOK, DesktopAtBottom, Behind, List, InUse
<1>4. Behind \subseteq Slots \X Slots
  BY DEF Behind
<1>5. ASSUME NEW p \in Procs, redraw(p) PROVE Inv'
  <2>1. TypeOK'
    BY <1>4, <1>5 DEF redraw, updateBackWindows, queue, TypeOK
  <2>2. ScreenFresh'
    BY <1>3, <1>5 DEF redraw, updateBackWindows, queue, ScreenFresh
  <2>3. QED
    BY <1>3, <1>5, <2>1, <2>2 DEF redraw
<1>6. ASSUME NEW p \in Procs, NEW h \in Slots, sys_updateWindow(p, h) PROVE Inv'
  <2>1. TypeOK'
    BY <1>4, <1>6 DEF sys_updateWindow, updateBackWindows, updateLastWindow, queue, TypeOK
  <2>2. ScreenFresh'
    BY <1>3, <1>6 DEF sys_updateWindow, updateBackWindows, updateLastWindow, queue, ScreenFresh
  <2>3. QED
    BY <1>3, <1>6, <2>1, <2>2 DEF sys_updateWindow
<1>7. ASSUME NEW q \in Slots, reorderQueue(q) PROVE Inv'
  <2>1. TypeOK' /\ QueueOK' /\ DesktopAtBottom'
    BY <1>7, ReorderOK
  <2>2. ScreenFresh'
    BY <1>7 DEF reorderQueue, ScreenFresh
  <2>3. QED
    BY <2>1, <2>2
<1>8. ASSUME UNCHANGED vars PROVE Inv'
  <2>1. UNCHANGED queue /\ UNCHANGED <<temp1, top, pc>>
    BY <1>8 DEF vars, painted
  <2>2. TypeOK' /\ ScreenFresh'
    BY <1>3, <2>1 DEF queue, TypeOK, ScreenFresh
  <2>3. QED
    BY <1>3, <2>1, <2>2
<1>9. QED
  BY <1>1, <1>2, <1>5, <1>6, <1>7, <1>8 DEF Next

\* Every link, owner and painted window stays in the table: no system call and
\* no click of window.c and mouse.c puts a wild pointer in the list.
THEOREM TypesAlwaysOK == Spec => []TypeOK
<1>1. Inv => TypeOK
  BY DEF Inv
<1>2. QED
  BY InitInv, NextInv, <1>1, PTL DEF Spec

\* For every table size and every set of processes: the list stays well
\* formed under every interleaving of sys_createWindow, sys_deleteWindow,
\* sys_updateWindow and the raising clicks (window.c).
THEOREM QueueAlwaysOK == Spec => []QueueOK
<1>1. Inv => QueueOK
  BY DEF Inv
<1>2. QED
  BY InitInv, NextInv, <1>1, PTL DEF Spec

\* The desktop stays at the bottom of the list (mouse.c:138-151, 267).
THEOREM DesktopAlwaysAtBottom == Spec => []DesktopAtBottom
<1>1. Inv => DesktopAtBottom
  BY DEF Inv
<1>2. QED
  BY InitInv, NextInv, <1>1, PTL DEF Spec

\* Once every change of the list was followed by its redraw, the screen shows
\* the list.
THEOREM ScreenAlwaysFresh == Spec => []ScreenFresh
<1>1. Inv => ScreenFresh
  BY DEF Inv
<1>2. QED
  BY InitInv, NextInv, <1>1, PTL DEF Spec

----------------------------------------------------------------------------
\* The list is the sequence s: f leads from the sentinel to the first of s, from
\* each of s to the next, and from the last nowhere.
Spells(s, f) ==
  /\ s \in Seq(Slots) /\ Distinct(s)
  /\ f[windowQueue] = IF s = <<>> THEN NULL ELSE s[1]
  /\ \A i \in 1 .. Len(s) : f[s[i]] = IF i = Len(s) THEN NULL ELSE s[i + 1]

\* The last node of a list.
End(s) == IF s = <<>> THEN windowQueue ELSE s[Len(s)]

\* Order for the slots used and the back links g.
OrderOf(used, g) ==
  [i \in 1 .. Cardinality(used) |->
     CHOOSE x \in used : Cardinality(Walk(x, g) \ {windowQueue}) = i]

\* A slot linked behind the last node is appended to the sequence.
LEMMA SpellsAppend ==
  ASSUME NEW s, NEW f, Spells(s, f), NEW x \in Slots, x \notin Range(s), NEW f2,
         f2[End(s)] = x, f2[x] = NULL,
         \A n \in (Range(s) \cup {windowQueue}) \ {End(s)} : f2[n] = f[n]
  PROVE  Spells(Append(s, x), f2)
<1>1. s \in Seq(Slots) /\ Distinct(s) /\ Len(s) \in Nat
  BY DEF Spells
<1>2. PICK m : m = Append(s, x)
  BY Zenon
<1>3. m \in Seq(Slots) /\ Distinct(m)
  BY <1>1, <1>2, AppendToDistinct
<1>4. /\ Len(m) = Len(s) + 1 /\ m # <<>> /\ \A i \in 1 .. Len(s) : m[i] = s[i]
      /\ m[Len(s) + 1] = x
  BY <1>1, <1>2
<1>5. \A i \in 1 .. Len(s) : s[i] \in Range(s) /\ s[i] \in Slots /\ s[i] # windowQueue
  BY <1>1, PointersAssumption DEF Range
<1>6. f2[windowQueue] = m[1]
  <2>1. CASE s = <<>>
    BY <1>4, <2>1 DEF End
  <2>2. CASE s # <<>>
    <3>1. Len(s) \in 1 .. Len(s) /\ 1 \in 1 .. Len(s)
      BY <1>1, <2>2
    <3>2. End(s) # windowQueue /\ f2[windowQueue] = f[windowQueue]
      BY <1>5, <2>2, <3>1 DEF End
    <3>3. QED
      BY <1>4, <2>2, <3>1, <3>2 DEF Spells
  <2>3. QED
    BY <2>1, <2>2
<1>7. ASSUME NEW i \in 1 .. Len(m) PROVE f2[m[i]] = IF i = Len(m) THEN NULL ELSE m[i + 1]
  <2>1. CASE i = Len(m)
    BY <1>4, <2>1
  <2>2. CASE i = Len(s)
    <3>1. i \in 1 .. Len(s) /\ s # <<>> /\ m[i] = End(s) /\ i # Len(m) /\ m[i + 1] = x
      BY <1>1, <1>4, <1>7, <2>2 DEF End
    <3>2. QED
      BY <3>1
  <2>3. CASE i < Len(s)
    <3>1. /\ i \in 1 .. Len(s) /\ i + 1 \in 1 .. Len(s) /\ i # Len(s) /\ i # Len(m)
          /\ Len(s) \in 1 .. Len(s) /\ s # <<>>
      BY <1>1, <1>4, <1>7, <2>3
    <3>2. s[i] # s[Len(s)] /\ s[i] # End(s)
      BY <1>1, <3>1 DEF Distinct, End
    <3>3. f2[s[i]] = f[s[i]]
      BY <1>5, <3>1, <3>2
    <3>4. QED
      BY <1>4, <3>1, <3>3 DEF Spells
  <2>4. QED
    BY <1>1, <1>4, <2>1, <2>2, <2>3
<1>8. QED
  BY <1>2, <1>3, <1>4, <1>6, <1>7 DEF Spells

\* A slot past which the node before it is linked is removed from the sequence.
LEMMA SpellsRemove ==
  ASSUME NEW s, NEW f, Spells(s, f), NEW h \in Range(s),
         NEW q \in Range(s) \cup {windowQueue}, f[q] = h, NEW f2,
         f2[q] = f[h], \A n \in (Range(s) \cup {windowQueue}) \ {q, h} : f2[n] = f[n]
  PROVE  Spells(RemoveFirst(s, h), f2)
<1>1. s \in Seq(Slots) /\ Distinct(s) /\ Len(s) \in Nat
  BY DEF Spells
<1>2. PICK m : m = RemoveFirst(s, h)
  OBVIOUS
<1>3. m \in Seq(Slots) /\ Distinct(m)
  BY <1>1, <1>2, RemoveFromDistinct
<1>4. \E i \in 1 .. Len(s) : s[i] = h
  BY <1>1 DEF Range
<1>5. PICK k \in 1 .. Len(s) : s[k] = h /\ m = RemoveAt(s, k)
  BY <1>1, <1>2, <1>4, RemoveFirstLeaves
<1>6. /\ Len(m) = Len(s) - 1
      /\ \A i \in 1 .. (Len(s) - 1) : m[i] = IF i < k THEN s[i] ELSE s[i + 1]
  BY <1>1, <1>5, RemoveAtLeaves, Zenon
<1>7. /\ \A i \in 1 .. Len(s) : s[i] \in Range(s) /\ s[i] \in Slots /\ s[i] # windowQueue
      /\ \A i \in 1 .. Len(s) : s[i] # NULL
  BY <1>1, PointersAssumption DEF Range, Nodes
<1>8. s # <<>> /\ f[windowQueue] = s[1] /\ 1 \in 1 .. Len(s)
  BY <1>1, <1>5 DEF Spells
<1>9. q = IF k = 1 THEN windowQueue ELSE s[k - 1]
  <2>1. CASE q = windowQueue
    <3>1. s[1] = s[k]
      BY <1>5, <1>8, <2>1
    <3>2. k = 1
      BY <1>1, <1>5, <1>8, <3>1 DEF Distinct
    <3>3. QED
      BY <2>1, <3>2
  <2>2. CASE q # windowQueue
    <3>1. PICK i \in 1 .. Len(s) : q = s[i]
      BY <1>1, <2>2 DEF Range
    <3>2. f[s[i]] = IF i = Len(s) THEN NULL ELSE s[i + 1]
      BY <3>1 DEF Spells
    <3>3. i # Len(s) /\ s[i + 1] = s[k] /\ i + 1 \in 1 .. Len(s)
      BY <1>1, <1>5, <1>7, <3>1, <3>2
    <3>4. i + 1 = k
      BY <1>1, <1>5, <3>3 DEF Distinct
    <3>5. k # 1 /\ i = k - 1
      BY <1>1, <1>5, <3>1, <3>4
    <3>6. QED
      BY <3>1, <3>5
  <2>3. QED
    BY <2>1, <2>2
<1>10. f2[q] = IF k = Len(s) THEN NULL ELSE s[k + 1]
  BY <1>5 DEF Spells
<1>11. f2[windowQueue] = IF m = <<>> THEN NULL ELSE m[1]
  <2>1. m = <<>> <=> Len(s) = 1
    BY <1>1, <1>3, <1>6
  <2>2. CASE k = 1
    <3>1. f2[windowQueue] = IF Len(s) = 1 THEN NULL ELSE s[2]
      BY <1>1, <1>9, <1>10, <2>2
    <3>2. Len(s) # 1 => m[1] = s[2]
      BY <1>1, <1>6, <1>8, <2>2
    <3>3. QED
      BY <2>1, <3>1, <3>2
  <2>3. CASE k # 1
    <3>1. k - 1 \in 1 .. Len(s) /\ Len(s) # 1 /\ 1 \in 1 .. Len(s) - 1 /\ 1 < k
      BY <1>1, <1>5, <2>3
    <3>2. windowQueue # q /\ windowQueue # h
      BY <1>5, <1>7, <1>9, <2>3, <3>1
    <3>3. f2[windowQueue] = s[1] /\ m[1] = s[1]
      BY <1>6, <1>8, <3>1, <3>2
    <3>4. QED
      BY <2>1, <3>1, <3>3
  <2>4. QED
    BY <2>2, <2>3
<1>12. ASSUME NEW i \in 1 .. Len(m) PROVE f2[m[i]] = IF i = Len(m) THEN NULL ELSE m[i + 1]
  <2>1. i \in 1 .. Len(s) - 1 /\ i + 1 \in 1 .. Len(s) /\ i \in 1 .. Len(s)
    BY <1>1, <1>6
  <2>2. CASE i < k - 1
    <3>1. /\ m[i] = s[i] /\ m[i + 1] = s[i + 1] /\ i # Len(s) /\ i # Len(m) /\ i # k
          /\ k # 1 /\ k - 1 \in 1 .. Len(s) /\ i # k - 1
      BY <1>1, <1>5, <1>6, <2>1, <2>2
    <3>2. s[i] # h /\ s[i] # q
      BY <1>5, <1>9, <2>1, <3>1 DEF Distinct, Spells
    <3>3. f2[s[i]] = f[s[i]]
      BY <1>7, <2>1, <3>2
    <3>4. QED
      BY <2>1, <3>1, <3>3 DEF Spells
  <2>3. CASE i = k - 1
    <3>1. m[i] = s[k - 1] /\ k # 1
      BY <1>1, <1>5, <1>6, <2>1, <2>3
    <3>2. f2[m[i]] = IF k = Len(s) THEN NULL ELSE s[k + 1]
      BY <1>9, <1>10, <3>1
    <3>3. k = Len(s) <=> i = Len(m)
      BY <1>1, <1>5, <1>6, <2>3
    <3>4. k # Len(s) => m[i + 1] = s[k + 1]
      BY <1>1, <1>5, <1>6, <2>1, <2>3
    <3>5. QED
      BY <3>2, <3>3, <3>4
  <2>4. CASE i >= k
    <3>1. m[i] = s[i + 1] /\ i + 1 # k /\ (k # 1 => k - 1 \in 1 .. Len(s) /\ i + 1 # k - 1)
      BY <1>1, <1>5, <1>6, <2>1, <2>4
    <3>2. s[i + 1] # h /\ s[i + 1] # q
      BY <1>5, <1>7, <1>9, <2>1, <3>1 DEF Distinct, Spells
    <3>3. f2[s[i + 1]] = f[s[i + 1]]
      BY <1>7, <2>1, <3>2
    <3>4. f[s[i + 1]] = IF i + 1 = Len(s) THEN NULL ELSE s[(i + 1) + 1]
      BY <2>1 DEF Spells
    <3>5. i + 1 = Len(s) <=> i = Len(m)
      BY <1>1, <1>6, <2>1
    <3>6. i + 1 # Len(s) => m[i + 1] = s[(i + 1) + 1]
      BY <1>1, <1>5, <1>6, <2>1, <2>4
    <3>7. QED
      BY <3>1, <3>3, <3>4, <3>5, <3>6
  <2>5. QED
    BY <1>1, <1>5, <2>1, <2>2, <2>3, <2>4
<1>13. QED
  BY <1>2, <1>3, <1>11, <1>12 DEF Spells

\* The first i windows of a sequence without repetitions are i windows.
LEMMA CountOfFirst ==
  ASSUME NEW s \in Seq(Slots), Distinct(s), NEW i \in 0 .. Len(s)
  PROVE  Cardinality({s[j] : j \in 1 .. i}) = i
<1>1. Len(s) \in Nat /\ i \in Nat /\ i <= Len(s)
  OBVIOUS
<1>2. PICK T : T = {s[j] : j \in 1 .. i}
  BY Zenon
<1>3. PICK b : b = [j \in 1 .. i |-> s[j]]
  BY Zenon
<1>4. \A j \in 1 .. i : j \in 1 .. Len(s) /\ b[j] = s[j]
  BY <1>1, <1>3
<1>5. b \in [1 .. i -> T] /\ \A t \in T : \E j \in 1 .. i : b[j] = t
  BY <1>2, <1>3
<1>6. \A j, k \in 1 .. i : b[j] = b[k] => j = k
  BY <1>4 DEF Distinct
<1>7. b \in Bijection(1 .. i, T)
  BY <1>5, <1>6 DEF Bijection, Injection, Surjection, IsInjective
<1>8. IsFiniteSet(1 .. i) /\ Cardinality(1 .. i) = i
  BY <1>1, FS_Interval
<1>9. Cardinality(T) = i
  BY <1>7, <1>8, FS_Bijection DEF ExistsBijection
<1>10. QED
  BY <1>2, <1>9

\* Going back from the i-th window visits the first i and the sentinel.
LEMMA BackFrom ==
  ASSUME NEW s \in Seq(Slots), NEW g, NEW i \in 1 .. Len(s),
         g[windowQueue] = NULL, g[s[1]] = windowQueue,
         \A j \in 2 .. Len(s) : g[s[j]] = s[j - 1]
  PROVE  Walk(s[i], g) = {s[j] : j \in 1 .. i} \cup {windowQueue}
<1>1. /\ Len(s) \in Nat /\ i \in Nat /\ i <= Len(s) /\ i >= 1
      /\ \A j \in 1 .. i : s[j] \in Slots /\ s[j] \in Nodes /\ s[j] # NULL
      /\ windowQueue \in Nodes /\ windowQueue # NULL
  BY PointersAssumption DEF Nodes
<1>2. PICK T : T = {s[j] : j \in 1 .. i} \cup {windowQueue}
  BY Zenon
<1>3. T \in Closed(s[i], g)
  <2>1. T \in SUBSET Nodes /\ s[i] \in T
    BY <1>1, <1>2
  <2>2. ASSUME NEW j \in 1 .. i PROVE g[s[j]] \in T
    <3>1. CASE j = 1
      BY <1>2, <3>1
    <3>2. CASE j # 1
      <4>1. j \in 2 .. Len(s) /\ j - 1 \in 1 .. i
        BY <1>1, <3>2
      <4>2. QED
        BY <1>2, <4>1
    <3>3. QED
      BY <3>1, <3>2
  <2>3. QED
    BY <1>2, <2>1, <2>2 DEF Closed
<1>4. ASSUME NEW S \in Closed(s[i], g) PROVE T \subseteq S
  <2>1. s[i] \in S /\ \A m \in S : g[m] \in S \cup {NULL}
    BY DEF Closed
  <2> DEFINE M == {j \in 1 .. i : s[j] \notin S}
  <2>2. M = {}
    <3>1. SUFFICES ASSUME M # {} PROVE FALSE
      OBVIOUS
    <3>2. M \in SUBSET (0 .. i)
      OBVIOUS
    <3>3. PICK k : k = Max(M)
      BY Zenon
    <3>4. k \in M /\ \A y \in M : y <= k
      BY <1>1, <3>1, <3>2, <3>3, MaxOfNats, Zenon
    <3>5. k # i /\ k + 1 \in 1 .. i /\ k \in Nat /\ k \in 1 .. i
      BY <1>1, <2>1, <3>4
    <3>6. k + 1 \notin M
      BY <3>4, <3>5
    <3>7. s[k + 1] \in S /\ k + 1 \in 2 .. Len(s) /\ (k + 1) - 1 = k
      BY <1>1, <3>5, <3>6
    <3>8. s[k] \in S \cup {NULL}
      BY <2>1, <3>7
    <3>9. QED
      BY <1>1, <3>4, <3>5, <3>8
  <2>3. \A j \in 1 .. i : s[j] \in S
    BY <2>2
  <2>4. s[1] \in S
    BY <1>1, <2>3
  <2>5. windowQueue \in S
    BY <1>1, <2>1, <2>4
  <2>6. QED
    BY <1>2, <2>3, <2>5
<1>5. QED
  BY <1>2, <1>3, <1>4, WalkVisits, Zenon

\* The refinement mapping finds the sequence that the links spell.
LEMMA OrderIsSpelled ==
  ASSUME NEW s, NEW f, NEW g, NEW z, NEW used, Spells(s, f), used = Range(s),
         Linked(f, g, windowQueue, z, used \cup {windowQueue})
  PROVE  OrderOf(used, g) = s
<1>1. s \in Seq(Slots) /\ Distinct(s) /\ Len(s) \in Nat
  BY DEF Spells
<1>2. used = {s[j] : j \in 1 .. Len(s)}
  BY <1>1 DEF Range
<1>3. \A j \in 1 .. Len(s) : s[j] \in used /\ s[j] # NULL /\ s[j] # windowQueue
  BY <1>1, <1>2, PointersAssumption DEF Nodes
<1>4. Leads(f, g, windowQueue, z, used \cup {windowQueue}) /\ g[windowQueue] = NULL
  BY DEF Linked, Leads
<1>5. \A n \in used \cup {windowQueue} : f[n] # NULL => g[f[n]] = n
  BY <1>4 DEF Leads
<1>6. Len(s) >= 1 => g[s[1]] = windowQueue
  <2>1. HAVE Len(s) >= 1
  <2>2. s # <<>> /\ 1 \in 1 .. Len(s)
    BY <1>1, <2>1
  <2>3. f[windowQueue] = s[1]
    BY <2>2 DEF Spells
  <2>4. QED
    BY <1>3, <1>5, <2>2, <2>3
<1>7. ASSUME NEW j \in 2 .. Len(s) PROVE g[s[j]] = s[j - 1]
  <2>1. j - 1 \in 1 .. Len(s) /\ j \in 1 .. Len(s) /\ j - 1 # Len(s) /\ (j - 1) + 1 = j
    BY <1>1
  <2>2. f[s[j - 1]] = s[j]
    BY <2>1 DEF Spells
  <2>3. QED
    BY <1>3, <1>5, <2>1, <2>2
<1>8. Cardinality(used) = Len(s)
  BY <1>1, <1>2, CountOfFirst
<1>9. ASSUME NEW i \in 1 .. Len(s) PROVE Cardinality(Walk(s[i], g) \ {windowQueue}) = i
  <2>1. Len(s) >= 1 /\ i \in 0 .. Len(s)
    BY <1>1
  <2>2. Walk(s[i], g) = {s[j] : j \in 1 .. i} \cup {windowQueue}
    BY <1>1, <1>4, <1>6, <1>7, <2>1, BackFrom, Zenon
  <2>3. \A j \in 1 .. i : s[j] # windowQueue
    BY <1>1, <1>3
  <2>4. Walk(s[i], g) \ {windowQueue} = {s[j] : j \in 1 .. i}
    BY <2>2, <2>3
  <2>5. QED
    BY <1>1, <2>1, <2>4, CountOfFirst
<1>10. ASSUME NEW i \in 1 .. Len(s)
       PROVE  (CHOOSE x \in used : Cardinality(Walk(x, g) \ {windowQueue}) = i) = s[i]
  <2>1. s[i] \in used /\ Cardinality(Walk(s[i], g) \ {windowQueue}) = i
    BY <1>3, <1>9
  <2>2. ASSUME NEW x \in used, Cardinality(Walk(x, g) \ {windowQueue}) = i PROVE x = s[i]
    <3>1. PICK j \in 1 .. Len(s) : x = s[j]
      BY <1>2
    <3>2. j = i
      BY <1>9, <2>2, <3>1
    <3>3. QED
      BY <3>1, <3>2
  <2>3. QED
    BY <2>1, <2>2
<1>11. OrderOf(used, g) = [i \in 1 .. Len(s) |-> s[i]]
  BY <1>8, <1>10, Zenon DEF OrderOf
<1>12. QED
  BY <1>1, <1>11

\* The list is linked both ways, and it spells Order.
ListLinked == Linked(next, prev, windowQueue, lastWindow, InUse \cup {windowQueue})

Ordered == Spells(Order, next) /\ Range(Order) = InUse

\* The invariant makes the list linked.
LEMMA InvLinked == Inv => ListLinked
BY QueueLinked DEF Inv, ListLinked, List

\* The same for the state after a step.
LEMMA InvLinkedNext == Inv' => ListLinked'
BY InvLinked, PTL

\* A sequence that the links after a step spell is Order after it.
LEMMA OrderNext ==
  ASSUME Inv', NEW t, Spells(t, next'), Range(t) = InUse'
  PROVE  Order' = t /\ Ordered'
<1>1. Linked(next', prev', windowQueue, lastWindow', InUse' \cup {windowQueue})
  BY InvLinkedNext DEF ListLinked
<1>2. OrderOf(InUse', prev') = t
  BY <1>1, OrderIsSpelled
<1>3. Order' = OrderOf(InUse', prev')
  BY DEF Order, OrderOf
<1>4. QED
  BY <1>2, <1>3 DEF Ordered

\* The top of the list is the last of the sequence.
LEMMA LastIsEnd ==
  ASSUME Inv, Ordered
  PROVE  End(Order) = lastWindow
<1>1. PICK s : s = Order
  OBVIOUS
<1>2. s \in Seq(Slots) /\ Len(s) \in Nat /\ Range(s) = InUse /\ Spells(s, next)
  BY <1>1 DEF Ordered, Spells
<1>3. Leads(next, prev, windowQueue, lastWindow, InUse \cup {windowQueue})
  BY InvLinked DEF ListLinked, Linked
<1>4. \A n \in InUse \cup {windowQueue} : n # lastWindow => next[n] # NULL
  BY <1>3, PointersAssumption DEF Leads
<1>5. CASE s = <<>>
  BY <1>1, <1>2, <1>4, <1>5 DEF End, Spells
<1>6. CASE s # <<>>
  <2>1. Len(s) \in 1 .. Len(s)
    BY <1>2, <1>6
  <2>2. s[Len(s)] \in InUse /\ next[s[Len(s)]] = NULL
    BY <1>2, <2>1 DEF Spells, Range
  <2>3. QED
    BY <1>1, <1>4, <1>6, <2>2 DEF End
<1>7. QED
  BY <1>5, <1>6

\* sys_createWindow opens the first unused slot on top.
LEMMA CreateMaps ==
  ASSUME Inv, Inv', Ordered, NEW p \in Procs, sys_createWindow(p)
  PROVE  /\ Ordered'
         /\ \E x \in Slots : /\ x \notin InUse /\ \A y \in Slots \ InUse : x <= y
                             /\ Order' = Append(Order, x)
<1>1. PICK x \in Slots : acquireWindow(x) /\ proc' = [proc EXCEPT ![x] = p] /\ addWindow(x)
  BY Zenon DEF sys_createWindow
<1>2. x \notin InUse /\ \A y \in Slots \ InUse : ~(y < x)
  BY <1>1 DEF acquireWindow, InUse
<1>3. \A y \in Slots \ InUse : x <= y
  <2>1. Slots \subseteq Int
    BY SlotsAssumption DEF Slots
  <2>2. QED
    BY <1>2, <2>1
<1>4. InUse' = InUse \cup {x}
  BY <1>1, ProcsAssumption DEF InUse, Inv, TypeOK
<1>5. next' = [next EXCEPT ![lastWindow] = x, ![x] = NULL]
  <2>1. PICK q \in Walk(windowQueue, next) :
          next[q] = NULL /\ next' = [next EXCEPT ![q] = x, ![x] = NULL]
    BY <1>1, Zenon DEF addWindow
  <2>2. Linked(next, prev, windowQueue, lastWindow, InUse \cup {windowQueue})
    BY InvLinked DEF ListLinked
  <2>3. q = lastWindow
    BY <2>1, <2>2, PointersAssumption DEF Linked, Leads
  <2>4. QED
    BY <2>1, <2>3
<1>6. PICK s : s = Order
  OBVIOUS
<1>7. Spells(s, next) /\ Range(s) = InUse /\ End(s) = lastWindow
  BY <1>6, LastIsEnd DEF Ordered
<1>8. /\ next \in [Nodes -> Slots \cup {NULL}] /\ lastWindow \in Nodes /\ x \in Nodes
      /\ x # lastWindow /\ InUse \subseteq Nodes /\ windowQueue \in Nodes
      /\ lastWindow \in InUse \cup {windowQueue} /\ x # windowQueue
  <2>1. lastWindow \in InUse \cup {windowQueue}
    BY InvLinked DEF ListLinked, Linked, Leads
  <2>2. QED
    BY <1>2, <2>1, PointersAssumption DEF Inv, TypeOK, Nodes, InUse
<1>9. /\ next'[lastWindow] = x /\ next'[x] = NULL
      /\ \A n \in (InUse \cup {windowQueue}) \ {lastWindow} : next'[n] = next[n]
  BY <1>2, <1>5, <1>8
<1>10. Spells(Append(s, x), next')
  BY <1>2, <1>7, <1>9, SpellsAppend
<1>11. Range(Append(s, x)) = InUse'
  BY <1>2, <1>4, <1>7, AppendToDistinct DEF Spells
<1>12. Order' = Append(s, x) /\ Ordered'
  BY <1>10, <1>11, OrderNext, Zenon
<1>13. QED
  BY <1>2, <1>3, <1>6, <1>12

\* sys_deleteWindow takes the window out of the sequence.
LEMMA DeleteMaps ==
  ASSUME Inv, Inv', Ordered, NEW p \in Procs, NEW h \in Slots \ {Desktop}, sys_deleteWindow(p, h)
  PROVE  Ordered' /\ h \in InUse /\ Order' = RemoveFirst(Order, h)
<1>1. PICK q \in Walk(windowQueue, next) :
        /\ next[q] = h
        /\ proc' = [proc EXCEPT ![h] = NoProc]
        /\ next' = [next EXCEPT ![q] = next[h]]
  BY Zenon DEF sys_deleteWindow
<1>2. Leads(next, prev, windowQueue, lastWindow, InUse \cup {windowQueue})
  BY InvLinked DEF ListLinked, Linked
<1>3. q \in InUse \cup {windowQueue} /\ h # NULL /\ h # windowQueue
  BY <1>1, <1>2, PointersAssumption DEF Leads, Nodes
<1>4. h \in InUse
  BY <1>1, <1>2, <1>3 DEF Leads
<1>5. InUse' = InUse \ {h}
  BY <1>1, ProcsAssumption DEF InUse, Inv, TypeOK
<1>6. PICK s : s = Order
  OBVIOUS
<1>7. Spells(s, next) /\ Range(s) = InUse
  BY <1>6 DEF Ordered
<1>8. next \in [Nodes -> Slots \cup {NULL}] /\ InUse \cup {windowQueue} \subseteq Nodes
  BY DEF Inv, TypeOK, Nodes, InUse
<1>9. next'[q] = next[h] /\ \A n \in (InUse \cup {windowQueue}) \ {q, h} : next'[n] = next[n]
  BY <1>1, <1>3, <1>8
<1>10. Spells(RemoveFirst(s, h), next')
  <2>1. PICK f : f = next'
    OBVIOUS
  <2>2. h \in Range(s) /\ q \in Range(s) \cup {windowQueue}
    BY <1>3, <1>4, <1>7
  <2>3. f[q] = next[h] /\ \A n \in (Range(s) \cup {windowQueue}) \ {q, h} : f[n] = next[n]
    BY <1>7, <1>9, <2>1
  <2>4. Spells(RemoveFirst(s, h), f)
    BY <1>1, <1>7, <2>2, <2>3, SpellsRemove
  <2>5. QED
    BY <2>1, <2>4
<1>11. Range(RemoveFirst(s, h)) = InUse'
  BY <1>4, <1>5, <1>7, RemoveFromDistinct DEF Spells
<1>12. QED
  BY <1>4, <1>6, <1>10, <1>11, OrderNext

\* reorderQueue takes the window out and puts it on top.
LEMMA ReorderMaps ==
  ASSUME Inv, Inv', Ordered, NEW q \in Slots, reorderQueue(q)
  PROVE  /\ Ordered' /\ q \in InUse /\ q # lastWindow /\ q # Desktop
         /\ Order' = Append(RemoveFirst(Order, q), q)
<1>1. /\ Leads(next, prev, windowQueue, lastWindow, InUse \cup {windowQueue})
      /\ Leads(prev, next, lastWindow, windowQueue, InUse \cup {windowQueue})
  BY InvLinked DEF ListLinked, Linked
<1>2. /\ q \in InUse /\ q # lastWindow /\ q # Desktop /\ q # windowQueue
      /\ lastWindow \in InUse \cup {windowQueue}
  BY <1>1 DEF reorderQueue, Leads
<1>3. /\ prev[q] \in InUse \cup {windowQueue} /\ prev[q] # lastWindow /\ next[prev[q]] = q
      /\ next[q] # q /\ prev[q] # q
  <2>1. next[q] # q
    BY <1>1, <1>2, NoSelfLoop
  <2>2. prev[q] # q
    BY <1>1, <1>2, NoSelfLoop
  <2>3. QED
    BY <1>1, <1>2, <2>1, <2>2 DEF Leads
<1>4. InUse' = InUse
  BY DEF reorderQueue, InUse
<1>5. PICK f : f = [next EXCEPT ![prev[q]] = next[q]]
  BY Zenon
<1>6. next' = [f EXCEPT ![lastWindow] = q, ![q] = NULL]
  BY <1>5 DEF reorderQueue, relink
<1>7. PICK s : s = Order
  OBVIOUS
<1>8. Spells(s, next) /\ Range(s) = InUse /\ End(s) = lastWindow
  BY <1>7, LastIsEnd DEF Ordered
<1>9. next \in [Nodes -> Slots \cup {NULL}] /\ InUse \cup {windowQueue} \subseteq Nodes
  BY DEF Inv, TypeOK, Nodes, InUse
<1>10. /\ f[prev[q]] = next[q]
       /\ \A n \in (InUse \cup {windowQueue}) \ {prev[q], q} : f[n] = next[n]
  BY <1>3, <1>5, <1>9
<1>11. PICK r : r = RemoveFirst(s, q)
  OBVIOUS
<1>12. Spells(r, f)
  BY <1>2, <1>3, <1>8, <1>10, <1>11, SpellsRemove
<1>13. Range(r) = InUse \ {q} /\ r \in Seq(Slots) /\ Distinct(r) /\ Len(r) \in Nat
  BY <1>2, <1>8, <1>11, RemoveFromDistinct DEF Spells
<1>14. End(r) = lastWindow
  <2>1. f[lastWindow] = NULL /\ lastWindow \in Range(r) \cup {windowQueue}
    BY <1>1, <1>2, <1>3, <1>10, <1>13 DEF Leads
  <2>2. \A i \in 1 .. Len(r) : r[i] # NULL /\ r[i] # windowQueue
    BY <1>13, PointersAssumption DEF Nodes
  <2>3. CASE r = <<>>
    <3>1. Range(r) = {}
      BY <2>3 DEF Range
    <3>2. QED
      BY <2>1, <2>3, <3>1 DEF End
  <2>4. CASE r # <<>>
    <3>1. 1 \in 1 .. Len(r)
      BY <1>13, <2>4
    <3>2. f[windowQueue] # NULL
      BY <1>12, <2>2, <2>4, <3>1 DEF Spells
    <3>3. PICK i \in 1 .. Len(r) : lastWindow = r[i]
      BY <1>13, <2>1, <3>2 DEF Range
    <3>4. i = Len(r)
      <4>1. i # Len(r) => f[r[i]] = r[i + 1] /\ i + 1 \in 1 .. Len(r)
        BY <1>12, <1>13, <3>3 DEF Spells
      <4>2. QED
        BY <2>1, <2>2, <3>3, <4>1
    <3>5. QED
      BY <2>4, <3>3, <3>4 DEF End
  <2>5. QED
    BY <2>3, <2>4
<1>15. /\ next'[lastWindow] = q /\ next'[q] = NULL
       /\ \A n \in (Range(r) \cup {windowQueue}) \ {lastWindow} : next'[n] = f[n]
  BY <1>2, <1>5, <1>6, <1>9, <1>13
<1>16. Spells(Append(r, q), next')
  BY <1>12, <1>13, <1>14, <1>15, SpellsAppend
<1>17. Range(Append(r, q)) = InUse'
  <2>1. Range(Append(r, q)) = Range(r) \cup {q}
    BY <1>13, AppendToDistinct
  <2>2. QED
    BY <1>2, <1>4, <1>13, <2>1
<1>18. QED
  BY <1>2, <1>7, <1>11, <1>16, <1>17, OrderNext, Zenon

\* ZOrder names the operators on sequences through its own instance.
LEMMA SameOperators ==
  ASSUME NEW l, NEW x
  PROVE  Z!Range(l) = Range(l) /\ Z!RemoveFirst(l, x) = RemoveFirst(l, x) /\ Z!Last(l) = Last(l)
<1>1. Z!Range(l) = Range(l)
  BY DEF Range, Z!Range
<1>2. Z!RemoveFirst(l, x) = RemoveFirst(l, x)
  BY Zenon DEF RemoveFirst, RemoveAt, Range, Z!RemoveFirst, Z!RemoveAt, Z!Range
<1>3. Z!Last(l) = Last(l)
  BY DEF Last, Z!Last
<1>4. QED
  BY <1>1, <1>2, <1>3

\* The window next to the header is the first of the sequence, and lastWindow
\* the last.
LEMMA EndsOfOrder ==
  ASSUME Inv, Ordered, InUse # {}
  PROVE  Order[1] = Desktop /\ Last(Order) = lastWindow
<1>1. PICK s : s = Order
  OBVIOUS
<1>2. s \in Seq(Slots) /\ Spells(s, next) /\ Range(s) = InUse /\ End(s) = lastWindow
  BY <1>1, LastIsEnd DEF Ordered, Spells
<1>3. s # <<>>
  BY <1>2 DEF Range
<1>4. s[1] = next[windowQueue]
  BY <1>2, <1>3 DEF Spells
<1>5. next[windowQueue] = Desktop
  BY DEF Inv, DesktopAtBottom
<1>6. QED
  BY <1>1, <1>2, <1>3, <1>4, <1>5 DEF End, Last

\* Every step of the list is a step of the sequence, or leaves it alone.
LEMMA NextMaps ==
  ASSUME Inv, Inv', Ordered, [Next]_vars
  PROVE  Ordered' /\ [Z!Next]_Order
<1>1. ASSUME UNCHANGED <<proc, next, prev>> PROVE Ordered' /\ [Z!Next]_Order
  <2>1. InUse' = InUse
    BY <1>1 DEF InUse
  <2>2. Order' = Order
    BY <1>1, <2>1 DEF Order
  <2>3. QED
    BY <1>1, <2>1, <2>2 DEF Ordered
<1>2. CASE \E p \in Procs : sys_createWindow(p)
  <2>1. PICK p \in Procs : sys_createWindow(p)
    BY <1>2
  <2>2. Ordered' /\ \E x \in Slots : /\ x \notin InUse /\ \A y \in Slots \ InUse : x <= y
                                    /\ Order' = Append(Order, x)
    BY <2>1, CreateMaps
  <2>3. \E x \in Slots : Z!Open(x)
    BY <2>2, SameOperators DEF Z!Open, Z!Opened, Ordered
  <2>4. QED
    BY <2>2, <2>3 DEF Z!Next
<1>3. CASE \E p \in Procs, h \in Slots \ {Desktop} : sys_deleteWindow(p, h)
  <2>1. PICK p \in Procs, h \in Slots \ {Desktop} : sys_deleteWindow(p, h)
    BY <1>3
  <2>2. Ordered' /\ h \in InUse /\ Order' = RemoveFirst(Order, h)
    BY <2>1, DeleteMaps
  <2>3. Z!Close(h)
    BY <2>1, <2>2, SameOperators, EndsOfOrder DEF Z!Close, Z!Opened, Ordered
  <2>4. QED
    BY <2>2, <2>3 DEF Z!Next
<1>4. CASE \E q \in Slots : reorderQueue(q)
  <2>1. PICK q \in Slots : reorderQueue(q)
    BY <1>4
  <2>2. /\ Ordered' /\ q \in InUse /\ q # lastWindow /\ q # Desktop
        /\ Order' = Append(RemoveFirst(Order, q), q)
    BY <2>1, ReorderMaps
  <2>3. Z!Raise(q)
    BY <2>2, SameOperators, EndsOfOrder DEF Z!Raise, Z!Opened, Ordered
  <2>4. QED
    BY <2>2, <2>3 DEF Z!Next
<1>5. CASE \E p \in Procs : redraw(p) \/ \E h \in Slots : sys_updateWindow(p, h)
  <2>1. UNCHANGED <<proc, next, prev>>
    BY <1>5 DEF redraw, sys_updateWindow, queue
  <2>2. QED
    BY <1>1, <2>1
<1>6. CASE UNCHANGED vars
  BY <1>1, <1>6 DEF vars, queue
<1>7. CASE Next
  BY <1>2, <1>3, <1>4, <1>5, <1>7 DEF Next
<1>8. QED
  BY <1>6, <1>7

\* The empty list is the empty sequence.
LEMMA InitMaps == Init => Ordered /\ Z!Init
<1> SUFFICES ASSUME Init PROVE Ordered /\ Z!Init
  OBVIOUS
<1>1. PICK s : s = Order
  OBVIOUS
<1>2. InUse = {} /\ next[windowQueue] = NULL
  BY PointersAssumption DEF Init, initWindow, InUse, Nodes
<1>3. s = <<>>
  <2>1. Cardinality(InUse) = 0
    BY <1>2, FS_EmptySet
  <2>2. QED
    BY <1>1, <2>1, FS_EmptySet DEF Order
<1>4. Range(s) = {} /\ s \in Seq(Slots) /\ Distinct(s) /\ Len(s) = 0
  BY <1>3 DEF Range, Distinct
<1>5. QED
  BY <1>1, <1>2, <1>3, <1>4 DEF Ordered, Spells, Z!Init

\* The doubly linked list of window.c implements the sequence of windows: for
\* every table size and every set of processes each step of the list opens one
\* window on top, takes one out, raises one, or leaves the order alone.
THEOREM ListIsZOrder == Spec => ImplementsZOrder
<1>1. Inv /\ Inv' /\ Ordered /\ [Next]_vars => Ordered' /\ [Z!Next]_Order
  BY NextMaps
<1>2. QED
  BY InitInv, NextInv, InitMaps, <1>1, PTL DEF Spec, ImplementsZOrder, Z!Spec
============================================================================
