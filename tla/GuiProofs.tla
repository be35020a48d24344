----------------------------- MODULE GuiProofs -----------------------------
(***************************************************************************)
(* Proofs about the windows under the mouse and the keyboard, for every    *)
(* screen, every set of window sizes that fit it, every number of windows  *)
(* and processes and every movement: no window leaves the screen or moves  *)
(* unless it is dragged, the top one is painted where it is, and a click   *)
(* reaches the window one sees.                                            *)
(***************************************************************************)
EXTENDS Gui, WellFoundedInduction, TLAPS

----------------------------------------------------------------------------
(* Facts about sets of numbers and about lists.                            *)

\* A non-empty set of naturals has a least element.
LEMMA MinOfNats ==
  ASSUME NEW S \in SUBSET Nat, S # {}
  PROVE  Min(S) \in S /\ \A y \in S : Min(S) <= y
<1> DEFINE R == {ss \in Nat \X Nat : ss[1] < ss[2]}
<1>1. IsWellFoundedOn(R, Nat)
  BY NatLessThanWellFounded DEF OpToRel
<1>2. PICK x \in S : \A y \in S : ~(<<y, x>> \in R)
  BY <1>1, WFMin, Zenon
<1>3. ASSUME NEW y \in S PROVE x <= y
  <2>1. ~(<<y, x>> \in R) /\ x \in Nat /\ y \in Nat
    BY <1>2
  <2>2. QED
    BY <2>1
<1>4. QED
  BY <1>3, Zenon DEF Min

\* The places of the elements when one is put at the end.
LEMMA Appended ==
  ASSUME NEW S, NEW l \in Seq(S), NEW b \in S
  PROVE  /\ Append(l, b) \in Seq(S) /\ Len(Append(l, b)) = Len(l) + 1
         /\ \A i \in 1 .. Len(l) : Append(l, b)[i] = l[i]
         /\ Append(l, b)[Len(l) + 1] = b
OBVIOUS

\* What RemoveAt leaves is a sequence.
LEMMA RemoveAtLeaves ==
  ASSUME NEW S, NEW l \in Seq(S), NEW k \in 1 .. Len(l)
  PROVE  /\ RemoveAt(l, k) \in Seq(S) /\ Len(RemoveAt(l, k)) = Len(l) - 1
         /\ \A i \in 1 .. Len(l) - 1 : RemoveAt(l, k)[i] = IF i < k THEN l[i] ELSE l[i + 1]
<1>1. Len(l) \in Nat /\ Len(l) - 1 \in Nat
  OBVIOUS
<1>2. PICK m : m = RemoveAt(l, k)
  OBVIOUS
<1>3. m = [j \in 1 .. Len(l) - 1 |-> IF j < k THEN l[j] ELSE l[j + 1]]
  BY <1>2 DEF RemoveAt
<1>4. \A i \in 1 .. Len(l) - 1 : l[i] \in S /\ l[i + 1] \in S
  BY <1>1
<1>5. m \in [1 .. Len(l) - 1 -> S]
  BY <1>3, <1>4
<1>6. m \in Seq(S) /\ Len(m) = Len(l) - 1
  BY <1>1, <1>5
<1>7. QED
  BY <1>2, <1>3, <1>6

\* RemoveFirst unlinks an element that the list has.
LEMMA RemoveFirstLeaves ==
  ASSUME NEW S, NEW l \in Seq(S), NEW b, \E i \in 1 .. Len(l) : l[i] = b
  PROVE  \E k \in 1 .. Len(l) : l[k] = b /\ RemoveFirst(l, b) = RemoveAt(l, k)
<1> DEFINE I == {i \in 1 .. Len(l) : l[i] = b}
<1>1. DOMAIN l = 1 .. Len(l) /\ Len(l) \in Nat /\ I \in SUBSET Nat /\ I # {}
  OBVIOUS
<1>2. Min(I) \in I /\ \A i \in I : Min(I) <= i
  BY <1>1, MinOfNats, Zenon
<1>3. PICK f \in 1 .. Len(l) : l[f] = b /\ \A i \in 1 .. Len(l) : l[i] = b => f <= i
  BY <1>2, Zenon
<1>4. \A j \in 1 .. f - 1 : l[j] # b
  BY <1>1, <1>3
<1>5. PICK k : k = CHOOSE i \in DOMAIN l : l[i] = b /\ \A j \in 1 .. i - 1 : l[j] # b
  OBVIOUS
<1>6. k \in 1 .. Len(l) /\ l[k] = b
  BY <1>1, <1>3, <1>4, <1>5, Zenon
<1>7. b \in Range(l)
  BY <1>1, <1>3 DEF Range
<1>8. RemoveFirst(l, b) = RemoveAt(l, k)
  BY <1>5, <1>7 DEF RemoveFirst
<1>9. QED
  BY <1>6, <1>8

\* A list without repetitions.
Distinct(l) == \A i, j \in 1..Len(l) : l[i] = l[j] => i = j

\* Taking an element out of a list without repetitions takes it out of the
\* elements, leaves the others, and repeats none.
LEMMA RemoveFromDistinct ==
  ASSUME NEW S, NEW l \in Seq(S), Distinct(l), NEW b \in Range(l)
  PROVE  /\ RemoveFirst(l, b) \in Seq(S)
         /\ Distinct(RemoveFirst(l, b))
         /\ Range(RemoveFirst(l, b)) = Range(l) \ {b}
<1>1. Len(l) \in Nat /\ \E i \in 1..Len(l) : l[i] = b
  BY DEF Range
<1>2. PICK k \in 1..Len(l) : l[k] = b /\ RemoveFirst(l, b) = RemoveAt(l, k)
  BY <1>1, RemoveFirstLeaves
<1>3. PICK m : m = RemoveFirst(l, b)
  OBVIOUS
<1>4. /\ m \in Seq(S) /\ Len(m) = Len(l) - 1
      /\ \A i \in 1..(Len(l) - 1) : m[i] = IF i < k THEN l[i] ELSE l[i+1]
  BY <1>2, <1>3, RemoveAtLeaves, Zenon
<1>5. Distinct(m)
  <2> DEFINE old(i) == IF i < k THEN i ELSE i+1
  <2> SUFFICES ASSUME NEW i \in 1..Len(m), NEW j \in 1..Len(m), m[i] = m[j] PROVE i = j
    BY DEF Distinct
  <2>1. m[i] = l[old(i)] /\ old(i) \in 1..Len(l) /\ m[j] = l[old(j)] /\ old(j) \in 1..Len(l)
    BY <1>1, <1>4
  <2>2. old(i) = old(j)
    BY <2>1, Zenon DEF Distinct
  <2> QED
    BY <2>2, <1>1, <1>4
<1>6. Range(m) = Range(l) \ {b}
  <2>1. DOMAIN m = 1..Len(m) /\ DOMAIN l = 1..Len(l)
    BY <1>4
  <2>2. ASSUME NEW i \in 1..Len(m) PROVE m[i] \in Range(l) \ {b}
    <3>1. CASE i < k
      <4>1. m[i] = l[i] /\ i \in 1..Len(l) /\ i # k
        BY <1>1, <1>4, <2>2, <3>1
      <4> QED
        BY <4>1, <1>2, <2>1 DEF Distinct, Range
    <3>2. CASE ~(i < k)
      <4>1. m[i] = l[i+1] /\ i+1 \in 1..Len(l) /\ i+1 # k
        BY <1>1, <1>4, <2>2, <3>2
      <4> QED
        BY <4>1, <1>2, <2>1 DEF Distinct, Range
    <3> QED
      BY <3>1, <3>2
  <2>3. ASSUME NEW j \in 1..Len(l), l[j] # b PROVE \E i \in 1..Len(m) : m[i] = l[j]
    <3>1. j # k
      BY <1>2, <2>3
    <3>2. CASE j < k
      <4>1. j \in 1..Len(m) /\ m[j] = l[j]
        BY <1>1, <1>4, <3>2
      <4> QED
        BY <4>1
    <3>3. CASE j > k
      <4>1. j - 1 \in 1..Len(m) /\ m[j - 1] = l[j]
        BY <1>1, <1>4, <3>3
      <4> QED
        BY <4>1
    <3> QED
      BY <3>1, <3>2, <3>3
  <2>4. Range(m) \subseteq Range(l) \ {b}
    BY <2>1, <2>2 DEF Range
  <2>5. ASSUME NEW x \in Range(l), x # b PROVE x \in Range(m)
    <3>1. PICK j \in 1..Len(l) : l[j] = x
      BY <2>1, <2>5 DEF Range
    <3>2. PICK i \in 1..Len(m) : m[i] = x
      BY <2>3, <2>5, <3>1
    <3> QED
      BY <2>1, <3>2 DEF Range
  <2> QED
    BY <2>4, <2>5
<1> QED
  BY <1>3, <1>4, <1>5, <1>6

\* A new element at the end of a list without repetitions.
LEMMA AppendToDistinct ==
  ASSUME NEW S, NEW l \in Seq(S), Distinct(l), NEW b \in S, b \notin Range(l)
  PROVE  /\ Append(l, b) \in Seq(S)
         /\ Distinct(Append(l, b))
         /\ Range(Append(l, b)) = Range(l) \cup {b}
         /\ Last(Append(l, b)) = b
<1>1. PICK m : m = Append(l, b)
  BY Zenon
<1>2. /\ m \in Seq(S) /\ Len(m) = Len(l) + 1 /\ Len(l) \in Nat
      /\ \A i \in 1..Len(l) : m[i] = l[i]
      /\ m[Len(l) + 1] = b
  BY <1>1, Appended
<1>3. DOMAIN m = 1..Len(m) /\ DOMAIN l = 1..Len(l)
  BY <1>2
<1>4. \A i \in 1..Len(l) : l[i] # b
  BY <1>3 DEF Range
<1>5. Distinct(m)
  BY <1>2, <1>4 DEF Distinct
<1>6. Range(m) = Range(l) \cup {b}
  <2>1. \A i \in 1..Len(m) : i \in 1..Len(l) \/ i = Len(l) + 1
    BY <1>2
  <2>2. 1..Len(l) \subseteq 1..Len(m) /\ Len(l) + 1 \in 1..Len(m)
    BY <1>2
  <2> QED
    BY <1>2, <1>3, <2>1, <2>2 DEF Range
<1> QED
  BY <1>1, <1>2, <1>5, <1>6 DEF Last

----------------------------------------------------------------------------
\* moveWindow's two corrections on one axis: whatever the movement, a window
\* that fits the screen and is on it stays on it.
LEMMA ShiftStays ==
  ASSUME NEW place \in Nat, NEW size \in Nat, NEW limit \in Nat, NEW d \in Int,
         place + size <= limit
  PROVE  /\ Shift(place, size, limit, d) \in Nat
         /\ Shift(place, size, limit, d) + size <= limit
<1>1. CASE place + d < 0
  BY <1>1 DEF Shift
<1>2. CASE ~(place + d < 0)
  BY <1>2 DEF Shift
<1> QED
  BY <1>1, <1>2

\* moveWindow keeps a window that is on the screen on it.
LEMMA MoveStays ==
  ASSUME NEW w \in FrameType, Inside(w), NEW dx \in Int, NEW dy \in Int
  PROVE  moveWindow(w, dx, dy) \in FrameType /\ Inside(moveWindow(w, dx, dy))
<1> DEFINE px == Shift(w.x, w.width, SCREEN_WIDTH, dx)
           py == Shift(w.y, w.height, SCREEN_HEIGHT, dy)
<1>1. /\ w.x \in Nat /\ w.width \in Nat /\ w.x + w.width <= SCREEN_WIDTH
      /\ w.y \in Nat /\ w.height \in Nat /\ w.y + w.height <= SCREEN_HEIGHT
      /\ SCREEN_WIDTH \in Nat /\ SCREEN_HEIGHT \in Nat
  BY GuiAssumption DEF FrameType, Inside
<1>2. px \in Nat /\ px + w.width <= SCREEN_WIDTH
  BY <1>1, ShiftStays, Zenon
<1>3. py \in Nat /\ py + w.height <= SCREEN_HEIGHT
  BY <1>1, ShiftStays, Zenon
<1>4. moveWindow(w, dx, dy) = [w EXCEPT !.x = px, !.y = py]
  BY DEF moveWindow
<1> HIDE DEF px, py
<1>5. PICK x0 \in Int, y0 \in Int, width \in Nat, height \in Nat :
        w = [x |-> x0, y |-> y0, width |-> width, height |-> height]
  BY DEF FrameType
<1>6. moveWindow(w, dx, dy) = [x |-> px, y |-> py, width |-> width, height |-> height]
  BY <1>4, <1>5, Zenon
<1> QED
  BY <1>2, <1>3, <1>5, <1>6 DEF Inside, FrameType

\* The places of the windows, on the screen.
Placed == win \in [Slots -> FrameType] /\ OnScreen

\* The list of windows is empty at first, and every slot holds the screen.
LEMMA InitPlaced == Init => Placed
  BY GuiAssumption DEF Init, Placed, OnScreen, Screen, FrameType, Inside

\* The screen itself is a place on the screen.
LEMMA ScreenInside == Screen \in FrameType /\ Inside(Screen)
  BY GuiAssumption DEF Screen, FrameType, Inside

\* Every step leaves the windows where they are, puts one at a place on the
\* screen, or moves one by moveWindow.
LEMMA NextPlaced == Placed /\ [Next]_vars => Placed'
<1> SUFFICES ASSUME Placed, [Next]_vars PROVE Placed'
  OBVIOUS
<1>1. CASE UNCHANGED win
  BY <1>1 DEF Placed, OnScreen
<1>2. ASSUME NEW p \in Procs, sys_createWindow(p) PROVE Placed'
  <2>1. PICK s \in Slots, w \in IF order = <<>> THEN {Screen} ELSE Frames :
          win' = [win EXCEPT ![s] = w]
    BY <1>2, Zenon DEF sys_createWindow
  <2>2. w \in FrameType /\ Inside(w)
    BY <2>1, ScreenInside, GuiAssumption
  <2> QED
    BY <2>1, <2>2 DEF Placed, OnScreen
<1>3. ASSUME NEW p \in Procs, sys_deleteWindow(p) PROVE Placed'
  <2>1. PICK s : win' = [win EXCEPT ![s] = Screen]
    BY <1>3, Zenon DEF sys_deleteWindow
  <2> QED
    BY <2>1, ScreenInside, Zenon DEF Placed, OnScreen
<1>4. ASSUME NEW dx \in Int, NEW dy \in Int, GoOnDragging(dx, dy) PROVE Placed'
  <2>1. CASE Fail("drag")
    BY <2>1, <1>1 DEF Fail, windows
  <2>2. CASE win' = [win EXCEPT ![pwque] = moveWindow(@, dx, dy)]
    <3>1. \A s \in Slots : moveWindow(win[s], dx, dy) \in FrameType
                           /\ Inside(moveWindow(win[s], dx, dy))
      BY MoveStays, GuiAssumption DEF Placed, OnScreen
    <3> QED
      BY <2>2, <3>1, Zenon DEF Placed, OnScreen
  <2> QED
    BY <1>4, <2>1, <2>2 DEF GoOnDragging
<1>5. ASSUME NEW dx \in Int, NEW dy \in Int, NEW e, handle(e, dx, dy) PROVE Placed'
  <2>1. handleLeftClick => UNCHANGED win
    BY DEF handleLeftClick, Fail, Ignore, windows
  <2>2. handleLeftDoubleClick => UNCHANGED win
    BY DEF handleLeftDoubleClick, Fail, windows
  <2>3. handleRightClick => UNCHANGED win
    BY DEF handleRightClick, Fail, Ignore, windows
  <2>4. handleMouseDrag(dx, dy) => UNCHANGED win \/ GoOnDragging(dx, dy)
    BY DEF handleMouseDrag, StartDrag, Fail, Ignore, windows
  <2>5. endDrag => UNCHANGED win
    BY DEF endDrag
  <2> QED
    BY <1>1, <1>4, <1>5, <2>1, <2>2, <2>3, <2>4, <2>5 DEF handle
<1>6. ASSUME NEW l \in BOOLEAN, NEW r \in BOOLEAN, NEW quick \in BOOLEAN,
             NEW dx \in Int, NEW dy \in Int,
             updateMouseEvent(l, r, quick, dx, dy)
      PROVE  Placed'
  <2>1. \/ handle(EventOf(l, r, quick), dx, dy)
        \/ Fail("idle")
    BY <1>6 DEF updateMouseEvent
  <2> QED
    BY <2>1, <1>1, <1>5 DEF Fail, windows
<1>7. ASSUME NEW p \in Procs, redraw(p) \/ sys_updateWindow(p)
      PROVE  Placed'
  BY <1>1, <1>7 DEF redraw, sys_updateWindow
<1>8. CASE keyboardHandler
  BY <1>1, <1>8 DEF keyboardHandler, Fail, windows
<1>9. CASE Halted \/ UNCHANGED vars
  BY <1>1, <1>9 DEF Halted, vars, windows
<1> QED
  <2>1. \A d \in Motions : d[1] \in Int /\ d[2] \in Int
    BY GuiAssumption
  <2> QED
    BY <2>1, <1>2, <1>3, <1>6, <1>7, <1>8, <1>9 DEF Next

\* No window ever leaves the screen, whatever is opened, closed and dragged,
\* and in whatever order (moveWindow, window.c).
THEOREM WindowsStayOnScreen == Spec => []OnScreen
<1>1. Placed => OnScreen
  BY DEF Placed
<1> QED
  BY <1>1, InitPlaced, NextPlaced, PTL DEF Spec

----------------------------------------------------------------------------
(* The list of windows.                                                    *)

\* The list holds windows of the table, none twice, and the pointer is a pair
\* of integers.
Listed ==
  /\ order \in Seq(Slots) /\ Distinct(order)
  /\ mouse \in [x : Int, y : Int]

\* The list is empty at boot.
LEMMA InitListed == Init => Listed
<1> SUFFICES ASSUME Init PROVE Listed
  OBVIOUS
<1>1. order = <<>> /\ order \in Seq(Slots) /\ Len(order) = 0
  BY DEF Init
<1>2. mouse \in [x : Int, y : Int]
  BY GuiAssumption DEF Init
<1> QED
  BY <1>1, <1>2 DEF Listed, Distinct

\* ZOrder's operators on sequences are those used here.
LEMMA SameOperators ==
  ASSUME NEW l, NEW x
  PROVE  Z!Range(l) = Range(l) /\ Z!RemoveFirst(l, x) = RemoveFirst(l, x)
<1>1. Z!Range(l) = Range(l)
  BY DEF Range, Z!Range
<1>2. Z!RemoveFirst(l, x) = RemoveFirst(l, x)
  BY Zenon DEF RemoveFirst, RemoveAt, Range, Z!RemoveFirst, Z!RemoveAt, Z!Range
<1> QED
  BY <1>1, <1>2

\* The first window opens, another closes, and one is raised: what is in the
\* list changes by that window alone.
LEMMA OpenListed ==
  ASSUME Listed, NEW s, Z!Open(s)
  PROVE  /\ order' \in Seq(Slots) /\ Distinct(order')
         /\ s \in Slots /\ s \notin InQueue
<1>1. s \in Slots /\ s \notin Range(order) /\ order' = Append(order, s)
  BY SameOperators DEF Z!Open, Z!Opened
<1> QED
  BY <1>1, AppendToDistinct DEF Listed, InQueue

\* sys_deleteWindow leaves every other window in the list once.
LEMMA CloseListed ==
  ASSUME Listed, NEW s, Z!Close(s)
  PROVE  /\ order' \in Seq(Slots) /\ Distinct(order')
         /\ s \notin Range(order')
<1>1. s \in Range(order) /\ order' = RemoveFirst(order, s)
  BY SameOperators DEF Z!Close, Z!Opened
<1> QED
  BY <1>1, RemoveFromDistinct DEF Listed

\* reorderQueue keeps every window in the list once and puts s on top.
LEMMA RaiseListed ==
  ASSUME Listed, NEW s, Z!Raise(s)
  PROVE  /\ order' \in Seq(Slots) /\ Distinct(order')
         /\ Last(order') = s
<1>1. s \in Range(order) /\ order' = Append(RemoveFirst(order, s), s)
  BY SameOperators DEF Z!Raise, Z!Opened
<1>2. s \in Slots
  BY <1>1 DEF Listed, Range
<1>3. PICK m : m = RemoveFirst(order, s)
  OBVIOUS
<1>4. m \in Seq(Slots) /\ Distinct(m) /\ s \notin Range(m)
  BY <1>1, <1>3, RemoveFromDistinct DEF Listed
<1> QED
  BY <1>1, <1>2, <1>3, <1>4, AppendToDistinct

\* The handlers of the mouse change the list by raising a window, or not at all.
LEMMA HandleOrder ==
  ASSUME NEW e, NEW dx, NEW dy, handle(e, dx, dy)
  PROVE  UNCHANGED order \/ \E s : Z!Raise(s)
<1>1. handleLeftClick => UNCHANGED order \/ \E s : Z!Raise(s)
  BY DEF handleLeftClick, Fail, Ignore, windows, reorderQueue
<1>2. handleLeftDoubleClick => UNCHANGED order
  BY DEF handleLeftDoubleClick, Fail, windows
<1>3. handleRightClick => UNCHANGED order
  BY DEF handleRightClick, Fail, Ignore, windows
<1>4. handleMouseDrag(dx, dy) => UNCHANGED order \/ \E s : Z!Raise(s)
  BY DEF handleMouseDrag, StartDrag, GoOnDragging, Fail, Ignore, windows, reorderQueue
<1>5. endDrag => UNCHANGED order
  BY DEF endDrag
<1> QED
  BY <1>1, <1>2, <1>3, <1>4, <1>5 DEF handle

\* setMousePosition keeps the pointer's place a number.
LEMMA MouseStaysNumber ==
  ASSUME mouse \in [x : Int, y : Int], NEW dx \in Int, NEW dy \in Int,
         moveMousePosition(dx, dy)
  PROVE  mouse' \in [x : Int, y : Int]
<1>1. /\ mouse.x + dx \in Int /\ mouse.y + dy \in Int
      /\ SCREEN_WIDTH \in Int /\ SCREEN_HEIGHT \in Int
  BY GuiAssumption
<1>2. Clip(mouse.x + dx, SCREEN_WIDTH) \in Int /\ Clip(mouse.y + dy, SCREEN_HEIGHT) \in Int
  BY <1>1 DEF Clip
<1> QED
  BY <1>2 DEF moveMousePosition

\* Every step keeps each window in the list at most once.
LEMMA NextListed == Listed /\ [Next]_vars => Listed'
<1> SUFFICES ASSUME Listed, [Next]_vars PROVE Listed'
  OBVIOUS
<1>1. CASE UNCHANGED <<order, mouse>>
  BY <1>1 DEF Listed
<1>2. ASSUME NEW p \in Procs, sys_createWindow(p) PROVE Listed'
  BY <1>2, OpenListed DEF sys_createWindow, Listed
<1>3. ASSUME NEW p \in Procs, sys_deleteWindow(p) PROVE Listed'
  BY <1>3, CloseListed DEF sys_deleteWindow, Listed
<1>4. ASSUME NEW l \in BOOLEAN, NEW r \in BOOLEAN, NEW quick \in BOOLEAN,
             NEW dx \in Int, NEW dy \in Int,
             updateMouseEvent(l, r, quick, dx, dy)
      PROVE  Listed'
  <2>1. UNCHANGED order \/ \E s : Z!Raise(s)
    BY <1>4, HandleOrder DEF updateMouseEvent, Fail, windows
  <2>2. order' \in Seq(Slots) /\ Distinct(order')
    BY <2>1, RaiseListed DEF Listed
  <2>3. mouse' \in [x : Int, y : Int]
    BY <1>4, MouseStaysNumber DEF updateMouseEvent, Listed
  <2> QED
    BY <2>2, <2>3 DEF Listed
<1>5. ASSUME NEW p \in Procs, redraw(p) \/ sys_updateWindow(p)
      PROVE  Listed'
  BY <1>1, <1>5 DEF redraw, sys_updateWindow
<1>6. CASE keyboardHandler
  BY <1>1, <1>6 DEF keyboardHandler, Fail, windows
<1>7. CASE Halted \/ UNCHANGED vars
  BY <1>1, <1>7 DEF Halted, vars, windows
<1> QED
  <2>1. \A d \in Motions : d[1] \in Int /\ d[2] \in Int
    BY GuiAssumption
  <2> QED
    BY <2>1, <1>2, <1>3, <1>4, <1>5, <1>6, <1>7 DEF Next

\* No interleaving of system calls and mouse packets lists a window twice.
LEMMA AlwaysListed == Spec => []Listed
BY InitListed, NextListed, PTL DEF Spec

----------------------------------------------------------------------------
(* The top window is painted where it is.                                  *)

\* TopInPlace needs the values of pc to be inductive: it speaks of no drag and
\* no system call under way, and both end by painting the top window.
Painted == pc \in [Procs -> {"user", "redraw"}] /\ TopInPlace

\* A step that leaves the list and the drag alone and paints more than before.
LEMMA PaintsMore ==
  ASSUME Painted, pc' = pc, order' = order, stale' \subseteq stale,
         drag_state' = drag_state \/ drag_state # 1
  PROVE  Painted'
BY DEF Painted, TopInPlace, lastWindow

\* A step after which nothing is stale.
LEMMA PaintsAll ==
  ASSUME Painted, pc' \in [Procs -> {"user", "redraw"}], stale' = {}
  PROVE  Painted'
BY DEF Painted, TopInPlace

\* A step after which a drag is under way.
LEMMA DragsOn ==
  ASSUME Painted, pc' = pc, drag_state' = 1
  PROVE  Painted'
BY DEF Painted, TopInPlace

\* A step after which a system call has still to paint.
LEMMA CallPaintsLater ==
  ASSUME Painted, NEW p \in Procs, pc' = [pc EXCEPT ![p] = "redraw"]
  PROVE  Painted'
<1>1. pc' \in [Procs -> {"user", "redraw"}] /\ pc'[p] = "redraw"
  BY DEF Painted
<1> QED
  BY <1>1 DEF Painted, TopInPlace

\* The handlers of the mouse.
LEMMA HandlePaints ==
  ASSUME Painted, NEW e, NEW dx, NEW dy, handle(e, dx, dy)
  PROVE  Painted'
<1>1. ASSUME NEW what, Fail(what) PROVE Painted'
  BY <1>1, PaintsMore DEF Fail, windows, drag
<1>2. CASE Ignore
  BY <1>2, PaintsMore DEF Ignore, windows, drag
<1>3. ASSUME NEW s, reorderQueue(s) PROVE Painted'
  BY <1>3, PaintsAll DEF reorderQueue, Painted
<1>4. CASE handleLeftClick
  <2>1. CASE UNCHANGED <<windows, drag>>
    BY <2>1, PaintsMore DEF windows, drag
  <2> QED
    BY <1>1, <1>2, <1>3, <1>4, <2>1 DEF handleLeftClick
<1>5. CASE handleLeftDoubleClick
  <2>1. CASE UNCHANGED <<windows, drag>>
    BY <2>1, PaintsMore DEF windows, drag
  <2> QED
    BY <1>1, <1>5, <2>1 DEF handleLeftDoubleClick
<1>6. CASE handleRightClick
  BY <1>1, <1>2, <1>6 DEF handleRightClick
<1>7. CASE drag_state = 0 /\ StartDrag(mouse.x + dx, mouse.y + dy)
  <2>1. CASE UNCHANGED windows
    BY <1>7, <2>1, PaintsMore DEF windows
  <2> QED
    BY <1>1, <1>3, <1>7, <2>1 DEF StartDrag
<1>8. CASE drag_state = 1 /\ GoOnDragging(dx, dy)
  BY <1>1, <1>8, DragsOn DEF GoOnDragging
<1>9. CASE endDrag
  <2>1. CASE drag_state = 1
    <3>1. pc' = pc /\ order' = order /\ stale' = stale \ {lastWindow}
      BY <1>9, <2>1 DEF endDrag
    <3> QED
      BY <3>1 DEF Painted, TopInPlace, lastWindow
  <2>2. CASE drag_state # 1
    BY <1>9, <2>2, PaintsMore DEF endDrag
  <2> QED
    BY <2>1, <2>2
<1> QED
  BY <1>2, <1>4, <1>5, <1>6, <1>7, <1>8, <1>9 DEF handle, handleMouseDrag

\* Every step leaves the top window painted where it is, or a redraw pending.
LEMMA NextPaints == Painted /\ [Next]_vars => Painted'
<1> SUFFICES ASSUME Painted, [Next]_vars PROVE Painted'
  OBVIOUS
<1>1. CASE UNCHANGED <<windows, drag>>
  BY <1>1, PaintsMore DEF windows, drag
<1>2. ASSUME NEW p \in Procs, sys_createWindow(p) \/ sys_deleteWindow(p)
      PROVE  Painted'
  BY <1>2, CallPaintsLater DEF sys_createWindow, sys_deleteWindow
<1>3. ASSUME NEW p \in Procs, redraw(p) PROVE Painted'
  BY <1>3, PaintsAll DEF redraw, Painted
<1>4. ASSUME NEW p \in Procs, sys_updateWindow(p) PROVE Painted'
  <2>1. stale' \subseteq stale
    BY <1>4 DEF sys_updateWindow
  <2> QED
    BY <1>4, <2>1, PaintsMore DEF sys_updateWindow, drag
<1>5. ASSUME NEW l, NEW r, NEW quick, NEW dx, NEW dy,
             updateMouseEvent(l, r, quick, dx, dy)
      PROVE  Painted'
  BY <1>1, <1>5, HandlePaints DEF updateMouseEvent, Fail
<1>6. CASE keyboardHandler
  <2>1. CASE \E what : Fail(what)
    BY <1>1, <2>1 DEF Fail
  <2>2. CASE stale' \in {stale, stale \ {lastWindow}} /\ UNCHANGED <<order, pc, drag>>
    BY <2>2, PaintsMore DEF drag
  <2> QED
    BY <1>6, <2>1, <2>2 DEF keyboardHandler
<1>7. CASE Halted \/ UNCHANGED vars
  BY <1>1, <1>7 DEF Halted, vars
<1> QED
  BY <1>2, <1>3, <1>4, <1>5, <1>6, <1>7 DEF Next

\* Once a drag is over and no system call is between its change and its
\* painting, the top window is painted where it is (TopInPlace), for every
\* number of windows and processes and however often moveWindow repaints.
THEOREM TopIsPainted == Spec => []TopInPlace
<1>1. Init => Painted
  BY DEF Init, Painted, TopInPlace
<1>2. Painted => TopInPlace
  BY DEF Painted
<1> QED
  BY <1>1, <1>2, NextPaints, PTL DEF Spec

----------------------------------------------------------------------------
(* A window moves only while it is dragged.                                *)

\* A packet moves a window only in the middle of a drag.
LEMMA PacketMoves ==
  ASSUME NEW l \in BOOLEAN, NEW r \in BOOLEAN, NEW quick \in BOOLEAN, NEW dx, NEW dy,
         left_btn_down \in BOOLEAN, right_btn_down \in BOOLEAN,
         updateMouseEvent(l, r, quick, dx, dy),
         NEW s, win'[s] # win[s]
  PROVE  left_btn_down /\ left_btn_down' /\ pwque = s
<1>1. PICK e : e = EventOf(l, r, quick)
  OBVIOUS
<1>2. ~UNCHANGED win
  OBVIOUS
<1>3. handle(e, dx, dy)
  BY <1>1, <1>2 DEF updateMouseEvent, Fail, windows
<1>4. ~handleLeftClick
  BY <1>2 DEF handleLeftClick, Fail, Ignore, windows
<1>5. ~handleLeftDoubleClick
  BY <1>2 DEF handleLeftDoubleClick, Fail, windows
<1>6. ~handleRightClick
  BY <1>2 DEF handleRightClick, Fail, Ignore, windows
<1>7. ~endDrag
  BY <1>2 DEF endDrag
<1>8. e = "MOUSE_DRAGGING" /\ handleMouseDrag(dx, dy)
  BY <1>3, <1>4, <1>5, <1>6, <1>7 DEF handle
<1>9. win' = [win EXCEPT ![pwque] = moveWindow(@, dx, dy)]
  BY <1>2, <1>8 DEF handleMouseDrag, StartDrag, GoOnDragging, Fail, Ignore, windows
<1>10. pwque = s
  BY <1>9
<1>11. l /\ left_btn_down
  BY <1>1, <1>8 DEF EventOf, LeftEvent
<1>12. left_btn_down' = l
  BY DEF updateMouseEvent, updateButtons
<1> QED
  BY <1>10, <1>11, <1>12

\* The buttons are up or down.
ButtonsType == left_btn_down \in BOOLEAN /\ right_btn_down \in BOOLEAN

\* The button state mouse.c keeps between packets is a pair of Booleans.
LEMMA AlwaysButtons == Spec => []ButtonsType
<1>1. Init => ButtonsType
  BY Zenon DEF Init, InitButtons, ButtonsType
<1>2. ButtonsType /\ [Next]_vars => ButtonsType'
  <2> SUFFICES ASSUME ButtonsType, [Next]_vars PROVE ButtonsType'
    OBVIOUS
  <2>1. CASE UNCHANGED buttons
    BY <2>1 DEF ButtonsType, buttons
  <2>2. ASSUME NEW l \in BOOLEAN, NEW r \in BOOLEAN, NEW quick, NEW dx, NEW dy,
               updateMouseEvent(l, r, quick, dx, dy)
        PROVE  ButtonsType'
    BY <2>2 DEF updateMouseEvent, updateButtons, ButtonsType
  <2> QED
    BY <2>1, <2>2 DEF Next, sys_createWindow, sys_deleteWindow, redraw, sys_updateWindow,
                      keyboardHandler, Halted, vars
<1> QED
  BY <1>1, <1>2, PTL DEF Spec

\* Only handleMouseDrag moves a listed window, and only the one it holds.
LEMMA NextMoves ==
  ASSUME Listed, ButtonsType, Next,
         NEW s \in InQueue \cap Range(order'), win'[s] # win[s]
  PROVE  left_btn_down /\ left_btn_down' /\ pwque = s
<1>1. ASSUME NEW p \in Procs, sys_createWindow(p) PROVE FALSE
  <2>1. PICK t, w : Z!Open(t) /\ win' = [win EXCEPT ![t] = w]
    BY <1>1, Zenon DEF sys_createWindow
  <2>2. s = t
    BY <2>1
  <2> QED
    BY <2>1, <2>2, OpenListed
<1>2. ASSUME NEW p \in Procs, sys_deleteWindow(p) PROVE FALSE
  <2>1. PICK t, w : Z!Close(t) /\ win' = [win EXCEPT ![t] = w]
    BY <1>2, Zenon DEF sys_deleteWindow
  <2>2. s = t
    BY <2>1
  <2> QED
    BY <2>1, <2>2, CloseListed
<1>3. ~UNCHANGED win
  OBVIOUS
<1>4. ASSUME NEW p \in Procs, redraw(p) \/ sys_updateWindow(p) PROVE FALSE
  BY <1>3, <1>4 DEF redraw, sys_updateWindow
<1>5. ~keyboardHandler /\ ~Halted
  BY <1>3 DEF keyboardHandler, Fail, windows, Halted, vars
<1>6. PICK l \in BOOLEAN, r \in BOOLEAN, quick \in BOOLEAN, d \in Motions :
        updateMouseEvent(l, r, quick, d[1], d[2])
  BY <1>1, <1>2, <1>4, <1>5 DEF Next
<1> QED
  BY <1>6, PacketMoves DEF ButtonsType

\* A window that stays open moves only while the left button is held and only
\* by a packet of its own drag (MovesOnlyHeld), whatever is opened, closed and
\* raised meanwhile.
THEOREM WindowsMoveOnlyHeld == Spec => MovesOnlyHeld
<1>1. Listed /\ ButtonsType /\ [Next]_vars =>
        [\A s \in InQueue \cap Range(order') :
           win'[s] # win[s] => left_btn_down /\ left_btn_down' /\ pwque = s]_vars
  BY NextMoves
<1> QED
  BY <1>1, AlwaysListed, AlwaysButtons, PTL DEF Spec, MovesOnlyHeld

----------------------------------------------------------------------------
(* A click reaches the window under the pointer.                           *)

\* handleLeftClick where it does not fail.
LEMMA LeftClickReaches ==
  ASSUME Listed, handleLeftClick, fault' = "none"
  PROVE  LET s == Topmost(mouse.x, mouse.y)
         IN  /\ s # Desktop => Last(order') = s
             /\ hit' \in {NULL, Last(order')}
             /\ \/ s = Desktop /\ lastWindow # Desktop
                \/ focusIcon' \in {NULL, owner'[Last(order')]}
<1>1. PICK s : s = Topmost(mouse.x, mouse.y)
  OBVIOUS
<1>2. ~Fail("walk") /\ ~Fail("focus")
  BY DEF Fail
<1>3. CASE s = Desktop /\ s # lastWindow /\ Ignore
  BY <1>1, <1>3 DEF Ignore
<1>4. CASE s = lastWindow /\ UNCHANGED windows /\ ClickWidget(s)
  <2>1. Last(order') = s /\ owner' = owner
    BY <1>4 DEF windows, lastWindow, Last
  <2> QED
    BY <1>1, <1>4, <2>1 DEF ClickWidget
<1>5. CASE reorderQueue(s) /\ ClickWidget(s)
  <2>1. Last(order') = s /\ owner' = owner
    BY <1>5, RaiseListed DEF reorderQueue
  <2> QED
    BY <1>1, <1>5, <2>1 DEF ClickWidget
<1> QED
  BY <1>1, <1>2, <1>3, <1>4, <1>5 DEF handleLeftClick

\* A LEFT_CLICK that ends without a fault went through handleLeftClick whole.
LEMMA ClickReaches ==
  ASSUME Listed, Next, event' = "LEFT_CLICK", event # "LEFT_CLICK", fault' = "none"
  PROVE  handleLeftClick
<1>1. ~UNCHANGED buttons
  BY DEF buttons
<1>2. PICK l \in BOOLEAN, r \in BOOLEAN, quick \in BOOLEAN, d \in Motions :
        updateMouseEvent(l, r, quick, d[1], d[2])
  BY <1>1 DEF Next, sys_createWindow, sys_deleteWindow, redraw, sys_updateWindow,
              keyboardHandler, Halted, vars
<1>3. EventOf(l, r, quick) = "LEFT_CLICK"
  BY <1>2 DEF updateMouseEvent, updateButtons
<1>4. handle("LEFT_CLICK", d[1], d[2])
  BY <1>2, <1>3 DEF updateMouseEvent, Fail
<1> QED
  BY <1>4 DEF handle

\* A left click goes to the window one sees under the pointer (ClickReachesTop),
\* for every number of windows and whatever their places and their order.
THEOREM ClicksReachTop == Spec => ClickReachesTop
<1>1. Listed /\ [Next]_vars =>
        [(event' = "LEFT_CLICK" /\ event # "LEFT_CLICK" /\ fault' = "none")
           => LET s == Topmost(mouse.x, mouse.y)
              IN  /\ s # Desktop => Last(order') = s
                  /\ hit' \in {NULL, Last(order')}
                  /\ \/ s = Desktop /\ lastWindow # Desktop
                     \/ focusIcon' \in {NULL, owner'[Last(order')]}]_vars
  BY ClickReaches, LeftClickReaches
<1> QED
  BY <1>1, AlwaysListed, PTL DEF Spec, ClickReachesTop
============================================================================
