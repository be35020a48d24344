---------------------------- MODULE WindowQueue ----------------------------
(***************************************************************************)
(* The kernel's window list (window.c): a table windowLine of slots, a     *)
(* doubly linked list threaded through the slots in use, from the sentinel *)
(* windowQueue (bottom) to lastWindow (top, the one with the focus), and   *)
(* what of that list is painted (updateBackWindows and updateLastWindow of *)
(* gui.c).                                                                 *)
(*                                                                         *)
(* Atomicity is that of the default build, one CPU (Makefile, CPUS := 1):  *)
(* a section under a spinlock runs with interrupts off, and so does a      *)
(* whole mouse interrupt.  A system call can be interrupted or preempted   *)
(* between release(&window_lock) and updateBackWindows(), which is the     *)
(* state pc[p] = "redraw".                                                 *)
(*                                                                         *)
(* A slot's proc and window fields are set and cleared together; proc      *)
(* stands for both.                                                        *)
(***************************************************************************)
EXTENDS Integers, FiniteSets

CONSTANTS
  MAX_WINDOW_NUM,  \* slots of windowLine
  Procs,           \* processes that own windows
  NoProc,          \* proc == 0
  windowQueue,     \* &windowQueue, the sentinel
  NULL             \* a null WindowQueue pointer

Slots == 0 .. MAX_WINDOW_NUM - 1

Nodes == Slots \cup {windowQueue}

\* windowLine[0]: the desktop makes the first window and never deletes it
\* (desktop.c), so it always owns the first slot.
Desktop == 0

ASSUME SlotsAssumption == MAX_WINDOW_NUM \in Nat \ {0}

ASSUME PointersAssumption == windowQueue \notin Slots /\ NULL \notin Nodes

ASSUME ProcsAssumption == NoProc \notin Procs

VARIABLES
  proc,         \* windowLine[x].proc
  next, prev,   \* the links of the slots and of the sentinel
  lastWindow,   \* the top of the list
  temp1,        \* screen_temp1: the back windows painted, with their order
  top,          \* the window painted over screen_temp1 in screen_temp2
  pc            \* "redraw": between release(&window_lock) and the redraw

queue == <<proc, next, prev, lastWindow>>

painted == <<temp1, top>>

vars == <<queue, painted, pc>>

----------------------------------------------------------------------------
\* What a pointer walk from n along f visits: the least set with n closed
\* under f.
Closed(n, f) == {S \in SUBSET Nodes : n \in S /\ \A m \in S : f[m] \in S \cup {NULL}}

Walk(n, f) == {m \in Nodes : \A S \in Closed(n, f) : m \in S}

InUse == {x \in Slots : proc[x] # NoProc}

List == InUse \cup {windowQueue}

\* The painting order of the windows in front of the sentinel and behind
\* lastWindow: <<m, n>> when m is n or is painted before n.
Behind == {mn \in Slots \X Slots :
             /\ mn[1] \in Walk(windowQueue, next) \ {lastWindow}
             /\ mn[2] \in Walk(mn[1], next) \ {lastWindow}}

----------------------------------------------------------------------------
initWindow ==
  /\ proc = [x \in Slots |-> NoProc]
  /\ next = [n \in Nodes |-> NULL]
  /\ prev = [n \in Nodes |-> NULL]
  /\ lastWindow = windowQueue

Init ==
  /\ initWindow
  /\ temp1 = {}
  /\ top = windowQueue
  /\ pc = [p \in Procs |-> "user"]

\* Variant: the scan takes the last free slot.
acquireLast(x) ==
  /\ proc[x] = NoProc
  /\ x = 0 \/ (proc[0] # NoProc /\ \A y \in Slots : y > x => proc[y] # NoProc)

\* The first slot without an owner; no x satisfies it when the table is full.
acquireWindow(x) ==
  /\ proc[x] = NoProc
  /\ \A y \in Slots : y < x => proc[y] # NoProc

addWindow(x) ==
  \E q \in Walk(windowQueue, next) :
    /\ next[q] = NULL
    /\ next' = [next EXCEPT ![q] = x, ![x] = NULL]
    /\ prev' = [prev EXCEPT ![x] = q]
    /\ lastWindow' = x

\* drawBackWindows into a cleared screen_temp1, then drawLastWindow over it.
updateBackWindows ==
  /\ temp1' = Behind
  /\ top' = lastWindow

\* removeLastWindow restores from screen_temp1 what the top window covered,
\* drawLastWindow paints it anew.
updateLastWindow ==
  /\ top' = lastWindow
  /\ UNCHANGED temp1

\* A full table makes the call return -1 and change nothing.
sys_createWindow(p) ==
  /\ pc[p] = "user"
  /\ \E x \in Slots :
       /\ acquireWindow(x)
       /\ proc' = [proc EXCEPT ![x] = p]
       /\ addWindow(x)
  /\ pc' = [pc EXCEPT ![p] = "redraw"]
  /\ UNCHANGED painted

\* Variant: the back link of the next window is forgotten.
deleteOneWay(p, hWind) ==
  /\ pc[p] = "user"
  /\ \E q \in Walk(windowQueue, next) :
       /\ next[q] = hWind
       /\ proc' = [proc EXCEPT ![hWind] = NoProc]
       /\ lastWindow' = IF hWind = lastWindow THEN q ELSE lastWindow
       /\ next' = [next EXCEPT ![q] = next[hWind]]
  /\ pc' = [pc EXCEPT ![p] = "redraw"]
  /\ UNCHANGED <<prev, painted>>

\* A handle that is not in the list makes the call return -1.
sys_deleteWindow(p, hWind) ==
  /\ pc[p] = "user"
  /\ \E q \in Walk(windowQueue, next) :
       /\ next[q] = hWind
       /\ proc' = [proc EXCEPT ![hWind] = NoProc]
       /\ lastWindow' = IF hWind = lastWindow THEN q ELSE lastWindow
       /\ next' = [next EXCEPT ![q] = next[hWind]]
       /\ prev' = IF next[hWind] = NULL THEN prev
                                        ELSE [prev EXCEPT ![next[hWind]] = q]
  /\ pc' = [pc EXCEPT ![p] = "redraw"]
  /\ UNCHANGED painted

\* Variant: only the top window is painted.
redrawTop(p) ==
  /\ pc[p] = "redraw"
  /\ updateLastWindow
  /\ pc' = [pc EXCEPT ![p] = "user"]
  /\ UNCHANGED queue

\* The updateBackWindows() that ends sys_createWindow and sys_deleteWindow.
redraw(p) ==
  /\ pc[p] = "redraw"
  /\ updateBackWindows
  /\ pc' = [pc EXCEPT ![p] = "user"]
  /\ UNCHANGED queue

\* Draws with window_lock held, so in one step.
sys_updateWindow(p, hWind) ==
  /\ pc[p] = "user"
  /\ lastWindow # windowQueue
  /\ IF hWind = lastWindow THEN updateLastWindow ELSE updateBackWindows
  /\ UNCHANGED <<queue, pc>>

relink(q) ==
  /\ q \in Walk(lastWindow, prev)
  /\ next' = [next EXCEPT ![prev[q]] = next[q], ![lastWindow] = q, ![q] = NULL]
  /\ prev' = [prev EXCEPT ![next[q]] = prev[q], ![q] = lastWindow]
  /\ lastWindow' = q

\* reorderQueue(q) with the redraw that ends it, under the guards of its two
\* callers: a window that a walk from lastWindow found, neither the top one
\* nor the desktop.  It runs in a mouse interrupt.
reorderQueue(q) ==
  /\ q \in Walk(lastWindow, prev) \ {lastWindow, windowQueue, Desktop}
  /\ relink(q)
  /\ temp1' = Behind'
  /\ top' = lastWindow'
  /\ UNCHANGED <<proc, pc>>

Next ==
  \/ \E p \in Procs :
       \/ sys_createWindow(p)
       \/ redraw(p)
       \/ \E hWind \in Slots : sys_updateWindow(p, hWind)
       \/ \E hWind \in Slots \ {Desktop} : sys_deleteWindow(p, hWind)
  \/ \E q \in Slots : reorderQueue(q)

Spec == Init /\ [][Next]_vars

----------------------------------------------------------------------------
\* The values the variables may take: in particular the links of the table stay
\* in it, and nothing points to the sentinel but prev.
TypeOK ==
  /\ proc \in [Slots -> Procs \cup {NoProc}]
  /\ next \in [Nodes -> Slots \cup {NULL}]
  /\ prev \in [Nodes -> Nodes \cup {NULL}]
  /\ lastWindow \in Nodes
  /\ temp1 \subseteq Slots \X Slots
  /\ top \in Nodes
  /\ pc \in [Procs -> {"user", "redraw"}]

\* Following next from the sentinel and prev from lastWindow visits the same
\* windows, exactly those with an owner, and the two directions are inverse:
\* no walk of window.c, gui.c or mouse.c meets a freed slot, misses a window
\* or fails to end, whatever was created, deleted and raised before.
QueueOK ==
  /\ Walk(windowQueue, next) = List
  /\ Walk(lastWindow, prev) = List
  /\ next[lastWindow] = NULL /\ prev[windowQueue] = NULL
  /\ \A n \in List \ {lastWindow} : next[n] \in InUse /\ prev[next[n]] = n
  /\ \A n \in List \ {windowQueue} : prev[n] \in List /\ next[prev[n]] = n

\* The desktop's window, once made, is the bottom of the list: reorderQueue's
\* callers never raise it over another window (mouse.c:138-151, 267) and no
\* deletion moves it.
DesktopAtBottom == InUse # {} => Desktop \in InUse /\ next[windowQueue] = Desktop

\* Outside the gap between a change of the list and the redraw that follows
\* it, the painted windows and their order are those of the list: neither an
\* interrupt nor another process's update in the gap leaves the screen behind.
ScreenFresh ==
  (\A p \in Procs : pc[p] = "user") => temp1 = Behind /\ top = lastWindow

\* The list as a sequence: the i-th window is the one with i windows from it
\* down to the bottom.
Order ==
  [i \in 1 .. Cardinality(InUse) |->
     CHOOSE x \in InUse : Cardinality(Walk(x, prev) \ {windowQueue}) = i]

Z == INSTANCE ZOrder WITH Handles <- Slots, order <- Order

\* The pointer manipulations of addWindow, sys_deleteWindow and reorderQueue
\* implement the operations on the sequence of windows: each step opens one
\* window on top, takes one out, raises one, or leaves the order alone.
ImplementsZOrder == Z!Spec
============================================================================
