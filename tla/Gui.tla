-------------------------------- MODULE Gui --------------------------------
(***************************************************************************)
(* The windows under the mouse and the keyboard: the system calls of       *)
(* window.c, the event handlers of mouse.c and kbd.c, and the repainting   *)
(* they ask of gui.c, over the sequence of windows that ZOrder specifies   *)
(* and WindowQueue implements.                                             *)
(*                                                                         *)
(* One CPU: an interrupt runs to its end with interrupts off, so a packet  *)
(* is one action, from updateMouseEvent to moveMousePosition.  The         *)
(* windows live in the memory of their processes; the kernel reaches one   *)
(* through switchuvm.  fault names the first access that has no process to *)
(* switch to ("walk", "drag") or from ("idle"), or that traps on an icon   *)
(* which is in another process's memory ("focus"); the machine does        *)
(* nothing more after it.                                                  *)
(***************************************************************************)
EXTENDS Geometry, FiniteSetsExt, Lists, MouseEvent

CONSTANTS
  MAX_WINDOW_NUM, Procs, NULL,
  CAPTION_HEIGHT,
  DRAW_EVERY,   \* a drag repaints every 20th packet
  Frames,       \* the places and sizes applications open their windows with
  Motions       \* the movements of a packet, <<dx, dy>>

Slots == 0 .. MAX_WINDOW_NUM - 1

Desktop == 0

ASSUME GuiAssumption ==
  /\ MAX_WINDOW_NUM \in Nat \ {0}
  /\ SCREEN_WIDTH \in Nat \ {0} /\ SCREEN_HEIGHT \in Nat \ {0}
  /\ CAPTION_HEIGHT \in Nat /\ DRAW_EVERY \in Nat \ {0}
  /\ Motions \subseteq Int \X Int
  /\ Frames \subseteq FrameType /\ \A w \in Frames : Inside(w)
  /\ NULL \notin Procs /\ NULL \notin Slots

VARIABLES
  order,       \* the window list, bottom first
  owner,       \* the process of each window
  win,         \* place and size of each window, Screen in an unused slot
  stale,       \* windows not painted where they are
  pc,          \* "redraw": a system call before its updateBackWindows
  mouse,       \* mouse_info.x_position, y_position
  drag_state, pwque, counter,
  focusIcon,   \* the process whose icon has the focus
  hit,         \* the window whose handler the last step triggered
  fault

windows == <<order, owner, win, stale, pc>>

drag == <<drag_state, pwque, counter>>

buttons == <<left_btn_down, right_btn_down, event>>

vars == <<windows, drag, buttons, mouse, focusIcon, hit, fault>>

Z == INSTANCE ZOrder WITH Handles <- Slots

lastWindow == order[Len(order)]

InQueue == Range(order)

Init ==
  /\ order = <<>>
  /\ owner = [s \in Slots |-> NULL]
  /\ win = [s \in Slots |-> Screen]
  /\ stale = {}
  /\ pc = [p \in Procs |-> "user"]
  /\ mouse = [x |-> SCREEN_WIDTH \div 2, y |-> SCREEN_HEIGHT \div 2]
  /\ drag_state = 0 /\ pwque = NULL /\ counter = 0
  /\ InitButtons
  /\ focusIcon = NULL
  /\ hit = NULL
  /\ fault = "none"

----------------------------------------------------------------------------
\* System calls.  The first window is the desktop's, as large as the screen.
sys_createWindow(p) ==
  /\ pc[p] = "user"
  /\ \E s \in Slots, w \in IF order = <<>> THEN {Screen} ELSE Frames :
       /\ Z!Open(s)
       /\ owner' = [owner EXCEPT ![s] = p]
       /\ win' = [win EXCEPT ![s] = w]
       /\ stale' = stale \ {s}
  /\ pc' = [pc EXCEPT ![p] = "redraw"]
  /\ hit' = NULL /\ UNCHANGED <<drag, buttons, mouse, focusIcon, fault>>

sys_deleteWindow(p) ==
  /\ pc[p] = "user"
  /\ \E s \in InQueue :
       /\ owner[s] = p
       /\ Z!Close(s)
       /\ owner' = [owner EXCEPT ![s] = NULL]
       /\ win' = [win EXCEPT ![s] = Screen]
       /\ stale' = stale \ {s}
  /\ pc' = [pc EXCEPT ![p] = "redraw"]
  /\ hit' = NULL /\ UNCHANGED <<drag, buttons, mouse, focusIcon, fault>>

redraw(p) ==
  /\ pc[p] = "redraw"
  /\ stale' = {}
  /\ pc' = [pc EXCEPT ![p] = "user"]
  /\ hit' = NULL /\ UNCHANGED <<order, owner, win, drag, buttons, mouse, focusIcon, fault>>

sys_updateWindow(p) ==
  /\ pc[p] = "user"
  /\ \E s \in InQueue :
       /\ owner[s] = p
       /\ stale' = IF s = lastWindow THEN stale \ {lastWindow} ELSE {}
  /\ hit' = NULL /\ UNCHANGED <<order, owner, win, pc, drag, buttons, mouse, focusIcon, fault>>

----------------------------------------------------------------------------
\* The windows at a point; the walk from lastWindow stops at the topmost, and
\* runs into the sentinel, which has no process, when there is none.
At(x, y) == {i \in DOMAIN order : inWindowRange(win[order[i]], x, y)}

Topmost(x, y) == order[Max(At(x, y))]

moveMousePosition(dx, dy) ==
  mouse' = [x |-> Clip(mouse.x + dx, SCREEN_WIDTH), y |-> Clip(mouse.y + dy, SCREEN_HEIGHT)]

\* focusDismiss and focusIconView look for the focused icon in the memory of
\* the top window's process.  Where it belongs to another one they may trap,
\* or write over whatever is at that address and go on.
FocusAtHand == focusIcon \in {NULL, owner[lastWindow]}

Fail(what) ==
  /\ fault' = what
  /\ hit' = NULL /\ UNCHANGED <<windows, drag, focusIcon>>

Ignore == hit' = NULL /\ UNCHANGED <<windows, drag, focusIcon, fault>>

\* Variant: the window is painted and not raised.
repaintOnly(s) == stale' = {} /\ UNCHANGED <<order, owner, pc>>

\* reorderQueue and its updateBackWindows.
reorderQueue(s) ==
  /\ Z!Raise(s)
  /\ stale' = {}
  /\ UNCHANGED <<owner, pc>>

\* The widget under the pointer decides what a click does: a button or an
\* image is triggered, an icon takes the focus, anything else drops it.
ClickWidget(s) ==
  \/ focusIcon' = NULL /\ hit' \in {NULL, s}
  \/ focusIcon' = owner[s] /\ hit' = NULL

handleLeftClick ==
  \/ At(mouse.x, mouse.y) = {} /\ Fail("walk")
  \/ /\ At(mouse.x, mouse.y) # {}
     /\ LET s == Topmost(mouse.x, mouse.y) IN
        \/ /\ s = Desktop /\ s # lastWindow
           /\ Ignore
        \/ /\ s # Desktop \/ s = lastWindow
           /\ ~FocusAtHand
           /\ Fail("focus")
        \/ /\ s # Desktop \/ s = lastWindow
           /\ IF s = lastWindow THEN UNCHANGED windows
                                ELSE reorderQueue(s) /\ UNCHANGED win
           /\ ClickWidget(s)
           /\ UNCHANGED <<drag, fault>>

handleLeftDoubleClick ==
  \/ At(mouse.x, mouse.y) = {} /\ Fail("walk")
  \/ At(mouse.x, mouse.y) # {} /\ ~FocusAtHand /\ Fail("focus")
  \/ /\ At(mouse.x, mouse.y) # {}
     /\ focusIcon' = NULL
     /\ hit' \in {NULL, Topmost(mouse.x, mouse.y)}
     /\ UNCHANGED <<windows, drag, fault>>

handleRightClick ==
  IF At(mouse.x, mouse.y) = {}
  THEN Fail("walk")
  ELSE Ignore

\* The first packet of a drag looks for the caption under the new position,
\* before that is clipped to the screen, and raises its window.
StartDrag(x, y) ==
  \/ x # 0 /\ y # 0 /\ At(x, y) = {} /\ Fail("walk")
  \/ /\ \/ x = 0 \/ y = 0
        \/ At(x, y) # {} /\ y > win[Topmost(x, y)].y + CAPTION_HEIGHT
     /\ pwque' = NULL /\ drag_state' = 2
     /\ hit' = NULL /\ UNCHANGED <<windows, counter, focusIcon, fault>>
  \/ /\ x # 0 /\ y # 0 /\ At(x, y) # {}
     /\ LET s == Topmost(x, y) IN
        /\ y <= win[s].y + CAPTION_HEIGHT
        /\ pwque' = s /\ drag_state' = 1
        /\ IF s \in {lastWindow, Desktop} THEN UNCHANGED windows
                                          ELSE reorderQueue(s) /\ UNCHANGED win
     /\ hit' = NULL /\ UNCHANGED <<counter, focusIcon, fault>>

\* A later one moves the window found, by the packet's movement.
GoOnDragging(dx, dy) ==
  \/ pwque \notin InQueue /\ Fail("drag")
  \/ /\ pwque \in InQueue
     /\ counter' = (counter + 1) % DRAW_EVERY
     /\ win' = [win EXCEPT ![pwque] = moveWindow(@, dx, dy)]
     /\ LET moved == IF win'[pwque] = win[pwque] THEN stale ELSE stale \cup {pwque}
        IN  stale' = IF counter' = 0 THEN moved \ {lastWindow} ELSE moved
     /\ hit' = NULL /\ UNCHANGED <<order, owner, pc, drag_state, pwque, focusIcon, fault>>

handleMouseDrag(dx, dy) ==
  \/ drag_state = 0 /\ StartDrag(mouse.x + dx, mouse.y + dy)
  \/ drag_state = 1 /\ GoOnDragging(dx, dy)
  \/ drag_state = 2 /\ Ignore

\* Variant: the end of a drag does not paint.
endDragUnpainted ==
  /\ drag_state' = 0
  /\ hit' = NULL /\ UNCHANGED <<windows, pwque, counter, focusIcon, fault>>

\* A packet without an event ends a drag and repaints the top window.
endDrag ==
  /\ drag_state' = 0
  /\ stale' = IF drag_state = 1 THEN stale \ {lastWindow} ELSE stale
  /\ hit' = NULL /\ UNCHANGED <<order, owner, win, pc, pwque, counter, focusIcon, fault>>

handle(e, dx, dy) ==
  \/ e = "LEFT_CLICK" /\ handleLeftClick
  \/ e = "LEFT_DOUBLE_CLICK" /\ handleLeftDoubleClick
  \/ e = "RIGHT_CLICK" /\ handleRightClick
  \/ e = "MOUSE_DRAGGING" /\ handleMouseDrag(dx, dy)
  \/ e = "none" /\ endDrag

\* The interrupt finds a process running, or comes in the scheduler between
\* two processes, where proc is 0 and switchuvm's use of proc->kstack traps.
NeedsProc(e, dx, dy) ==
  \/ e \in {"LEFT_CLICK", "LEFT_DOUBLE_CLICK", "RIGHT_CLICK"}
  \/ e = "MOUSE_DRAGGING" /\ drag_state = 1
  \/ e = "MOUSE_DRAGGING" /\ drag_state = 0 /\ mouse.x + dx # 0 /\ mouse.y + dy # 0
  \/ e = "none" /\ drag_state = 1

updateMouseEvent(left_down, right_down, quick, dx, dy) ==
  LET e == EventOf(left_down, right_down, quick) IN
  /\ updateButtons(left_down, right_down, quick)
  /\ \/ handle(e, dx, dy)
     \/ NeedsProc(e, dx, dy) /\ Fail("idle")
  /\ IF fault' = "none" THEN moveMousePosition(dx, dy) ELSE UNCHANGED mouse

\* A character for the text box of the top window, if it has one.
keyboardHandler ==
  /\ \/ Fail("idle")
     \/ order = <<>> /\ Fail("walk")
     \/ /\ order # <<>>
        /\ stale' \in {stale, stale \ {lastWindow}}
        /\ hit' = NULL /\ UNCHANGED <<order, owner, win, pc, drag, focusIcon, fault>>
  /\ UNCHANGED <<buttons, mouse>>

Halted == fault # "none" /\ UNCHANGED vars

Next ==
  \/ /\ fault = "none"
     /\ \/ \E p \in Procs : \/ sys_createWindow(p) \/ sys_deleteWindow(p) \/ redraw(p)
                            \/ sys_updateWindow(p)
        \/ \E left_down, right_down, quick \in BOOLEAN, d \in Motions :
             /\ quick => LeftReleased(left_down)   \* tested then only
             /\ updateMouseEvent(left_down, right_down, quick, d[1], d[2])
        \/ keyboardHandler
  \/ Halted

Spec == Init /\ [][Next]_vars

----------------------------------------------------------------------------
\* However a window is dragged, it stays on the screen: moveWindow's two
\* corrections of a movement, at the near and at the far edge, never undo each
\* other, and the desktop, as large as the screen, cannot be dragged at all.
\* drawWindow writes to the screen buffer with no check of its own.
OnScreen == \A s \in Slots : Inside(win[s])

\* Once a drag is over and no system call is between its change of the list and
\* its updateBackWindows, the top window is painted where it is, although
\* moveWindow repaints only every 20th movement and only the top window.
TopInPlace ==
  (order # <<>> /\ drag_state # 1 /\ \A p \in Procs : pc[p] = "user")
    => lastWindow \notin stale

\* A left click goes to the window one sees under the pointer: unless that is
\* the desktop below others, it is on top after handleLeftClick, only its own
\* handler is triggered, and the focus is nowhere or on an icon of its process,
\* in whose memory focusDismiss will look for it, whatever opened in front of
\* the icon that had the focus before.
ClickReachesTop ==
  [][(event' = "LEFT_CLICK" /\ event # "LEFT_CLICK" /\ fault' = "none")
       => LET s == Topmost(mouse.x, mouse.y)
          IN  /\ s # Desktop => Last(order') = s
              /\ hit' \in {NULL, Last(order')}
              /\ \/ s = Desktop /\ lastWindow # Desktop
                 \/ focusIcon' \in {NULL, owner'[Last(order')]}]_vars

\* A window that stays open moves only while the left button is held, and only
\* by a packet: neither a release, nor a right click during the drag, nor a
\* system call moves one.
MovesOnlyHeld ==
  [][\A s \in InQueue \cap Range(order') :
       win'[s] # win[s] => left_btn_down /\ left_btn_down' /\ pwque = s]_vars
============================================================================
