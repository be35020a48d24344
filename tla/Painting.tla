------------------------------ MODULE Painting ------------------------------
(***************************************************************************)
(* What gui.c writes to the screen: the windows under the top one drawn    *)
(* into screen_temp1, the top one over a copy of it in screen_temp2, and   *)
(* screen_temp2 with the pointer over it on the screen.  The top window    *)
(* and the pointer are taken away again by copying back what they covered, *)
(* and an icon with the focus by what it looked like before.               *)
(*                                                                         *)
(* The three buffers are one stretch of memory and no write is clipped:    *)
(* the frame drawn around a window at the edge of the screen falls into    *)
(* the next line, or into the buffer before or after.  What a system call  *)
(* paints after it has released window_lock comes later (pending).  Text   *)
(* is taken to stay in its window, and which window the pointer hits is    *)
(* left open (Gui models it).                                              *)
(***************************************************************************)
EXTENDS Geometry, FiniteSets, SequencesExt, TLC

CONSTANTS
  Windows, Desktop, NULL,
  owner,        \* the process of each window
  Frame,        \* where each window opens, and its size
  Widgets,      \* the widgets of each window, in the order they are drawn
  ICON,         \* 96, the width and the height of an icon
  MOUSE_WIDTH, MOUSE_HEIGHT,
  Motions       \* the movements of a packet, <<dx, dy>>

ASSUME PaintingAssumption ==
  /\ Desktop \in Windows /\ NULL \notin Windows /\ DOMAIN owner = Windows
  /\ Frame \in [Windows -> FrameType] /\ Frame[Desktop] = Screen
  /\ \A w \in Windows : Inside(Frame[w])
  /\ MOUSE_HEIGHT \div 2 <= MOUSE_WIDTH + 1

VARIABLES
  gui,         \* the memory and what the kernel knows of it, see Boot
  pending,     \* processes in a call that has yet to updateBackWindows
  drag_state, pwque

vars == <<gui, pending, drag_state, pwque>>

Black == <<"black">>      \* also the colour that images use for transparent
White == <<"white">>
Grey == <<"grey">>
Highlight == <<"highlight">>
Pointer == <<"pointer">>

\* The three buffers, and all of their points.
Size == SCREEN_WIDTH * SCREEN_HEIGHT
screen == 0
screen_temp1 == Size
screen_temp2 == 2 * Size
Memory == 0 .. 3 * Size - 1

Icons == {<<w, k>> \in Windows \X (1 .. 9) :
            k <= Len(Widgets[w]) /\ Widgets[w][k].type = "iconView"}

Picture(icon) == Widgets[icon[1]][icon[2]].image

----------------------------------------------------------------------------
\* Points and areas of a buffer.
Point(buf, x, y) == buf + y * SCREEN_WIDTH + x

\* The points of a box, counted from its upper left one; a box wider than the
\* screen goes on in the next line.
Offsets(x, y, width, height) ==
  {Point(0, i, j) : i \in x .. x + width - 1, j \in y .. y + height - 1}

\* A window, and the line of points around it, one outside.
Body == [w \in Windows |-> Offsets(0, 0, Frame[w].width, Frame[w].height)]

Ring == [w \in Windows |->
           LET width == Frame[w].width
               height == Frame[w].height
           IN  UNION {Offsets(-1, y, width + 2, 1) : y \in {-1, height}} \cup
               UNION {Offsets(x, -1, 1, height + 2) : x \in {-1, width}}]

\* A widget, and the point of its image at each of its points: images are
\* stored from their lowest line to their highest.
Area == [w \in Windows |-> [k \in DOMAIN Widgets[w] |->
           Offsets(0, 0, Widgets[w][k].width, Widgets[w][k].height)]]

Texel == [w \in Windows |-> [k \in DOMAIN Widgets[w] |-> [off \in Area[w][k] |->
            LET v == Widgets[w][k]
            IN  (v.height - 1 - (off \div SCREEN_WIDTH)) * v.width + (off % SCREEN_WIDTH)]]]

\* F(x), with x computed once.
With(x, F(_)) == CHOOSE y \in {F(v) : v \in {x}} : TRUE

Copy(m, from, to) ==
  [p \in Memory |-> IF p \in to .. to + Size - 1 THEN m[p - to + from] ELSE m[p]]

\* An image drawn from point o on.
Stamp(m, o, w, k, image, alpha) ==
  [p \in Memory |->
     IF p - o \notin Area[w][k] \/ (alpha /\ image[Texel[w][k][p - o]] = Black)
     THEN m[p] ELSE image[Texel[w][k][p - o]]]

drawLabel(m, o, w, k) == [p \in Memory |-> IF p - o \in Area[w][k] THEN Grey ELSE m[p]]

Edge(off, v) ==
  \/ (off % SCREEN_WIDTH) \in {0, v.width - 1}
  \/ (off \div SCREEN_WIDTH) \in {0, v.height - 1}

drawTextBox(m, o, w, k) ==
  [p \in Memory |-> IF p - o \notin Area[w][k] THEN m[p]
                    ELSE IF Edge(p - o, Widgets[w][k]) THEN Grey ELSE White]

drawButton(m, o, w, k) ==
  IF Widgets[w][k].image = <<>>
  THEN [p \in Memory |-> IF p - o \in Area[w][k] THEN Grey ELSE m[p]]
  ELSE Stamp(m, o, w, k, Widgets[w][k].image, TRUE)

drawImageView(m, o, w, k) == Stamp(m, o, w, k, Widgets[w][k].image, Widgets[w][k].alphaBG)

drawIconView(m, o, w, k, image) == Stamp(m, o, w, k, image, TRUE)

\* The first point of a widget in a window at f.
Corner(buf, f, v) == Point(buf, f.x + v.x, f.y + v.y)

drawWidget(g, m, buf, w, k) ==
  LET v == Widgets[w][k]
      o == Corner(buf, g.win[w], v)
  IN  CASE v.type = "label" -> drawLabel(m, o, w, k)
        [] v.type = "textBox" -> drawTextBox(m, o, w, k)
        [] v.type = "button" -> drawButton(m, o, w, k)
        [] v.type = "imageView" -> drawImageView(m, o, w, k)
        [] v.type = "iconView" -> drawIconView(m, o, w, k, g.image[<<w, k>>])

\* Caption, menu, border and footer are the window's own colours, with and
\* without the focus.
drawWindow(m, o, w, focus) ==
  [p \in Memory |-> IF p - o \in Ring[w] THEN White
                    ELSE IF p - o \in Body[w] THEN <<w, focus>> ELSE m[p]]

drawWithWidgets(g, m, buf, w, focus) ==
  LET after[k \in 0 .. Len(Widgets[w])] ==
        IF k = 0 THEN drawWindow(m, Point(buf, g.win[w].x, g.win[w].y), w, focus)
        ELSE With(after[k - 1], LAMBDA n : drawWidget(g, n, buf, w, k))
  IN  after[Len(Widgets[w])]

lastWindow(g) == Last(g.order)

drawBackWindows(g) ==
  LET after[i \in 0 .. Len(g.order) - 1] ==
        IF i = 0 THEN g.mem
        ELSE With(after[i - 1], LAMBDA n : drawWithWidgets(g, n, screen_temp1, g.order[i], FALSE))
  IN  [g EXCEPT !.mem = after[Len(g.order) - 1], !.shown = g.win]

\* Variant: the frame around the window is left standing.
removeInside(g) ==
  LET w == lastWindow(g)
      o == Point(screen_temp2, g.last[w].x, g.last[w].y)
  IN  [g EXCEPT !.mem = [p \in Memory |-> IF p - o \in Body[w] THEN @[p - Size] ELSE @[p]]]

\* What the top window covered where it was last drawn, copied from
\* screen_temp1 line by line: a line that falls into screen_temp1 is read
\* again at the bottom of the screen.
removeLastWindow(g) ==
  LET w == lastWindow(g)
      covered(p) == p - Point(screen_temp2, g.last[w].x, g.last[w].y) \in Body[w] \cup Ring[w]
  IN  [g EXCEPT !.mem = [p \in Memory |->
         IF ~covered(p) THEN @[p]
         ELSE IF covered(p - Size) THEN @[p - 2 * Size] ELSE @[p - Size]]]

drawLastWindow(g) ==
  LET w == lastWindow(g)
  IN  [g EXCEPT !.mem = drawWithWidgets(g, @, screen_temp2, w, TRUE),
                !.last[w] = [x |-> g.win[w].x, y |-> g.win[w].y],
                !.shown[w] = g.win[w]]

MouseBox == (0 .. MOUSE_WIDTH - 1) \X (0 .. MOUSE_HEIGHT - 1)

\* An arrow, or a disc while a window is dragged.
Half == MOUSE_HEIGHT \div 2

Disc == {o \in MouseBox : o[2] < Half}

Arrow == {o \in MouseBox :
            \/ o[2] < Half /\ o[1] < o[2]
            \/ /\ Half <= o[2] /\ o[2] < Half + MOUSE_HEIGHT \div 4
               /\ o[1] < MOUSE_WIDTH + MOUSE_WIDTH \div 2 - 1 - o[2]}

Shape(dragging) == IF dragging THEN Disc ELSE Arrow

\* The place of a point of the screen, seen from c.
From(c, p) == <<(p % SCREEN_WIDTH) - c.x, (p \div SCREEN_WIDTH) - c.y>>

\* Variant: what the pointer covers now is copied back.
removeMouseHere(g) ==
  [g EXCEPT !.mem = [p \in Memory |-> IF p < Size /\ From(g.mouse, p) \in MouseBox
                                      THEN @[p + screen_temp2] ELSE @[p]]]

removeMouse(g) ==
  [g EXCEPT !.mem = [p \in Memory |-> IF p < Size /\ From(g.draw, p) \in MouseBox
                                      THEN @[p + screen_temp2] ELSE @[p]]]

drawMouse(g) ==
  [g EXCEPT !.mem = [p \in Memory |-> IF p < Size /\ From(g.mouse, p) \in Shape(g.dragging)
                                      THEN Pointer ELSE @[p]],
            !.draw = g.mouse]

\* The last part of every repaint.
show(g) == drawMouse([g EXCEPT !.mem = Copy(@, screen_temp2, screen)])

clear(g) ==
  [g EXCEPT !.mem = [p \in Memory |-> IF p \in screen_temp1 .. screen_temp2 - 1 THEN Black ELSE @[p]]]

updateBackWindows(g) ==
  With(With(clear(g), drawBackWindows), LAMBDA back :
    With(drawLastWindow([back EXCEPT !.mem = Copy(@, screen_temp1, screen_temp2)]), show))

updateLastWindow(g) == With(With(removeLastWindow(g), drawLastWindow), show)

updateMouse(g) == With(removeMouse(g), drawMouse)

setMousePosition(g, d) ==
  With([g EXCEPT !.mouse = [x |-> Clip(@.x + d[1], SCREEN_WIDTH),
                            y |-> Clip(@.y + d[2], SCREEN_HEIGHT)]], updateMouse)

----------------------------------------------------------------------------
\* The focus.  An icon's transparent points are painted in the icon's own
\* image, and what was on the screen is kept to take that back.
drawIcon(g) ==
  LET w == g.focusIcon[1]
      k == g.focusIcon[2]
      corner(buf) == Corner(buf, g.win[lastWindow(g)], Widgets[w][k])
      temp2 == drawIconView(g.mem, corner(screen_temp2), w, k, g.image[g.focusIcon])
  IN  [g EXCEPT !.mem = drawIconView(temp2, corner(screen), w, k, g.image[g.focusIcon]),
                !.astray = @ \/ pending # {} \/ w # lastWindow(g) \/ g.shown[w] # g.win[w]]

\* The point of an image that is drawn at point i of its place, and back.
Flip(i) == (ICON - 1 - (i \div ICON)) * ICON + (i % ICON)

\* Variant: the highlight stays in the image.
focusDismissLit(g) ==
  IF g.focusIcon = NULL THEN g
  ELSE LET before == [i \in 0 .. ICON * ICON - 1 |-> g.background[Flip(i)]]
           drawn == drawIcon([g EXCEPT !.image[g.focusIcon] = before])
       IN  [drawn EXCEPT !.isBg = {}, !.focusIcon = NULL]

focusDismiss(g) ==
  IF g.focusIcon = NULL THEN g
  ELSE LET before == [i \in 0 .. ICON * ICON - 1 |-> g.background[Flip(i)]]
           drawn == drawIcon([g EXCEPT !.image[g.focusIcon] = before])
       IN  [drawn EXCEPT !.image[g.focusIcon] =
                           [i \in 0 .. ICON * ICON - 1 |-> IF i \in g.isBg THEN Black ELSE @[i]],
                         !.isBg = {}, !.focusIcon = NULL]

focusIconView(g, icon) ==
  IF g.focusIcon = icon THEN g
  ELSE LET v == Widgets[icon[1]][icon[2]]
           f == g.win[lastWindow(g)]
           old == focusDismiss(g)
           bg == {i \in DOMAIN old.image[icon] : old.image[icon][i] = Black}
       IN  drawIcon([old EXCEPT
             !.focusIcon = icon,
             !.background = [i \in 0 .. ICON * ICON - 1 |->
                old.mem[Point(screen_temp2, f.x + v.x + (i % ICON), f.y + v.y + (i \div ICON))]],
             !.isBg = bg,
             !.image[icon] = [i \in DOMAIN @ |-> IF i \in bg THEN Highlight ELSE @[i]]])

reorderQueue(g, w) == updateBackWindows([g EXCEPT !.order = Append(Remove(@, w), w)])

\* initGUI and mouseinit, before the first process.
Boot ==
  [mem |-> [p \in Memory |-> Black],
   order |-> <<>>,                  \* the windows, bottom first
   win |-> Frame,                   \* where each window is
   last |-> [w \in Windows |-> [x |-> 0, y |-> 0]],  \* last_leftTopX, Y
   shown |-> Frame,                 \* where each window was last drawn
   mouse |-> [x |-> SCREEN_WIDTH \div 2, y |-> SCREEN_HEIGHT \div 2],
   draw |-> [x |-> 0, y |-> 0],     \* last_draw_x, last_draw_y
   dragging |-> FALSE,              \* mouse_info.event is MOUSE_DRAGGING
   image |-> [icon \in Icons |-> Picture(icon)],
   focusIcon |-> NULL,
   background |-> [i \in 0 .. ICON * ICON - 1 |-> Black],
   isBg |-> {},
   astray |-> FALSE]                \* an icon was drawn with or without the focus
                                    \* while its window was not shown in place

Init ==
  /\ gui = updateMouse(Boot)
  /\ pending = {} /\ drag_state = 0 /\ pwque = NULL

----------------------------------------------------------------------------
\* System calls of the process that owns window w.  The desktop's comes first
\* and starts the others.
sys_createWindow(w) ==
  /\ w \notin ToSet(gui.order) /\ owner[w] \notin pending
  /\ w # Desktop => gui.order # <<>> /\ owner[Desktop] \notin pending
  /\ gui' = [gui EXCEPT !.order = Append(@, w),
                        !.win[w] = Frame[w],
                        !.last[w] = [x |-> 0, y |-> 0],
                        !.image = [icon \in Icons |-> IF icon[1] = w THEN Picture(icon) ELSE @[icon]]]
  /\ pending' = pending \cup {owner[w]}
  /\ UNCHANGED <<drag_state, pwque>>

sys_deleteWindow(w) ==
  /\ w \in ToSet(gui.order) \ {Desktop} /\ owner[w] \notin pending
  /\ gui' = [gui EXCEPT !.order = Remove(@, w)]
  /\ pending' = pending \cup {owner[w]}
  /\ UNCHANGED <<drag_state, pwque>>

redraw(proc) ==
  /\ proc \in pending
  /\ gui' = updateBackWindows(gui)
  /\ pending' = pending \ {proc}
  /\ UNCHANGED <<drag_state, pwque>>

sys_updateWindow(w) ==
  /\ w \in ToSet(gui.order) /\ owner[w] \notin pending
  /\ gui' = IF w = lastWindow(gui) THEN updateLastWindow(gui) ELSE updateBackWindows(gui)
  /\ UNCHANGED <<pending, drag_state, pwque>>

\* A key that changes the text box of the top window.
keyboardHandler ==
  /\ gui.order # <<>>
  /\ gui' = updateLastWindow(gui)
  /\ UNCHANGED <<pending, drag_state, pwque>>

----------------------------------------------------------------------------
\* Packets of the mouse, by their event; each ends in setMousePosition.
NoEvent(d) ==
  LET g == [gui EXCEPT !.dragging = FALSE]
  IN  /\ gui' = setMousePosition(IF drag_state = 1 THEN updateLastWindow(g) ELSE g, d)
      /\ drag_state' = 0
      /\ UNCHANGED <<pending, pwque>>

\* The first packet of a drag takes hold of a window by its caption, or not.
StartDrag(w, d) ==
  LET g == [gui EXCEPT !.dragging = TRUE]
  IN  /\ drag_state = 0 /\ w \in ToSet(gui.order) \cup {NULL}
      /\ gui' = setMousePosition(IF w \in {NULL, Desktop} \/ w = lastWindow(g) THEN g
                                 ELSE reorderQueue(g, w), d)
      /\ drag_state' = IF w = NULL THEN 2 ELSE 1
      /\ pwque' = w
      /\ UNCHANGED pending

\* Some of the later ones paint the top window (isdraw), the window moved or
\* one that was opened in front of it.
GoOnDragging(isdraw, d) ==
  LET g == [gui EXCEPT !.dragging = TRUE, !.win[pwque] = moveWindow(@, d[1], d[2])]
  IN  /\ drag_state = 1 /\ pwque \in ToSet(gui.order)
      /\ gui' = setMousePosition(IF isdraw THEN updateLastWindow(g) ELSE g, d)
      /\ UNCHANGED <<pending, drag_state, pwque>>

DragNothing(d) ==
  /\ drag_state = 2
  /\ gui' = setMousePosition([gui EXCEPT !.dragging = TRUE], d)
  /\ UNCHANGED <<pending, drag_state, pwque>>

\* The icon with the focus is looked for in the memory of the top window's
\* process (Gui models what happens when it is not there).
FocusAtHand == gui.focusIcon \in {NULL} \cup {icon \in Icons : owner[icon[1]] = owner[lastWindow(gui)]}

handleLeftClick(w, icon, d) ==
  LET g == [gui EXCEPT !.dragging = FALSE]
      raised == IF w = lastWindow(g) THEN g ELSE reorderQueue(focusDismiss(g), w)
  IN  /\ gui.order # <<>> /\ w \in ToSet(gui.order) /\ FocusAtHand
      /\ w # Desktop \/ w = lastWindow(g)
      /\ gui' = setMousePosition(IF icon = NULL THEN focusDismiss(raised)
                                 ELSE focusIconView(raised, icon), d)
      /\ UNCHANGED <<pending, drag_state, pwque>>

handleLeftDoubleClick(d) ==
  /\ gui.order # <<>> /\ FocusAtHand
  /\ gui' = setMousePosition(focusDismiss([gui EXCEPT !.dragging = FALSE]), d)
  /\ UNCHANGED <<pending, drag_state, pwque>>

\* A right click, or a left click on the desktop behind other windows.
OtherClick(d) ==
  /\ gui.order # <<>>
  /\ gui' = setMousePosition([gui EXCEPT !.dragging = FALSE], d)
  /\ UNCHANGED <<pending, drag_state, pwque>>

Packet(d) ==
  \/ NoEvent(d)
  \/ \E w \in Windows \cup {NULL} : StartDrag(w, d)
  \/ \E isdraw \in BOOLEAN : GoOnDragging(isdraw, d)
  \/ DragNothing(d)
  \/ \E w \in Windows : \E icon \in {c \in Icons : c[1] = w} \cup {NULL} : handleLeftClick(w, icon, d)
  \/ handleLeftDoubleClick(d)
  \/ OtherClick(d)

\* Nothing is claimed after the focus went astray.
Astray == gui.astray /\ UNCHANGED vars

Next ==
  \/ /\ ~gui.astray
     /\ \/ \E w \in Windows : \/ sys_createWindow(w) \/ sys_deleteWindow(w) \/ sys_updateWindow(w)
        \/ \E proc \in pending : redraw(proc)
        \/ keyboardHandler
        \/ \E d \in Motions : Packet(d)
  \/ Astray

Spec == Init /\ [][Next]_vars

----------------------------------------------------------------------------
\* The points of buffer screen_temp2 that window w covers where it is shown,
\* with its frame, and the colour it has there: the last widget that is not
\* transparent there, else the frame, else the window.
Covers(w, p) ==
  p - Point(screen_temp2, gui.shown[w].x, gui.shown[w].y) \in Body[w] \cup Ring[w]

WidgetColour(w, k, p) ==
  LET v == Widgets[w][k]
      off == p - Corner(screen_temp2, gui.shown[w], v)
      seen(image, alpha) == IF alpha /\ image[Texel[w][k][off]] = Black THEN NULL
                            ELSE image[Texel[w][k][off]]
  IN  IF off \notin Area[w][k] THEN NULL
      ELSE CASE v.type = "label" -> Grey
             [] v.type = "textBox" -> IF Edge(off, v) THEN Grey ELSE White
             [] v.type = "button" /\ v.image = <<>> -> Grey
             [] v.type = "button" /\ v.image # <<>> -> seen(v.image, TRUE)
             [] v.type = "imageView" -> seen(v.image, v.alphaBG)
             [] v.type = "iconView" -> seen(gui.image[<<w, k>>], TRUE)

ColourOf(w, p) ==
  LET ks == {k \in DOMAIN Widgets[w] : WidgetColour(w, k, p) # NULL}
  IN  IF ks # {} THEN WidgetColour(w, CHOOSE k \in ks : \A l \in ks : l <= k, p)
      ELSE IF p - Point(screen_temp2, gui.shown[w].x, gui.shown[w].y) \in Ring[w] THEN White
      ELSE <<w, w = lastWindow(gui)>>

\* The screen shows the windows stacked as they are: once no system call has a
\* repaint to come, every point but the last line's (where the frame of a window
\* at the upper edge falls, gui.c:414) has the colour of the topmost window
\* there, as the back windows were painted and the top one, moved, closed and
\* repainted alone any number of times.
Composed ==
  (pending = {} /\ gui.order # <<>> /\ ~gui.astray) =>
    \A p \in screen_temp2 .. screen_temp2 + Size - SCREEN_WIDTH - 2 :
      LET on == {i \in DOMAIN gui.order : Covers(gui.order[i], p)}
      IN  gui.mem[p] = ColourOf(gui.order[CHOOSE i \in on : \A j \in on : j <= i], p)

\* The pointer is seen whole, in the shape of the last event, and leaves no
\* trail: outside the box at the pointer the screen is screen_temp2, although
\* removeMouse restores only the box at last_draw_x, last_draw_y and windows and
\* icons are painted in between.
PointerClean ==
  \A p \in screen .. Size - 1 :
    LET off == From(gui.mouse, p)
    IN  /\ off \in Shape(gui.dragging) => gui.mem[p] = Pointer
        /\ off \notin MouseBox => gui.mem[p] = gui.mem[p + screen_temp2]

\* An icon that loses the focus looks as it did: focusDismiss leaves every
\* image as the program loaded it, wherever its window was moved meanwhile.
IconsRestored ==
  ~gui.astray =>
    \A icon \in Icons :
      (gui.focusIcon # icon /\ icon[1] \in ToSet(gui.order)) => gui.image[icon] = Picture(icon)
=============================================================================
