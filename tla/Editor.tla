------------------------------- MODULE Editor -------------------------------
(***************************************************************************)
(* The text box the keyboard edits (kbd.c) in the editor, which loads it   *)
(* from a file and saves it (editor.c), and how its text is laid out       *)
(* (drawTextBox in gui.c).                                                 *)
(*                                                                         *)
(* text is the C array, terminator included.  overrun is the first write   *)
(* or length beyond it; what follows one is not modelled.                  *)
(***************************************************************************)
EXTENDS Integers, FiniteSetsExt, Lists

CONSTANTS
  MAX_STRING_NUM,
  Letters, NL, NUL,   \* printable characters, the end of a line, of the text
  WIDTH,              \* of the text box, in points
  CHARACTER_WIDTH,    \* of the widest glyph, and the margin of the text
  Columns             \* columns drawn for a character, its blank ones left out

ASSUME EditorAssumption ==
  /\ MAX_STRING_NUM \in Nat \ {0}
  /\ NL # NUL /\ {NL, NUL} \cap Letters = {}
  /\ {WIDTH, CHARACTER_WIDTH} \subseteq Nat
  /\ Columns \in [Letters -> 2 .. CHARACTER_WIDTH] /\ 2 * CHARACTER_WIDTH <= WIDTH

Chars == Letters \cup {NL}

Places == 0 .. MAX_STRING_NUM - 1

VARIABLES
  box,     \* the text box: text, textLength, cursor
  file,    \* what is in the file
  overrun

vars == <<box, file, overrun>>

EmptyBox == [text |-> [i \in Places |-> NUL], textLength |-> 0, cursor |-> 0]

Init ==
  /\ box = EmptyBox
  /\ file = <<>>
  /\ overrun = FALSE

----------------------------------------------------------------------------
\* Room for one more character and the terminator.
Room(b) == b.textLength + 1 < MAX_STRING_NUM

insertCharacter(b, ch) ==
  [text |-> [i \in Places |-> IF i = b.cursor THEN ch
                              ELSE IF i \in b.cursor + 1 .. b.textLength + 1 THEN b.text[i - 1]
                              ELSE b.text[i]],
   textLength |-> b.textLength + 1,
   cursor |-> b.cursor + 1]

\* Variant: no check for the start of the text.
deleteAlways(b) ==
  [text |-> [i \in Places |-> IF i \in b.cursor - 1 .. b.textLength - 1 THEN b.text[i + 1]
                              ELSE b.text[i]],
   textLength |-> b.textLength - 1,
   cursor |-> b.cursor - 1]

deleteCharacter(b) ==
  IF b.cursor = 0 THEN b
  ELSE [text |-> [i \in Places |-> IF i \in b.cursor - 1 .. b.textLength - 1 THEN b.text[i + 1]
                                   ELSE b.text[i]],
        textLength |-> b.textLength - 1,
        cursor |-> b.cursor - 1]

\* The start of the line of place i, and the first place from i on with one of
\* the characters in S, or the place after the text.
LineStart(b, i) == Max({0} \cup {j + 1 : j \in {k \in Places : k < i /\ b.text[k] = NL}})

NextIn(b, i, S) ==
  Min({b.textLength + 1} \cup {j \in Places : i <= j /\ j <= b.textLength /\ b.text[j] \in S})

\* Variant: a shorter line does not stop the cursor.
BelowUnbounded(b, start, end) ==
  [b EXCEPT !.cursor = start + b.cursor - LineStart(b, b.cursor)]

\* The cursor at the same distance from start, or at the end of a shorter line.
Below(b, start, end) ==
  LET lineIndex == b.cursor - LineStart(b, b.cursor)
  IN  [b EXCEPT !.cursor = IF end < start + lineIndex THEN end ELSE start + lineIndex]

moveLeft(b) == IF b.cursor > 0 THEN [b EXCEPT !.cursor = @ - 1] ELSE b

\* Variant: the end of the text taken from its length.
moveRightByLength(b) ==
  IF b.cursor < b.textLength /\ b.text[b.cursor] # NL THEN [b EXCEPT !.cursor = @ + 1] ELSE b

moveRight(b) == IF b.text[b.cursor] \in Letters THEN [b EXCEPT !.cursor = @ + 1] ELSE b

moveUp(b) ==
  LET start == LineStart(b, b.cursor)
  IN  IF start = 0 THEN b ELSE Below(b, LineStart(b, start - 1), start - 1)

\* The search for the end of this line finds none when the terminator is first.
moveDown(b) ==
  LET end == NextIn(b, LineStart(b, b.cursor), {NL, NUL})
  IN  IF b.text[end] = NUL THEN b ELSE Below(b, end + 1, NextIn(b, end + 1, {NL, NUL}))

moveCursor(b) == IF b.textLength = 0 THEN {b} ELSE {moveLeft(b), moveRight(b), moveUp(b), moveDown(b)}

keyboardHandler ==
  /\ \/ \E ch \in Chars :
          IF Room(box) THEN box' = insertCharacter(box, ch) /\ UNCHANGED overrun
                       ELSE overrun' = TRUE /\ UNCHANGED box
     \/ box' = deleteCharacter(box) /\ UNCHANGED overrun
     \/ box' \in moveCursor(box) /\ UNCHANGED overrun
  /\ UNCHANGED file

----------------------------------------------------------------------------
strlen(b) == Min({i \in Places : b.text[i] = NUL})

\* What drawTextBox shows.
Shown(b) == [i \in 1 .. strlen(b) |-> b.text[i - 1]]

\* How far a glyph moves the pen.
drawCharacter(ch) == Columns[ch] + 2

\* Variant: a glyph may stand a point further to the right.
WrapLate(pen) ==
  IF pen.x > WIDTH - CHARACTER_WIDTH + 1 THEN [x |-> CHARACTER_WIDTH, line |-> pen.line + 1] ELSE pen

\* A pen too far to the right goes on in the next line.
Wrap(pen) ==
  IF pen.x > WIDTH - CHARACTER_WIDTH THEN [x |-> CHARACTER_WIDTH, line |-> pen.line + 1] ELSE pen

\* The pen after each of the characters shown; the cursor is drawn at the pen
\* after the character before it.
drawTextBox(b) ==
  LET pen[i \in 0 .. strlen(b)] ==
        IF i = 0 THEN [x |-> CHARACTER_WIDTH, line |-> 0]
        ELSE LET at == Wrap(pen[i - 1])
                 ch == b.text[i - 1]
             IN  IF ch = NL THEN [x |-> CHARACTER_WIDTH, line |-> at.line + 1]
                 ELSE [at EXCEPT !.x = @ + drawCharacter(ch)]
  IN  pen

\* The text and its terminator, written over the start of the file.
saveFile ==
  /\ LET bytes == Append(Shown(box), NUL)
     IN  file' = bytes \o SubSeq(file, Len(bytes) + 1, Len(file))
  /\ UNCHANGED <<box, overrun>>

\* The window is closed and the file opened again.
cat ==
  LET size == Len(file)
  IN  /\ box' = [text |-> [i \in Places |-> IF i < size THEN file[i + 1] ELSE NUL],
                 textLength |-> size, cursor |-> size]
      /\ overrun' = (size >= MAX_STRING_NUM)
      /\ UNCHANGED file

Stopped == overrun /\ UNCHANGED vars

Next == (~overrun /\ (keyboardHandler \/ saveFile \/ cat)) \/ Stopped

Spec == Init /\ [][Next]_vars

----------------------------------------------------------------------------
\* Whatever is typed, erased, saved and loaded, the cursor is in the text and the
\* text ends in a terminator inside the array, as long as the text and its
\* terminator fit.  insertCharacter and cat do not look whether they do
\* (kbd.c:24, editor.c:34): one more character in a full box, or a file of that
\* size, is an overrun, after which nothing is claimed; a shorter text never
\* comes to one.
BoxOK ==
  /\ box.text \in [Places -> Chars \cup {NUL}]
  /\ file \in Seq(Chars \cup {NUL})
  /\ overrun \in BOOLEAN
  /\ ~overrun => /\ box.textLength \in Places
                 /\ box.cursor \in 0 .. box.textLength
                 /\ box.text[box.textLength] = NUL
  /\ overrun => box.textLength >= MAX_STRING_NUM - 1

\* The line and the column of a place, counted from the start of the text.
Line(b, i) == Cardinality({j \in Places : j < i /\ b.text[j] = NL})

Column(b, i) == Cardinality({j \in Places : j < i /\ Line(b, j) = Line(b, i)})

\* The places of a line, up to where it ends.
OnLine(b, line) == {i \in 0 .. strlen(b) : Line(b, i) = line}

\* The up and down arrows move the cursor by one line, and keep its column
\* unless the other line is too short for it (moveCursor's two scans, in the
\* text that is shown).
ArrowsMoveByLine ==
  (~overrun /\ box.cursor <= strlen(box)) =>
    \A down \in BOOLEAN :
      LET b == IF down THEN moveDown(box) ELSE moveUp(box)
          there == OnLine(box, Line(box, box.cursor) + IF down THEN 1 ELSE -1)
      IN  IF there = {} THEN b = box
          ELSE /\ b.cursor \in there
               /\ \A i \in there : Column(box, i) <= Column(box, box.cursor)
                                     => Column(box, i) <= Column(box, b.cursor)
               /\ Column(box, b.cursor) <= Column(box, box.cursor)

\* The text stays between the sides of its box, and the cursor has a point of
\* its own for every place in the text, further on in reading order for a later
\* place: however lines are broken by newlines and by drawTextBox, what is
\* typed next appears behind the cursor that is seen.
TextInBox ==
  ~overrun =>
    LET pen == drawTextBox(box)
        before(p, q) == p.line < q.line \/ (p.line = q.line /\ p.x < q.x)
    IN  \A i \in 1 .. strlen(box) :
          /\ before(pen[i - 1], pen[i])
          /\ box.text[i - 1] # NL =>
               /\ CHARACTER_WIDTH <= pen[i].x - drawCharacter(box.text[i - 1])
               /\ pen[i].x - drawCharacter(box.text[i - 1]) + CHARACTER_WIDTH <= WIDTH

\* What is typed is part of the text that is shown and that saveFile saves, and
\* no key takes the cursor out of that text.  A cursor is outside it only since
\* cat loaded a saved file, whose terminator it counts as text (editor.c:39):
\* what is typed there is neither shown nor saved.
TypedIsShown ==
  [][(box.cursor <= strlen(box) /\ keyboardHandler /\ ~overrun') =>
       /\ box'.cursor <= strlen(box')
       /\ strlen(box') - strlen(box) = box'.textLength - box.textLength]_vars
============================================================================
