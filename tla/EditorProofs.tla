---------------------------- MODULE EditorProofs ----------------------------
(***************************************************************************)
(* Proofs about the editor's text box, for a text array of any length, any *)
(* letters and any widths: the box stays well formed, what is typed is     *)
(* shown, the arrows move by one line, and the drawn text stays in its box.*)
(***************************************************************************)
EXTENDS Editor, FiniteSetTheorems, WellFoundedInduction, TLAPS

----------------------------------------------------------------------------
(* Facts about sets of numbers and about lists.                            *)

\* A non-empty set of naturals has a least element.
LEMMA MinOfNats ==
  ASSUME NEW S \in SUBSET Nat, S # {}
  PROVE  Min(S) \in S /\ \A y \in S : Min(S) <= y
<1> DEFINE R == {ss \in Nat \X Nat : ss[1] < ss[2]}
<1>1. IsWellFoundedOn(R, Nat)
  BY NatLessThanWellFounded DEF OpToRel
<1>2. PICK x \in S : \A y \in S : ~(<<y, x>> \in R)
  BY <1>1, WFMin, Zenon
<1>3. ASSUME NEW y \in S PROVE x <= y
  <2>1. ~(<<y, x>> \in R) /\ x \in Nat /\ y \in Nat
    BY <1>2
  <2>2. QED
    BY <2>1
<1>4. QED
  BY <1>3, Zenon DEF Min

\* What holds of 0, and of n + 1 with n, holds of every natural number: the
\* induction principle for a property given as a set.
LEMMA InductionOnSet ==
  ASSUME NEW S, 0 \in S, \A n \in Nat : n \in S => n + 1 \in S
  PROVE  Nat \subseteq S
<1>1. SUFFICES ASSUME Nat \ S # {} PROVE FALSE
  OBVIOUS
<1>2. PICK m \in Nat \ S : \A y \in Nat \ S : m <= y
  BY <1>1, MinOfNats, Zenon
<1>3. m # 0 /\ m - 1 \in Nat /\ m - 1 \in S
  BY <1>2
<1>4. QED
  BY <1>2, <1>3

\* A non-empty bounded set of naturals has a greatest element.
LEMMA MaxOfNats ==
  ASSUME NEW bound \in Nat, NEW S \in SUBSET (0..bound), S # {}
  PROVE  Max(S) \in S /\ \A y \in S : y <= Max(S)
<1> DEFINE T == {y \in Nat : bound - y \in S}
<1>1. T \in SUBSET Nat /\ T # {}
  <2>1. PICK x \in S : TRUE
    BY Zenon
  <2>2. bound - x \in T
    BY <2>1
  <2>3. QED
    BY <2>2, Zenon
<1>2. Min(T) \in T /\ \A y \in T : Min(T) <= y
  BY <1>1, MinOfNats
<1>3. \A x \in S : Min(T) <= bound - x
  <2>1. \A x \in S : bound - x \in T
    OBVIOUS
  <2>2. QED
    BY <1>2, <2>1
<1>4. bound - Min(T) \in S /\ \A y \in S : bound - Min(T) >= y
  BY <1>2, <1>3
<1>5. Max(S) \in S /\ \A y \in S : Max(S) >= y
  BY <1>4, Zenon DEF Max
<1>6. QED
  BY <1>5

\* The empty list is a list of anything, and another list has a length.
LEMMA EmptyList ==
  ASSUME NEW S
  PROVE  <<>> \in Seq(S) /\ \A l \in Seq(S) : l # <<>> => Len(l) \in Nat \ {0}
OBVIOUS

----------------------------------------------------------------------------
Boxes == [text : [Places -> Chars \cup {NUL}], textLength : Nat, cursor : Nat]

\* A box whose cursor is in its text and whose text ends inside the array.
WellFormed(b) ==
  /\ b \in Boxes
  /\ b.textLength \in Places
  /\ b.cursor <= b.textLength
  /\ b.text[b.textLength] = NUL

\* A text that fills the array, or more.
Full(b) == b.textLength >= MAX_STRING_NUM - 1

IInv ==
  /\ box \in Boxes
  /\ file \in Seq(Chars \cup {NUL})
  /\ overrun \in BOOLEAN
  /\ ~overrun => WellFormed(box)
  /\ overrun => Full(box)

----------------------------------------------------------------------------
\* LineStart is the place after the last newline before place i, or 0 (the scan
\* backwards in moveCursor).
LEMMA LineStartIs ==
  ASSUME NEW b \in Boxes, NEW i \in Nat
  PROVE  /\ LineStart(b, i) \in 0 .. i
         /\ LineStart(b, i) > 0 => /\ LineStart(b, i) - 1 \in Places
                                   /\ b.text[LineStart(b, i) - 1] = NL
         /\ \A j \in Places : LineStart(b, i) <= j /\ j < i => b.text[j] # NL
<1> DEFINE N == {k \in Places : k < i /\ b.text[k] = NL}
<1> DEFINE S == {0} \cup {j + 1 : j \in N}
<1>1. N \subseteq Nat /\ \A j \in N : j + 1 <= i
  BY EditorAssumption DEF Places
<1>2. S \in SUBSET (0 .. i) /\ S # {}
  BY <1>1
<1>3. Max(S) \in S /\ \A y \in S : y <= Max(S)
  BY <1>2, MaxOfNats, Zenon
<1>4. LineStart(b, i) = Max(S)
  BY DEF LineStart
<1>5. PICK m : m = Max(S)
  BY Zenon
<1>6. m \in 0 .. i
  BY <1>2, <1>3, <1>5
<1>7. m > 0 => m - 1 \in N
  BY <1>1, <1>3, <1>5
<1>8. ASSUME NEW j \in Places, m <= j, j < i, b.text[j] = NL PROVE FALSE
  <2>1. j \in N /\ j + 1 \in S
    BY <1>8
  <2>2. j + 1 <= m /\ j \in Nat /\ m \in Nat
    BY <1>1, <1>3, <1>5, <1>6, <2>1
  <2>3. QED
    BY <1>8, <2>2
<1>9. QED
  BY <1>4, <1>5, <1>6, <1>7, <1>8

\* NextIn is the first place from i on that ends a line or the text (the scan
\* forwards in moveCursor); there is one up to the end of the text.
LEMMA NextInIs ==
  ASSUME NEW b, WellFormed(b), NEW i \in 0 .. b.textLength
  PROVE  /\ NextIn(b, i, {NL, NUL}) \in i .. b.textLength
         /\ NextIn(b, i, {NL, NUL}) \in Places
         /\ b.text[NextIn(b, i, {NL, NUL})] \in {NL, NUL}
         /\ \A j \in Places : i <= j /\ j < NextIn(b, i, {NL, NUL}) => b.text[j] \notin {NL, NUL}
<1> DEFINE L == b.textLength
<1> DEFINE C == {j \in Places : i <= j /\ j <= L /\ b.text[j] \in {NL, NUL}}
<1>1. L \in Nat /\ L \in Places /\ Places \subseteq Nat
  BY EditorAssumption DEF WellFormed, Places
<1>2. L \in C
  BY <1>1 DEF WellFormed
<1>3. {L + 1} \cup C \in SUBSET Nat /\ {L + 1} \cup C # {}
  <2>1. L + 1 \in Nat /\ C \subseteq Nat
    BY <1>1
  <2>2. QED
    BY <2>1
<1>4. PICK e : e = Min({L + 1} \cup C)
  OBVIOUS
<1>5. e \in {L + 1} \cup C /\ \A y \in {L + 1} \cup C : e <= y
  BY <1>3, <1>4, MinOfNats
<1>6. e <= L
  BY <1>2, <1>5, Zenon
<1>7. e \in C
  BY <1>1, <1>5, <1>6
<1>8. NextIn(b, i, {NL, NUL}) = e
  BY <1>4 DEF NextIn
<1>9. ASSUME NEW j \in Places, i <= j, j < e PROVE b.text[j] \notin {NL, NUL}
  <2>1. j \notin C
    <3>1. j \in C => e <= j
      BY <1>5, Zenon
    <3>2. QED
      BY <1>1, <1>7, <1>9, <3>1
  <2>2. j <= L
    BY <1>1, <1>6, <1>7, <1>9
  <2>3. QED
    BY <1>9, <2>1, <2>2
<1>10. e \in i .. L
  BY <1>1, <1>7
<1>11. QED
  BY <1>7, <1>8, <1>9, <1>10

\* The length of what is shown is the only place with a terminator and none
\* before it.
LEMMA StrlenUnique ==
  ASSUME NEW b, NEW n \in Places, b.text[n] = NUL,
         \A j \in Places : j < n => b.text[j] # NUL
  PROVE  strlen(b) = n
<1> DEFINE Z == {i \in Places : b.text[i] = NUL}
<1>1. Places \subseteq Nat
  BY EditorAssumption DEF Places
<1>2. n \in Z /\ Z \in SUBSET Nat
  BY <1>1
<1>3. PICK m : m = Min(Z)
  OBVIOUS
<1>4. m \in Z /\ m <= n
  BY <1>2, <1>3, MinOfNats
<1>5. m = n
  BY <1>1, <1>4
<1>6. QED
  BY <1>3, <1>5 DEF strlen

\* What is shown ends in the text, at its first terminator.
LEMMA StrlenIs ==
  ASSUME NEW b, WellFormed(b)
  PROVE  /\ strlen(b) \in 0 .. b.textLength
         /\ strlen(b) \in Places
         /\ b.text[strlen(b)] = NUL
         /\ \A j \in Places : j < strlen(b) => b.text[j] # NUL
<1> DEFINE Z == {i \in Places : b.text[i] = NUL}
<1>1. Places \subseteq Nat /\ b.textLength \in Nat
  BY EditorAssumption DEF Places, WellFormed
<1>2. b.textLength \in Z /\ Z \in SUBSET Nat
  BY <1>1, Zenon DEF WellFormed
<1>3. PICK m : m = Min(Z)
  OBVIOUS
<1>4. m \in Z /\ \A y \in Z : m <= y
  BY <1>2, <1>3, MinOfNats
<1>5. m \in 0 .. b.textLength
  BY <1>1, <1>2, <1>4
<1>6. ASSUME NEW j \in Places, j < m PROVE b.text[j] # NUL
  <2>1. j \in Z => m <= j
    BY <1>4
  <2>2. QED
    BY <1>1, <1>4, <1>6, <2>1
<1>7. QED
  BY <1>3, <1>4, <1>5, <1>6 DEF strlen

\* A scan forwards from a place in what is shown stops in it.
LEMMA ScanStops ==
  ASSUME NEW b, WellFormed(b), NEW i \in 0 .. b.textLength, i <= strlen(b)
  PROVE  NextIn(b, i, {NL, NUL}) <= strlen(b)
<1>1. PICK e : e = NextIn(b, i, {NL, NUL})
  OBVIOUS
<1>2. e \in i .. b.textLength /\ \A j \in Places : i <= j /\ j < e => b.text[j] \notin {NL, NUL}
  BY <1>1, NextInIs
<1>3. strlen(b) \in 0 .. b.textLength /\ strlen(b) \in Places /\ b.text[strlen(b)] = NUL
  BY StrlenIs
<1>4. ~(strlen(b) < e)
  BY <1>2, <1>3
<1>5. QED
  BY <1>1, <1>2, <1>3, <1>4 DEF WellFormed, Boxes

----------------------------------------------------------------------------
\* The up arrow puts the cursor in the line above, at its distance from the
\* start of the line or at the end of a shorter one (case KEY_UP).
LEMMA UpMoves ==
  ASSUME NEW b, WellFormed(b),
         NEW start, start = LineStart(b, b.cursor),
         NEW low, low = LineStart(b, start - 1)
  PROVE  /\ start \in 0 .. b.cursor
         /\ start = 0 => moveUp(b) = b
         /\ start > 0 => /\ low \in 0 .. start - 1
                         /\ \E c \in low .. start - 1 :
                              /\ moveUp(b) = [b EXCEPT !.cursor = c]
                              /\ c = start - 1 \/ c = low + (b.cursor - start)
                              /\ c <= low + (b.cursor - start)
<1>1. b \in Boxes /\ b.cursor \in Nat
  BY DEF WellFormed, Boxes
<1>2. start \in 0 .. b.cursor
  BY <1>1, LineStartIs
<1>3. start = 0 => moveUp(b) = b
  BY DEF moveUp
<1>4. ASSUME start > 0
      PROVE  /\ low \in 0 .. start - 1
             /\ \E c \in low .. start - 1 :
                  /\ moveUp(b) = [b EXCEPT !.cursor = c]
                  /\ c = start - 1 \/ c = low + (b.cursor - start)
                  /\ c <= low + (b.cursor - start)
  <2>1. start - 1 \in Nat
    BY <1>1, <1>2, <1>4
  <2>2. low \in 0 .. start - 1
    BY <1>1, <2>1, LineStartIs
  <2>3. PICK c : c = IF start - 1 < low + (b.cursor - start) THEN start - 1
                     ELSE low + (b.cursor - start)
    OBVIOUS
  <2>4. /\ c \in low .. start - 1 /\ c <= low + (b.cursor - start)
        /\ c = start - 1 \/ c = low + (b.cursor - start)
    BY <1>1, <1>2, <1>4, <2>2, <2>3
  <2>5. moveUp(b) = Below(b, low, start - 1)
    BY <1>1, <1>2, <1>4 DEF moveUp
  <2>6. Below(b, low, start - 1) = [b EXCEPT !.cursor = c]
    BY <2>3 DEF Below
  <2>7. QED
    BY <2>2, <2>4, <2>5, <2>6
<1>5. QED
  BY <1>2, <1>3, <1>4

\* The down arrow puts the cursor in the line below, if there is one (case KEY_DN).
LEMMA DownMoves ==
  ASSUME NEW b, WellFormed(b),
         NEW first, first = LineStart(b, b.cursor),
         NEW end, end = NextIn(b, first, {NL, NUL}),
         NEW last, last = NextIn(b, end + 1, {NL, NUL})
  PROVE  /\ first \in 0 .. b.cursor
         /\ end \in first .. b.textLength
         /\ b.text[end] = NUL => moveDown(b) = b
         /\ b.text[end] # NUL => /\ end + 1 \in 0 .. b.textLength
                                 /\ last \in end + 1 .. b.textLength
                                 /\ \E c \in end + 1 .. last :
                                      /\ moveDown(b) = [b EXCEPT !.cursor = c]
                                      /\ c = last \/ c = end + 1 + (b.cursor - first)
                                      /\ c <= end + 1 + (b.cursor - first)
<1>1. b \in Boxes /\ b.cursor \in Nat /\ b.textLength \in Nat /\ b.cursor <= b.textLength
  BY DEF WellFormed, Boxes
<1>2. first \in 0 .. b.cursor
  BY <1>1, LineStartIs
<1>3. end \in first .. b.textLength
  <2>1. first \in 0 .. b.textLength
    BY <1>1, <1>2
  <2>2. QED
    BY <2>1, NextInIs
<1>4. b.text[end] = NUL => moveDown(b) = b
  BY DEF moveDown
<1>5. ASSUME b.text[end] # NUL
      PROVE  /\ end + 1 \in 0 .. b.textLength
             /\ last \in end + 1 .. b.textLength
             /\ \E c \in end + 1 .. last :
                  /\ moveDown(b) = [b EXCEPT !.cursor = c]
                  /\ c = last \/ c = end + 1 + (b.cursor - first)
                  /\ c <= end + 1 + (b.cursor - first)
  <2>1. end # b.textLength
    BY <1>5 DEF WellFormed
  <2>2. end + 1 \in 0 .. b.textLength
    BY <1>1, <1>2, <1>3, <2>1
  <2>3. last \in end + 1 .. b.textLength
    BY <2>2, NextInIs
  <2>4. PICK c : c = IF last < end + 1 + (b.cursor - first) THEN last
                     ELSE end + 1 + (b.cursor - first)
    OBVIOUS
  <2>5. /\ c \in end + 1 .. last /\ c <= end + 1 + (b.cursor - first)
        /\ c = last \/ c = end + 1 + (b.cursor - first)
    BY <1>1, <1>2, <2>2, <2>3, <2>4
  <2>6. moveDown(b) = Below(b, end + 1, last)
    BY <1>5 DEF moveDown
  <2>7. Below(b, end + 1, last) = [b EXCEPT !.cursor = c]
    BY <2>4 DEF Below
  <2>8. QED
    BY <2>2, <2>3, <2>5, <2>6, <2>7, Zenon
<1>6. QED
  BY <1>2, <1>3, <1>4, <1>5, Zenon

\* An arrow key leaves the text alone and the cursor in it; a cursor in what is
\* shown stays in what is shown.
LEMMA ArrowsKeep ==
  ASSUME NEW b, WellFormed(b), NEW d \in moveCursor(b)
  PROVE  \E c \in 0 .. b.textLength :
           /\ d = [b EXCEPT !.cursor = c]
           /\ b.cursor <= strlen(b) => c <= strlen(b)
<1>1. /\ b \in Boxes /\ b.cursor \in Nat /\ b.textLength \in Nat /\ b.cursor <= b.textLength
      /\ b.text[b.textLength] = NUL /\ b = [b EXCEPT !.cursor = b.cursor]
      /\ b.cursor \in Places
  BY EditorAssumption DEF WellFormed, Boxes, Places
<1>2. /\ strlen(b) \in 0 .. b.textLength /\ strlen(b) \in Places
      /\ b.text[strlen(b)] = NUL
  BY StrlenIs
<1>3. CASE d = b
  BY <1>1, <1>3
<1>4. CASE d = moveLeft(b) /\ d # b
  BY <1>1, <1>2, <1>4 DEF moveLeft
<1>5. CASE d = moveRight(b) /\ d # b
  <2>1. b.text[b.cursor] \in Letters /\ d = [b EXCEPT !.cursor = b.cursor + 1]
    BY <1>5 DEF moveRight
  <2>2. b.cursor # b.textLength /\ b.cursor # strlen(b)
    BY <1>1, <1>2, <2>1, EditorAssumption
  <2>3. QED
    BY <1>1, <1>2, <2>1, <2>2
<1>6. CASE d = moveUp(b) /\ d # b
  <2>1. PICK start : start = LineStart(b, b.cursor)
    OBVIOUS
  <2>2. PICK low : low = LineStart(b, start - 1)
    OBVIOUS
  <2>3. start > 0 /\ start \in 0 .. b.cursor
    BY <1>1, <1>6, <2>1, <2>2, UpMoves
  <2>4. low \in 0 .. start - 1 /\ \E c \in low .. start - 1 : d = [b EXCEPT !.cursor = c]
    BY <1>6, <2>1, <2>2, <2>3, UpMoves
  <2>5. QED
    BY <1>1, <1>2, <2>3, <2>4
<1>7. CASE d = moveDown(b) /\ d # b
  <2>1. PICK first : first = LineStart(b, b.cursor)
    OBVIOUS
  <2>2. PICK end : end = NextIn(b, first, {NL, NUL})
    OBVIOUS
  <2>3. PICK last : last = NextIn(b, end + 1, {NL, NUL})
    OBVIOUS
  <2>4. first \in 0 .. b.cursor /\ end \in first .. b.textLength /\ b.text[end] # NUL
    BY <1>7, <2>1, <2>2, <2>3, DownMoves, Zenon
  <2>5. /\ end + 1 \in 0 .. b.textLength /\ last \in end + 1 .. b.textLength
        /\ \E c \in end + 1 .. last : d = [b EXCEPT !.cursor = c]
    <3>1. /\ end + 1 \in 0 .. b.textLength
          /\ last \in end + 1 .. b.textLength
          /\ \E c \in end + 1 .. last :
               /\ moveDown(b) = [b EXCEPT !.cursor = c]
               /\ c = last \/ c = end + 1 + (b.cursor - first)
               /\ c <= end + 1 + (b.cursor - first)
      BY <2>1, <2>2, <2>3, <2>4, DownMoves, Zenon
    <3>2. QED
      BY <1>7, <3>1
  <2>6. b.cursor <= strlen(b) => last <= strlen(b)
    <3>1. HAVE b.cursor <= strlen(b)
    <3>2. first \in 0 .. b.textLength /\ first <= strlen(b)
      BY <1>1, <1>2, <2>4, <3>1
    <3>3. end <= strlen(b)
      BY <2>2, <3>2, ScanStops
    <3>4. end # strlen(b)
      BY <1>2, <2>4
    <3>5. end + 1 <= strlen(b)
      BY <1>1, <1>2, <2>4, <3>2, <3>3, <3>4
    <3>6. QED
      BY <2>3, <2>5, <3>5, ScanStops
  <2>7. PICK c \in end + 1 .. last : d = [b EXCEPT !.cursor = c]
    BY <2>5
  <2>8. c \in 0 .. b.textLength /\ c <= last /\ c \in Int /\ last \in Int
    BY <1>1, <2>4, <2>5, <2>7
  <2>9. b.cursor <= strlen(b) => c <= strlen(b)
    BY <1>2, <2>6, <2>8
  <2>10. QED
    BY <2>7, <2>8, <2>9
<1>8. QED
  BY <1>3, <1>4, <1>5, <1>6, <1>7 DEF moveCursor

----------------------------------------------------------------------------
\* insertCharacter with room keeps the box well formed; a character typed in what
\* is shown makes it one longer.
LEMMA InsertKeeps ==
  ASSUME NEW b, WellFormed(b), Room(b), NEW ch \in Chars,
         NEW d, d = insertCharacter(b, ch)
  PROVE  /\ WellFormed(d)
         /\ d.textLength = b.textLength + 1
         /\ b.cursor <= strlen(b) => d.cursor <= strlen(d) /\ strlen(d) = strlen(b) + 1
<1>1. /\ b.cursor \in Nat /\ b.textLength \in Nat /\ b.cursor <= b.textLength
      /\ b.text[b.textLength] = NUL /\ b.text \in [Places -> Chars \cup {NUL}]
      /\ b.textLength \in Places
  BY DEF WellFormed, Boxes
<1>2. /\ MAX_STRING_NUM \in Nat /\ b.textLength + 1 < MAX_STRING_NUM /\ ch # NUL
      /\ Places = 0 .. MAX_STRING_NUM - 1
  BY EditorAssumption DEF Room, Chars, Places
<1>3. /\ d.textLength = b.textLength + 1 /\ d.cursor = b.cursor + 1
      /\ d = [text |-> d.text, textLength |-> d.textLength, cursor |-> d.cursor]
  BY DEF insertCharacter
<1>4. d.text = [i \in Places |-> IF i = b.cursor THEN ch
                                ELSE IF i \in b.cursor + 1 .. b.textLength + 1 THEN b.text[i - 1]
                                ELSE b.text[i]]
  BY DEF insertCharacter
<1>5. d.text \in [Places -> Chars \cup {NUL}]
  BY <1>1, <1>2, <1>4
<1>6. d.text[b.textLength + 1] = NUL /\ b.textLength + 1 \in Places
  BY <1>1, <1>2, <1>4
<1>7. WellFormed(d)
  BY <1>1, <1>3, <1>5, <1>6 DEF WellFormed, Boxes
<1>8. ASSUME b.cursor <= strlen(b) PROVE d.cursor <= strlen(d) /\ strlen(d) = strlen(b) + 1
  <2>1. PICK n : n = strlen(b)
    OBVIOUS
  <2>2. /\ n \in 0 .. b.textLength /\ b.text[n] = NUL
        /\ \A j \in Places : j < n => b.text[j] # NUL
    BY <2>1, StrlenIs
  <2>3. n + 1 \in Places /\ d.text[n + 1] = NUL
    <3>1. /\ n + 1 \in Places /\ n + 1 # b.cursor /\ (n + 1) - 1 = n
          /\ n + 1 \in b.cursor + 1 .. b.textLength + 1
      BY <1>1, <1>2, <1>8, <2>1, <2>2
    <3>2. QED
      BY <1>4, <2>2, <3>1
  <2>4. ASSUME NEW j \in Places, j < n + 1 PROVE d.text[j] # NUL
    <3>1. CASE j < b.cursor
      BY <1>1, <1>2, <1>4, <1>8, <2>1, <2>2, <2>4, <3>1
    <3>2. CASE j = b.cursor
      BY <1>2, <1>4, <3>2
    <3>3. CASE j > b.cursor
      <4>1. j - 1 \in Places /\ j - 1 < n /\ j \in b.cursor + 1 .. b.textLength + 1
        BY <1>1, <1>2, <2>2, <2>4, <3>3
      <4>2. d.text[j] = b.text[j - 1]
        BY <1>1, <1>2, <1>4, <3>3, <4>1
      <4>3. QED
        BY <2>2, <4>1, <4>2
    <3>4. QED
      BY <1>1, <1>2, <3>1, <3>2, <3>3
  <2>5. strlen(d) = n + 1
    BY <2>3, <2>4, StrlenUnique
  <2>6. QED
    BY <1>1, <1>3, <1>8, <2>1, <2>2, <2>5
<1>9. QED
  BY <1>3, <1>7, <1>8

\* deleteCharacter keeps the box well formed; a character erased from what is
\* shown makes it one shorter.
LEMMA DeleteKeeps ==
  ASSUME NEW b, WellFormed(b), NEW d, d = deleteCharacter(b)
  PROVE  /\ WellFormed(d)
         /\ b.cursor <= strlen(b) => /\ d.cursor <= strlen(d)
                                     /\ strlen(d) - strlen(b) = d.textLength - b.textLength
<1>1. /\ b.cursor \in Nat /\ b.textLength \in Nat /\ b.cursor <= b.textLength
      /\ b.text[b.textLength] = NUL /\ b.text \in [Places -> Chars \cup {NUL}]
      /\ b.textLength \in Places /\ MAX_STRING_NUM \in Nat /\ Places = 0 .. MAX_STRING_NUM - 1
  BY EditorAssumption DEF WellFormed, Boxes, Places
<1>2. PICK n : n = strlen(b)
  OBVIOUS
<1>3. /\ n \in 0 .. b.textLength /\ b.text[n] = NUL
      /\ \A j \in Places : j < n => b.text[j] # NUL
  BY <1>2, StrlenIs
<1>4. CASE b.cursor = 0
  <2>1. d = b
    BY <1>4 DEF deleteCharacter
  <2>2. QED
    BY <1>1, <1>2, <1>3, <2>1
<1>5. CASE b.cursor # 0
  <2>1. /\ d.textLength = b.textLength - 1 /\ d.cursor = b.cursor - 1
        /\ d = [text |-> d.text, textLength |-> d.textLength, cursor |-> d.cursor]
    BY <1>5 DEF deleteCharacter
  <2>2. d.text = [i \in Places |-> IF i \in b.cursor - 1 .. b.textLength - 1 THEN b.text[i + 1]
                                  ELSE b.text[i]]
    BY <1>5 DEF deleteCharacter
  <2>3. d.text \in [Places -> Chars \cup {NUL}]
    BY <1>1, <2>2
  <2>4. d.text[b.textLength - 1] = NUL /\ b.textLength - 1 \in Places
    BY <1>1, <1>5, <2>2
  <2>5. WellFormed(d)
    BY <1>1, <1>5, <2>1, <2>3, <2>4 DEF WellFormed, Boxes
  <2>6. ASSUME b.cursor <= n PROVE strlen(d) = n - 1
    <3>1. n - 1 \in Places /\ d.text[n - 1] = NUL
      BY <1>1, <1>3, <1>5, <2>2, <2>6
    <3>2. ASSUME NEW j \in Places, j < n - 1 PROVE d.text[j] # NUL
      <4>1. CASE j < b.cursor - 1
        BY <1>1, <1>3, <2>2, <3>2, <4>1
      <4>2. CASE j >= b.cursor - 1
        <5>1. j + 1 \in Places /\ j + 1 < n /\ j \in b.cursor - 1 .. b.textLength - 1
          BY <1>1, <1>3, <3>2, <4>2
        <5>2. d.text[j] = b.text[j + 1]
          BY <2>2, <5>1
        <5>3. QED
          BY <1>3, <5>1, <5>2
      <4>3. QED
        BY <1>1, <4>1, <4>2
    <3>3. QED
      BY <3>1, <3>2, StrlenUnique
  <2>7. QED
    BY <1>1, <1>2, <1>3, <1>5, <2>1, <2>5, <2>6
<1>6. QED
  BY <1>4, <1>5

----------------------------------------------------------------------------
\* Every key leaves a well-formed box well formed, or is an overrun; while the
\* cursor is in what is shown, what is typed and erased there is shown.
LEMMA KeyKeeps ==
  ASSUME WellFormed(box), keyboardHandler, ~overrun'
  PROVE  /\ WellFormed(box')
         /\ box.cursor <= strlen(box) =>
              /\ box'.cursor <= strlen(box')
              /\ strlen(box') - strlen(box) = box'.textLength - box.textLength
<1>1. PICK b : b = box
  OBVIOUS
<1>2. PICK d : d = box'
  OBVIOUS
<1>3. WellFormed(b)
  BY <1>1
<1>4. \/ \E ch \in Chars : Room(b) /\ d = insertCharacter(b, ch)
      \/ d = deleteCharacter(b)
      \/ d \in moveCursor(b)
  BY <1>1, <1>2 DEF keyboardHandler
<1>5. /\ WellFormed(d)
      /\ b.cursor <= strlen(b) => /\ d.cursor <= strlen(d)
                                  /\ strlen(d) - strlen(b) = d.textLength - b.textLength
  <2>1. CASE \E ch \in Chars : Room(b) /\ d = insertCharacter(b, ch)
    <3>1. /\ WellFormed(d) /\ d.textLength = b.textLength + 1
          /\ b.cursor <= strlen(b) => d.cursor <= strlen(d) /\ strlen(d) = strlen(b) + 1
      BY <1>3, <2>1, InsertKeeps
    <3>2. strlen(b) \in Int /\ b.textLength \in Int
      BY <1>3, StrlenIs DEF WellFormed, Boxes
    <3>3. QED
      BY <3>1, <3>2
  <2>2. CASE d = deleteCharacter(b)
    BY <1>3, <2>2, DeleteKeeps
  <2>3. CASE d \in moveCursor(b)
    <3>1. PICK c \in 0 .. b.textLength : /\ d = [b EXCEPT !.cursor = c]
                                         /\ b.cursor <= strlen(b) => c <= strlen(b)
      BY <1>3, <2>3, ArrowsKeep
    <3>2. /\ b \in Boxes /\ b.textLength \in Places /\ b.text[b.textLength] = NUL
          /\ b.textLength \in Nat
      BY <1>3 DEF WellFormed, Boxes
    <3>3. d.text = b.text /\ d.textLength = b.textLength /\ d.cursor = c /\ d \in Boxes
      BY <3>1, <3>2 DEF Boxes
    <3>4. WellFormed(d)
      BY <3>1, <3>2, <3>3 DEF WellFormed
    <3>5. strlen(d) = strlen(b) /\ strlen(b) \in Int
      <4>1. strlen(d) = strlen(b)
        BY <3>3 DEF strlen
      <4>2. strlen(b) \in 0 .. b.textLength
        BY <1>3, StrlenIs
      <4>3. QED
        BY <3>2, <4>1, <4>2
    <3>6. QED
      BY <3>1, <3>2, <3>3, <3>4, <3>5
  <2>4. QED
    BY <1>4, <2>1, <2>2, <2>3
<1>6. QED
  BY <1>1, <1>2, <1>5 DEF strlen

\* saveFile writes characters and a terminator.
LEMMA SavedType ==
  ASSUME IInv, saveFile, ~overrun
  PROVE  file' \in Seq(Chars \cup {NUL})
<1>1. WellFormed(box) /\ file \in Seq(Chars \cup {NUL})
  BY DEF IInv
<1>2. PICK n : n = strlen(box)
  OBVIOUS
<1>3. n \in Nat /\ n \in Places /\ box.text \in [Places -> Chars \cup {NUL}]
  BY <1>1, <1>2, StrlenIs DEF WellFormed, Boxes
<1>4. PICK shown : shown = [i \in 1 .. n |-> box.text[i - 1]]
  BY Zenon
<1>5. shown \in Seq(Chars \cup {NUL})
  <2>1. \A i \in 1 .. n : i - 1 \in Places
    BY <1>3, EditorAssumption DEF Places
  <2>2. QED
    BY <1>3, <1>4, <2>1
<1>6. PICK bytes : bytes = Append(shown, NUL)
  BY Zenon
<1>7. bytes \in Seq(Chars \cup {NUL})
  BY <1>5, <1>6
<1>8. PICK rest : rest = SubSeq(file, Len(bytes) + 1, Len(file))
  BY Zenon
<1>9. rest \in Seq(Chars \cup {NUL})
  BY <1>1, <1>7, <1>8
<1>10. file' = bytes \o rest
  BY <1>2, <1>4, <1>6, <1>8 DEF saveFile, Shown
<1>11. QED
  BY <1>7, <1>9, <1>10

\* What cat loads is well formed, or an overrun.
LEMMA CatKeeps ==
  ASSUME IInv, cat
  PROVE  /\ box' \in Boxes /\ overrun' \in BOOLEAN
         /\ ~overrun' => WellFormed(box')
         /\ overrun' => Full(box')
<1>1. PICK size : size = Len(file)
  BY Zenon
<1>2. size \in Nat /\ \A i \in 1 .. size : file[i] \in Chars \cup {NUL}
  BY <1>1 DEF IInv
<1>3. MAX_STRING_NUM \in Nat /\ Places = 0 .. MAX_STRING_NUM - 1
  BY EditorAssumption DEF Places
<1>4. PICK t : t = [i \in Places |-> IF i < size THEN file[i + 1] ELSE NUL]
  BY Zenon
<1>5. t \in [Places -> Chars \cup {NUL}]
  BY <1>2, <1>3, <1>4
<1>6. box' = [text |-> t, textLength |-> size, cursor |-> size] /\ overrun' = (size >= MAX_STRING_NUM)
  BY <1>1, <1>4 DEF cat
<1>7. box' \in Boxes
  BY <1>2, <1>5, <1>6 DEF Boxes
<1>8. overrun' \in BOOLEAN
  BY <1>6
<1>9. ASSUME ~overrun' PROVE WellFormed(box')
  <2>1. size < MAX_STRING_NUM
    <3>1. ~(size >= MAX_STRING_NUM)
      BY <1>6, <1>9, Zenon
    <3>2. QED
      BY <1>2, <1>3, <3>1
  <2>2. size \in Places /\ t[size] = NUL
    BY <1>2, <1>3, <1>4, <2>1
  <2>3. QED
    BY <1>2, <1>6, <1>7, <2>2 DEF WellFormed
<1>10. ASSUME overrun' PROVE Full(box')
  <2>1. size >= MAX_STRING_NUM
    BY <1>6, <1>10, Zenon
  <2>2. QED
    BY <1>2, <1>3, <1>6, <2>1 DEF Full
<1>11. QED
  BY <1>7, <1>8, <1>9, <1>10

\* Init establishes the inductive invariant.
LEMMA InitIInv == Init => IInv
<1>1. HAVE Init
<1>2. box \in Boxes
  BY <1>1 DEF Init, EmptyBox, Boxes
<1>3. 0 \in Places
  BY EditorAssumption DEF Places
<1>4. WellFormed(box)
  BY <1>1, <1>2, <1>3 DEF Init, EmptyBox, WellFormed
<1>5. file \in Seq(Chars \cup {NUL}) /\ overrun \in BOOLEAN /\ ~overrun
  <2>1. file = <<>> /\ overrun = FALSE
    BY <1>1 DEF Init
  <2>2. QED
    BY <2>1, EmptyList, Zenon
<1>6. QED
  BY <1>2, <1>4, <1>5, Zenon DEF IInv

\* Every key, save and load keeps the inductive invariant.
LEMMA NextKeeps == IInv /\ [Next]_vars => IInv'
<1>1. SUFFICES ASSUME IInv, [Next]_vars PROVE IInv'
  OBVIOUS
<1>2. /\ box \in Boxes /\ file \in Seq(Chars \cup {NUL}) /\ overrun \in BOOLEAN
      /\ ~overrun => WellFormed(box)
      /\ overrun => Full(box)
  BY <1>1 DEF IInv
<1>3. CASE UNCHANGED vars
  <2>1. box' = box /\ file' = file /\ overrun' = overrun
    BY <1>3 DEF vars
  <2>2. QED
    BY <1>2, <2>1 DEF IInv
<1>4. CASE ~overrun /\ keyboardHandler
  <2>1. file' = file
    BY <1>4 DEF keyboardHandler
  <2>2. CASE ~Room(box) /\ overrun' = TRUE /\ box' = box
    <3>1. box.textLength \in Nat /\ MAX_STRING_NUM \in Nat
      BY <1>2, EditorAssumption DEF Boxes
    <3>2. Full(box')
      BY <2>2, <3>1 DEF Full, Room
    <3>3. QED
      BY <1>2, <2>1, <2>2, <3>2 DEF IInv
  <2>3. CASE overrun' = overrun
    <3>1. ~overrun'
      BY <1>4, <2>3
    <3>2. WellFormed(box')
      BY <1>2, <1>4, <3>1, KeyKeeps
    <3>3. box' \in Boxes
      BY <3>2 DEF WellFormed
    <3>4. overrun' \in BOOLEAN
      BY <1>2, <2>3
    <3>5. QED
      BY <1>2, <2>1, <3>1, <3>2, <3>3, <3>4, Zenon DEF IInv
  <2>4. QED
    BY <1>4, <2>2, <2>3, Zenon DEF keyboardHandler
<1>5. CASE ~overrun /\ saveFile
  <2>1. box' = box /\ overrun' = overrun
    BY <1>5 DEF saveFile
  <2>2. file' \in Seq(Chars \cup {NUL})
    BY <1>1, <1>5, SavedType
  <2>3. QED
    BY <1>2, <2>1, <2>2 DEF IInv
<1>6. CASE ~overrun /\ cat
  <2>1. /\ box' \in Boxes /\ overrun' \in BOOLEAN
        /\ ~overrun' => WellFormed(box')
        /\ overrun' => Full(box')
    BY <1>1, <1>6, CatKeeps
  <2>2. file' = file
    BY <1>6 DEF cat
  <2>3. QED
    BY <1>2, <2>1, <2>2 DEF IInv
<1>7. QED
  BY <1>1, <1>3, <1>4, <1>5, <1>6 DEF Next, Stopped

\* In every reachable state the inductive invariant holds.
THEOREM Invariant == Spec => []IInv
BY InitIInv, NextKeeps, PTL DEF Spec

\* Until the text fills the array, the box stays well formed, whatever is typed,
\* erased, saved and loaded: the cursor is in the text and the text ends inside
\* the array (keyboardHandler, saveFile and cat of the editor).
THEOREM BoxStaysOK == Spec => []BoxOK
<1>1. ASSUME IInv PROVE BoxOK
  <2>1. box.text \in [Places -> Chars \cup {NUL}]
    BY <1>1 DEF IInv, Boxes
  <2>2. ASSUME ~overrun
        PROVE  /\ box.textLength \in Places /\ box.cursor \in 0 .. box.textLength
               /\ box.text[box.textLength] = NUL
    <3>1. WellFormed(box)
      BY <1>1, <2>2 DEF IInv
    <3>2. QED
      BY <3>1 DEF WellFormed, Boxes
  <2>3. file \in Seq(Chars \cup {NUL}) /\ overrun \in BOOLEAN
        /\ (overrun => box.textLength >= MAX_STRING_NUM - 1)
    BY <1>1 DEF IInv, Full
  <2>4. QED
    BY <2>1, <2>2, <2>3, Zenon DEF BoxOK
<1>2. QED
  BY <1>1, Invariant, PTL

\* What is typed in the text that is shown is shown, and no key takes the cursor
\* out of that text (keyboardHandler in kbd.c).
THEOREM TypedTextIsShown == Spec => TypedIsShown
<1> DEFINE Shows == (box.cursor <= strlen(box) /\ keyboardHandler /\ ~overrun') =>
                      /\ box'.cursor <= strlen(box')
                      /\ strlen(box') - strlen(box) = box'.textLength - box.textLength
<1>1. ASSUME IInv, [Next]_vars PROVE [Shows]_vars
  <2>1. SUFFICES ASSUME box.cursor <= strlen(box), keyboardHandler, ~overrun'
                 PROVE  /\ box'.cursor <= strlen(box')
                        /\ strlen(box') - strlen(box) = box'.textLength - box.textLength
    OBVIOUS
  <2>2. CASE overrun
    <3>1. overrun' = TRUE \/ overrun' = overrun
      BY <2>1 DEF keyboardHandler
    <3>2. QED
      BY <2>1, <2>2, <3>1, Zenon
  <2>3. CASE ~overrun
    <3>1. WellFormed(box)
      BY <1>1, <2>3 DEF IInv
    <3>2. QED
      BY <2>1, <3>1, KeyKeeps
  <2>4. QED
    BY <2>2, <2>3
<1>2. QED
  BY <1>1, Invariant, PTL DEF Spec, TypedIsShown

----------------------------------------------------------------------------
\* Two places are on the same line exactly if no newline is between them, and a
\* later place is on no earlier line.
LEMMA LinesGrow ==
  ASSUME NEW b, NEW i \in Nat, NEW k \in Nat, i <= k
  PROVE  /\ Line(b, i) \in Nat /\ Line(b, k) \in Nat /\ Line(b, i) <= Line(b, k)
         /\ Line(b, i) = Line(b, k) <=> \A j \in Places : i <= j /\ j < k => b.text[j] # NL
<1> DEFINE S == {j \in Places : j < i /\ b.text[j] = NL}
<1> DEFINE T == {j \in Places : j < k /\ b.text[j] = NL}
<1>1. \A j \in Places : j \in Nat
  BY EditorAssumption DEF Places
<1>2. S \in SUBSET T /\ T \in SUBSET Nat /\ \A j \in T : j <= k
  <2>1. \A j \in Places : j < i => j < k
    BY <1>1
  <2>2. \A j \in Places : j < k => j <= k
    BY <1>1
  <2>3. QED
    BY <1>1, <2>1, <2>2
<1>3. IsFiniteSet(T)
  BY <1>2, FS_BoundedSetOfNaturals
<1>4. IsFiniteSet(S) /\ Cardinality(S) <= Cardinality(T) /\ (Cardinality(T) = Cardinality(S) => T = S)
  BY <1>2, <1>3, FS_Subset
<1>5. Cardinality(S) \in Nat /\ Cardinality(T) \in Nat
  BY <1>3, <1>4, FS_CardinalityType
<1>6. S = T <=> \A j \in Places : i <= j /\ j < k => b.text[j] # NL
  <2>1. \A j \in Places : j < k => (i <= j <=> ~(j < i))
    BY <1>1
  <2>2. S = T <=> \A j \in Places : j < k /\ b.text[j] = NL => j < i
    BY <1>2
  <2>3. QED
    BY <2>1, <2>2
<1>7. Line(b, i) = Cardinality(S) /\ Line(b, k) = Cardinality(T)
  BY DEF Line
<1>8. Cardinality(S) = Cardinality(T) <=> S = T
  BY <1>4
<1> HIDE DEF S, T
<1>9. QED
  BY <1>4, <1>5, <1>6, <1>7, <1>8

\* A newline ends its line: the place after it is on the next.
LEMMA NewlineEnds ==
  ASSUME NEW b, NEW i \in Places, b.text[i] = NL
  PROVE  Line(b, i + 1) = Line(b, i) + 1
<1> DEFINE S == {j \in Places : j < i /\ b.text[j] = NL}
<1>1. Places \subseteq Nat
  BY EditorAssumption DEF Places
<1>2. S \in SUBSET Nat /\ \A j \in S : j <= i
  BY <1>1
<1>3. IsFiniteSet(S)
  BY <1>1, <1>2, FS_BoundedSetOfNaturals
<1>4. i \notin S /\ {j \in Places : j < i + 1 /\ b.text[j] = NL} = S \cup {i}
  <2>1. \A j \in Places : j < i + 1 <=> (j < i \/ j = i)
    BY <1>1
  <2>2. ~(i < i)
    BY <1>1
  <2>3. QED
    BY <2>1, <2>2
<1>5. Cardinality(S \cup {i}) = Cardinality(S) + 1
  BY <1>3, <1>4, FS_AddElement, Zenon
<1>6. Line(b, i + 1) = Cardinality(S \cup {i}) /\ Line(b, i) = Cardinality(S)
  BY <1>4 DEF Line
<1>7. QED
  BY <1>5, <1>6

\* The start of a line is the only place with a newline before it, or none at all,
\* and no newline from it to i.
LEMMA LineStartUnique ==
  ASSUME NEW b \in Boxes, NEW i \in Nat, NEW s \in 0 .. i,
         s > 0 => s - 1 \in Places /\ b.text[s - 1] = NL,
         \A j \in Places : s <= j /\ j < i => b.text[j] # NL
  PROVE  LineStart(b, i) = s
<1>1. PICK m : m = LineStart(b, i)
  OBVIOUS
<1>2. /\ m \in 0 .. i
      /\ m > 0 => m - 1 \in Places /\ b.text[m - 1] = NL
      /\ \A j \in Places : m <= j /\ j < i => b.text[j] # NL
  BY <1>1, LineStartIs
<1>3. ~(m < s)
  BY <1>2
<1>4. ~(s < m)
  BY <1>2
<1>5. QED
  BY <1>1, <1>2, <1>3, <1>4

\* A column is the distance from the start of the line.
LEMMA ColumnIs ==
  ASSUME NEW b \in Boxes, NEW i \in Places
  PROVE  Column(b, i) = i - LineStart(b, i)
<1>1. Places = 0 .. MAX_STRING_NUM - 1 /\ MAX_STRING_NUM \in Nat /\ i \in Nat
  BY EditorAssumption DEF Places
<1>2. PICK m : m = LineStart(b, i)
  OBVIOUS
<1>3. /\ m \in 0 .. i
      /\ m > 0 => m - 1 \in Places /\ b.text[m - 1] = NL
      /\ \A j \in Places : m <= j /\ j < i => b.text[j] # NL
  BY <1>1, <1>2, LineStartIs, Zenon
<1>4. ASSUME NEW j \in Places
      PROVE  (j < i /\ Line(b, j) = Line(b, i)) <=> j \in m .. i - 1
  <2>1. CASE j \in m .. i - 1
    <3>1. j \in Nat /\ j <= i /\ j < i /\ \A l \in Places : j <= l /\ l < i => b.text[l] # NL
      BY <1>1, <1>3, <2>1
    <3>2. Line(b, j) = Line(b, i)
      BY <1>1, <3>1, LinesGrow, Zenon
    <3>3. QED
      BY <2>1, <3>1, <3>2
  <2>2. CASE j < i /\ j < m
    <3>1. j \in Nat /\ j <= i /\ m - 1 \in Places /\ j <= m - 1 /\ m - 1 < i /\ b.text[m - 1] = NL
      BY <1>1, <1>3, <2>2
    <3>2. Line(b, j) # Line(b, i)
      BY <1>1, <3>1, LinesGrow
    <3>3. QED
      BY <1>1, <1>3, <2>2, <3>2
  <2>3. CASE ~(j < i)
    BY <1>1, <1>3, <2>3
  <2>4. QED
    BY <1>1, <1>3, <2>1, <2>2, <2>3
<1>5. m .. i - 1 \subseteq Places
  BY <1>1, <1>3
<1>6. {j \in Places : j < i /\ Line(b, j) = Line(b, i)} = m .. i - 1
  BY <1>4, <1>5
<1>7. Cardinality(m .. i - 1) = i - m
  <2>1. m \in Int /\ i - 1 \in Int /\ m <= i /\ i \in Int
    BY <1>1, <1>3
  <2>2. Cardinality(m .. i - 1) = IF m > i - 1 THEN 0 ELSE (i - 1) - m + 1
    BY <2>1, FS_Interval
  <2>3. QED
    BY <2>1, <2>2
<1>8. QED
  BY <1>2, <1>6, <1>7, Zenon DEF Column

\* What ArrowsMoveByLine says of one arrow: d is b after it, there the places of
\* the line it leads to.
Reaches(b, d, there) ==
  IF there = {} THEN d = b
  ELSE /\ d.cursor \in there
       /\ \A i \in there : Column(b, i) <= Column(b, b.cursor)
                            => Column(b, i) <= Column(b, d.cursor)
       /\ Column(b, d.cursor) <= Column(b, b.cursor)

\* The line reached is lo .. hi, and the cursor is at its distance from lo or at
\* hi, the nearest to it.
LEMMA NearestReaches ==
  ASSUME NEW b \in Boxes, NEW lo \in Nat, NEW hi \in Nat, NEW width \in Nat, NEW c \in lo .. hi,
         c = hi \/ c = lo + width, c <= lo + width,
         lo .. hi \subseteq Places,
         Column(b, b.cursor) = width,
         lo > 0 => lo - 1 \in Places /\ b.text[lo - 1] = NL,
         \A j \in Places : lo <= j /\ j < hi => b.text[j] # NL
  PROVE  Reaches(b, [b EXCEPT !.cursor = c], lo .. hi)
<1>1. ASSUME NEW x \in lo .. hi PROVE Column(b, x) = x - lo
  <2>1. x \in Nat /\ lo \in 0 .. x /\ x \in Places /\ x <= hi
    BY <1>1
  <2>2. \A j \in Places : lo <= j /\ j < x => b.text[j] # NL
    <3>1. \A j \in Places : j \in Nat
      BY EditorAssumption DEF Places
    <3>2. QED
      BY <2>1, <3>1
  <2>3. LineStart(b, x) = lo
    BY <2>1, <2>2, LineStartUnique
  <2>4. QED
    BY <2>1, <2>3, ColumnIs
<1>2. PICK d : d = [b EXCEPT !.cursor = c]
  BY Zenon
<1>3. d.cursor = c
  BY <1>2 DEF Boxes
<1>4. Column(b, c) = c - lo /\ c - lo <= width
  BY <1>1
<1>5. ASSUME NEW x \in lo .. hi, Column(b, x) <= width PROVE Column(b, x) <= Column(b, c)
  BY <1>1, <1>4, <1>5
<1>6. lo .. hi # {}
  BY Zenon
<1>7. Reaches(b, d, lo .. hi)
  BY <1>3, <1>4, <1>5, <1>6 DEF Reaches
<1>8. QED
  BY <1>2, <1>7

\* The up arrow leads to the line above.
LEMMA UpReaches ==
  ASSUME NEW b, WellFormed(b), b.cursor <= strlen(b)
  PROVE  Reaches(b, moveUp(b), OnLine(b, Line(b, b.cursor) - 1))
<1>1. PICK start : start = LineStart(b, b.cursor)
  OBVIOUS
<1>2. PICK low : low = LineStart(b, start - 1)
  OBVIOUS
<1>3. PICK cur : cur = b.cursor
  OBVIOUS
<1>4. PICK n : n = strlen(b)
  OBVIOUS
<1>5. /\ b \in Boxes /\ cur \in Nat /\ n \in Nat /\ cur <= n /\ cur \in Places /\ n \in Places
      /\ Places = 0 .. MAX_STRING_NUM - 1 /\ MAX_STRING_NUM \in Nat
  BY <1>3, <1>4, StrlenIs, EditorAssumption DEF WellFormed, Boxes, Places
<1>6. /\ start \in 0 .. cur
      /\ start > 0 => start - 1 \in Places /\ b.text[start - 1] = NL
      /\ \A j \in Places : start <= j /\ j < cur => b.text[j] # NL
  BY <1>1, <1>3, <1>5, LineStartIs
<1>7. Line(b, start) = Line(b, cur) /\ Line(b, cur) \in Nat
  BY <1>5, <1>6, LinesGrow
<1> DEFINE there == OnLine(b, Line(b, b.cursor) - 1)
<1>8. \A x : x \in there <=> x \in 0 .. n /\ Line(b, x) = Line(b, cur) - 1
  BY <1>3, <1>4 DEF OnLine
<1>9. CASE start = 0
  <2>1. moveUp(b) = b
    BY <1>1, <1>2, <1>9, UpMoves, Zenon
  <2>2. Line(b, cur) = 0
    <3>1. {j \in Places : j < 0 /\ b.text[j] = NL} = {}
      BY <1>5
    <3>2. Line(b, 0) = 0
      BY <3>1, FS_EmptySet DEF Line
    <3>3. QED
      BY <1>7, <1>9, <3>2
  <2>3. ASSUME NEW x \in 0 .. n PROVE Line(b, x) # Line(b, cur) - 1
    BY <1>5, <2>2, LinesGrow
  <2>4. there = {}
    BY <1>8, <2>3
  <2>5. QED
    BY <2>1, <2>4 DEF Reaches
<1>10. CASE start > 0
  <2>1. start - 1 \in Places /\ b.text[start - 1] = NL /\ (start - 1) + 1 = start /\ start - 1 \in Nat
    BY <1>5, <1>6, <1>10
  <2>2. Line(b, cur) - 1 = Line(b, start - 1) /\ Line(b, start - 1) \in Nat
    <3>1. Line(b, start) = Line(b, start - 1) + 1
      BY <2>1, NewlineEnds
    <3>2. Line(b, start - 1) \in Nat
      BY <2>1, LinesGrow
    <3>3. QED
      BY <1>7, <3>1, <3>2
  <2>3. /\ low \in 0 .. start - 1
        /\ low > 0 => low - 1 \in Places /\ b.text[low - 1] = NL
        /\ \A j \in Places : low <= j /\ j < start - 1 => b.text[j] # NL
    BY <1>2, <1>5, <2>1, LineStartIs, Zenon
  <2>4. PICK c \in low .. start - 1 : /\ moveUp(b) = [b EXCEPT !.cursor = c]
                                      /\ c = start - 1 \/ c = low + (cur - start)
                                      /\ c <= low + (cur - start)
    BY <1>1, <1>2, <1>3, <1>10, UpMoves, Zenon
  <2>5. ASSUME NEW x \in 0 .. n
        PROVE  Line(b, x) = Line(b, start - 1) <=> x \in low .. start - 1
    <3>1. CASE x >= start
      <4>1. Line(b, start) <= Line(b, x)
        BY <1>5, <1>6, <3>1, LinesGrow
      <4>2. Line(b, x) \in Nat
        BY <1>5, LinesGrow
      <4>3. QED
        BY <1>5, <1>6, <1>7, <2>2, <3>1, <4>1, <4>2
    <3>2. CASE x < start /\ x < low
      <4>1. /\ x \in Nat /\ x <= start - 1 /\ low - 1 \in Places /\ x <= low - 1
            /\ low - 1 < start - 1 /\ b.text[low - 1] = NL
        BY <1>5, <1>6, <2>3, <3>2
      <4>2. Line(b, x) # Line(b, start - 1)
        BY <2>1, <4>1, LinesGrow
      <4>3. QED
        BY <1>5, <2>3, <3>2, <4>2
    <3>3. CASE x \in low .. start - 1
      <4>1. /\ x \in Nat /\ x <= start - 1
            /\ \A j \in Places : x <= j /\ j < start - 1 => b.text[j] # NL
        BY <1>5, <2>3, <3>3
      <4>2. Line(b, x) = Line(b, start - 1)
        BY <2>1, <4>1, LinesGrow
      <4>3. QED
        BY <3>3, <4>2
    <3>4. QED
      BY <1>5, <1>6, <2>3, <3>1, <3>2, <3>3
  <2>6. there = low .. start - 1
    <3>1. low .. start - 1 \subseteq 0 .. n
      BY <1>5, <1>6, <2>3
    <3>2. QED
      BY <1>8, <2>2, <2>5, <3>1, Zenon
  <2>7. Column(b, b.cursor) = cur - start /\ cur - start \in Nat
    BY <1>1, <1>3, <1>5, <1>6, ColumnIs
  <2>8. low .. start - 1 \subseteq Places /\ low \in Nat
    BY <1>5, <1>6, <2>3
  <2>9. Reaches(b, moveUp(b), low .. start - 1)
    <3>1. PICK hi : hi = start - 1
      OBVIOUS
    <3>2. PICK width : width = cur - start
      OBVIOUS
    <3>3. /\ b \in Boxes /\ low \in Nat /\ hi \in Nat /\ width \in Nat /\ c \in low .. hi
          /\ c = hi \/ c = low + width
          /\ c <= low + width
          /\ low .. hi \subseteq Places
          /\ Column(b, b.cursor) = width
      BY <1>5, <2>1, <2>4, <2>7, <2>8, <3>1, <3>2
    <3>4. /\ low > 0 => low - 1 \in Places /\ b.text[low - 1] = NL
          /\ \A j \in Places : low <= j /\ j < hi => b.text[j] # NL
      BY <2>3, <3>1
    <3>5. Reaches(b, [b EXCEPT !.cursor = c], low .. hi)
      BY <3>3, <3>4, NearestReaches, Zenon
    <3>6. QED
      BY <2>4, <3>1, <3>5
  <2>10. QED
    BY <2>6, <2>9
<1>11. QED
  BY <1>5, <1>6, <1>9, <1>10

\* The down arrow leads to the line below.
LEMMA DownReaches ==
  ASSUME NEW b, WellFormed(b), b.cursor <= strlen(b)
  PROVE  Reaches(b, moveDown(b), OnLine(b, Line(b, b.cursor) + 1))
<1>1. PICK first : first = LineStart(b, b.cursor)
  OBVIOUS
<1>2. PICK end : end = NextIn(b, first, {NL, NUL})
  OBVIOUS
<1>3. PICK last : last = NextIn(b, end + 1, {NL, NUL})
  OBVIOUS
<1>4. PICK cur : cur = b.cursor
  OBVIOUS
<1>5. PICK n : n = strlen(b)
  OBVIOUS
<1>6. /\ b \in Boxes /\ cur \in Nat /\ n \in Nat /\ cur <= n /\ cur \in Places /\ n \in Places
      /\ Places = 0 .. MAX_STRING_NUM - 1 /\ MAX_STRING_NUM \in Nat
      /\ b.textLength \in Nat /\ n <= b.textLength /\ b.text[n] = NUL
      /\ \A j \in Places : j < n => b.text[j] # NUL
  BY <1>4, <1>5, StrlenIs, EditorAssumption DEF WellFormed, Boxes, Places
<1>7. /\ first \in 0 .. cur
      /\ first > 0 => first - 1 \in Places /\ b.text[first - 1] = NL
      /\ \A j \in Places : first <= j /\ j < cur => b.text[j] # NL
  BY <1>1, <1>4, <1>6, LineStartIs, Zenon
<1>8. first \in 0 .. b.textLength /\ first <= n
  BY <1>6, <1>7
<1>9. /\ end \in first .. b.textLength /\ end \in Places /\ b.text[end] \in {NL, NUL}
      /\ \A j \in Places : first <= j /\ j < end => b.text[j] \notin {NL, NUL}
  BY <1>2, <1>8, NextInIs
<1>10. end <= n /\ end \in Nat
  <2>1. end <= n
    BY <1>2, <1>5, <1>8, ScanStops
  <2>2. QED
    BY <1>6, <1>9, <2>1
<1>11. Line(b, first) = Line(b, cur) /\ Line(b, cur) \in Nat
  BY <1>6, <1>7, LinesGrow
<1>12. Line(b, end) = Line(b, first)
  <2>1. first \in Nat /\ end \in Nat /\ first <= end
    BY <1>6, <1>7, <1>9, <1>10
  <2>2. \A j \in Places : first <= j /\ j < end => b.text[j] # NL
    BY <1>9
  <2>3. QED
    BY <2>1, <2>2, LinesGrow
<1> DEFINE there == OnLine(b, Line(b, b.cursor) + 1)
<1>13. \A x : x \in there <=> x \in 0 .. n /\ Line(b, x) = Line(b, cur) + 1
  BY <1>4, <1>5 DEF OnLine
<1>14. CASE b.text[end] = NUL
  <2>1. moveDown(b) = b
    BY <1>2, <1>14, <1>1 DEF moveDown
  <2>2. end = n
    BY <1>6, <1>9, <1>10, <1>14
  <2>3. ASSUME NEW x \in 0 .. n PROVE Line(b, x) # Line(b, cur) + 1
    <3>1. Line(b, x) <= Line(b, n) /\ Line(b, x) \in Nat
      BY <1>6, LinesGrow
    <3>2. QED
      BY <1>11, <1>12, <2>2, <3>1
  <2>4. there = {}
    BY <1>13, <2>3
  <2>5. QED
    BY <2>1, <2>4 DEF Reaches
<1>15. CASE b.text[end] # NUL
  <2>1. PICK lo : lo = end + 1
    OBVIOUS
  <2>2. b.text[end] = NL /\ lo - 1 = end /\ lo \in Nat /\ lo <= n /\ lo > end
    <3>1. end # n
      BY <1>6, <1>15
    <3>2. QED
      BY <1>6, <1>9, <1>10, <1>15, <2>1, <3>1
  <2>3. Line(b, lo) = Line(b, cur) + 1
    BY <1>9, <1>11, <1>12, <2>1, <2>2, NewlineEnds
  <2>4. lo \in 0 .. b.textLength
    BY <1>6, <2>2
  <2>5. /\ last \in lo .. b.textLength /\ b.text[last] \in {NL, NUL} /\ last \in Places
        /\ \A j \in Places : lo <= j /\ j < last => b.text[j] \notin {NL, NUL}
    BY <1>3, <2>1, <2>4, NextInIs
  <2>6. last <= n /\ last \in Nat
    <3>1. last <= n
      BY <1>3, <1>5, <2>1, <2>2, <2>4, ScanStops
    <3>2. QED
      BY <1>6, <2>2, <2>5, <3>1
  <2>7. PICK width : width = cur - first
    OBVIOUS
  <2>8. PICK c \in lo .. last : /\ moveDown(b) = [b EXCEPT !.cursor = c]
                                /\ c = last \/ c = lo + width
                                /\ c <= lo + width
    <3>1. \E c \in end + 1 .. last : /\ moveDown(b) = [b EXCEPT !.cursor = c]
                                     /\ c = last \/ c = end + 1 + (b.cursor - first)
                                     /\ c <= end + 1 + (b.cursor - first)
      BY <1>1, <1>2, <1>3, <1>15, DownMoves, Zenon
    <3>2. QED
      BY <1>4, <2>1, <2>7, <3>1
  <2>9. ASSUME NEW x \in 0 .. n
        PROVE  Line(b, x) = Line(b, lo) <=> x \in lo .. last
    <3>1. CASE x <= end
      <4>1. Line(b, x) <= Line(b, end) /\ Line(b, x) \in Nat
        BY <1>6, <1>10, <3>1, LinesGrow
      <4>2. QED
        BY <1>6, <1>10, <1>11, <1>12, <2>2, <2>3, <2>6, <3>1, <4>1
    <3>2. CASE x > last
      <4>1. b.text[last] = NL
        BY <1>6, <2>5, <2>6, <3>2
      <4>2. x \in Nat /\ lo <= x /\ lo <= last /\ last < x
        BY <1>6, <2>2, <2>5, <2>6, <3>2
      <4>3. Line(b, lo) # Line(b, x)
        BY <2>2, <2>5, <4>1, <4>2, LinesGrow
      <4>4. QED
        BY <2>2, <2>6, <3>2, <4>3
    <3>3. CASE x \in lo .. last
      <4>1. x \in Nat /\ lo <= x /\ \A j \in Places : lo <= j /\ j < x => b.text[j] # NL
        BY <1>6, <2>2, <2>5, <2>6, <3>3
      <4>2. Line(b, lo) = Line(b, x)
        BY <2>2, <4>1, LinesGrow
      <4>3. QED
        BY <3>3, <4>2
    <3>4. QED
      BY <1>6, <1>10, <2>1, <2>2, <2>6, <3>1, <3>2, <3>3
  <2>10. there = lo .. last
    <3>1. lo .. last \subseteq 0 .. n
      BY <1>6, <2>2, <2>6
    <3>2. QED
      BY <1>13, <2>3, <2>9, <3>1, Zenon
  <2>11. /\ lo .. last \subseteq Places /\ width \in Nat
         /\ Column(b, b.cursor) = width
    BY <1>1, <1>4, <1>6, <1>7, <2>2, <2>6, <2>7, ColumnIs
  <2>12. /\ lo > 0 => lo - 1 \in Places /\ b.text[lo - 1] = NL
         /\ \A j \in Places : lo <= j /\ j < last => b.text[j] # NL
    BY <1>9, <2>2, <2>5
  <2>13. Reaches(b, [b EXCEPT !.cursor = c], lo .. last)
    BY <1>6, <2>2, <2>6, <2>8, <2>11, <2>12, NearestReaches, Zenon
  <2>14. QED
    BY <2>8, <2>10, <2>13
<1>16. QED
  BY <1>14, <1>15

\* The up and down arrows move the cursor by one line, and keep its column unless
\* the other line is too short for it (moveCursor in kbd.c).
THEOREM ArrowsKeepColumn == Spec => []ArrowsMoveByLine
<1>1. ASSUME IInv PROVE ArrowsMoveByLine
  <2>1. SUFFICES ASSUME ~overrun, box.cursor <= strlen(box), NEW down \in BOOLEAN
                 PROVE  Reaches(box, IF down THEN moveDown(box) ELSE moveUp(box),
                                OnLine(box, Line(box, box.cursor) + IF down THEN 1 ELSE -1))
    BY DEF ArrowsMoveByLine, Reaches
  <2>2. WellFormed(box)
    BY <1>1, <2>1 DEF IInv
  <2>3. Line(box, box.cursor) \in Nat
    BY <2>2, LinesGrow DEF WellFormed, Boxes
  <2>4. CASE down
    BY <2>1, <2>2, <2>4, DownReaches
  <2>5. CASE ~down
    <3>1. Line(box, box.cursor) + (-1) = Line(box, box.cursor) - 1
      BY <2>3
    <3>2. QED
      BY <2>1, <2>2, <2>5, <3>1, UpReaches
  <2>6. QED
    BY <2>4, <2>5
<1>2. QED
  BY <1>1, Invariant, PTL

----------------------------------------------------------------------------
\* The pen before the first character, and after a character drawn from pen.
Margin == [x |-> CHARACTER_WIDTH, line |-> 0]

Drawn(pen, ch) ==
  IF ch = NL THEN [x |-> CHARACTER_WIDTH, line |-> Wrap(pen).line + 1]
  ELSE [Wrap(pen) EXCEPT !.x = @ + drawCharacter(ch)]

\* f is what drawTextBox's loop makes of the pen for the first n characters.
Pens(f, t, n) == f = [i \in 0 .. n |-> IF i = 0 THEN Margin ELSE Drawn(f[i - 1], t[i - 1])]

\* There is such a function for every text, so drawTextBox's recursion defines one.
LEMMA PensExist ==
  ASSUME NEW t, NEW n \in Nat
  PROVE  \E f : Pens(f, t, n)
<1> DEFINE S == {m \in Nat : \E f : Pens(f, t, m)}
<1>1. 0 \in S
  <2>1. PICK f : f = [i \in 0 .. 0 |-> Margin]
    BY Zenon
  <2>2. Pens(f, t, 0)
    BY <2>1 DEF Pens
  <2>3. QED
    BY <2>2
<1>2. ASSUME NEW m \in Nat, m \in S PROVE m + 1 \in S
  <2>1. PICK f : Pens(f, t, m)
    BY <1>2
  <2>2. PICK g : g = [i \in 0 .. m + 1 |-> IF i = m + 1 THEN Drawn(f[m], t[m]) ELSE f[i]]
    BY Zenon
  <2>3. \A i \in 0 .. m : f[i] = IF i = 0 THEN Margin ELSE Drawn(f[i - 1], t[i - 1])
    BY <2>1 DEF Pens
  <2>4. \A i \in 0 .. m : g[i] = f[i]
    BY <2>2
  <2>5. ASSUME NEW i \in 0 .. m + 1
        PROVE  g[i] = IF i = 0 THEN Margin ELSE Drawn(g[i - 1], t[i - 1])
    <3>1. CASE i = m + 1
      <4>1. g[i] = Drawn(f[m], t[m]) /\ i # 0 /\ i - 1 = m /\ m \in 0 .. m
        BY <2>2, <3>1
      <4>2. QED
        BY <2>4, <4>1
    <3>2. CASE i # m + 1
      <4>1. i \in 0 .. m /\ (i # 0 => i - 1 \in 0 .. m)
        BY <3>2
      <4>2. QED
        BY <2>3, <2>4, <4>1
    <3>3. QED
      BY <3>1, <3>2
  <2>6. g = [i \in 0 .. m + 1 |-> IF i = 0 THEN Margin ELSE Drawn(g[i - 1], t[i - 1])]
    BY <2>2, <2>5
  <2>7. QED
    BY <2>6 DEF Pens
<1>3. Nat \subseteq S
  <2> HIDE DEF S
  <2> QED
    BY <1>1, <1>2, InductionOnSet
<1>4. QED
  BY <1>3

\* drawTextBox(b) is that function for what is shown of b.
LEMMA DrawTextBoxIs ==
  ASSUME NEW b, NEW n \in Nat, n = strlen(b)
  PROVE  Pens(drawTextBox(b), b.text, n)
<1>1. drawTextBox(b) = CHOOSE f : Pens(f, b.text, n)
  BY DEF drawTextBox, Pens, Drawn, Margin
<1>2. \E f : Pens(f, b.text, n)
  BY PensExist
<1>3. QED
  BY <1>1, <1>2

Points == {p \in [x : Int, line : Int] : CHARACTER_WIDTH <= p.x}

\* A character is drawn at a pen that leaves room for its glyph, and moves the pen
\* on in reading order (the test for the right margin in drawTextBox).
LEMMA DrawnMovesOn ==
  ASSUME NEW p \in Points, NEW ch \in Chars, NEW q, q = Drawn(p, ch)
  PROVE  /\ q \in Points
         /\ p.line < q.line \/ (p.line = q.line /\ p.x < q.x)
         /\ ch # NL => /\ CHARACTER_WIDTH <= q.x - drawCharacter(ch)
                       /\ q.x - drawCharacter(ch) + CHARACTER_WIDTH <= WIDTH
<1>1. /\ CHARACTER_WIDTH \in Nat /\ WIDTH \in Nat /\ 2 * CHARACTER_WIDTH <= WIDTH
      /\ ch # NL => Columns[ch] \in 2 .. CHARACTER_WIDTH
  BY EditorAssumption DEF Chars
<1>2. PICK at : at = Wrap(p)
  OBVIOUS
<1>3. /\ at \in [x : Int, line : Int]
      /\ CHARACTER_WIDTH <= at.x /\ at.x + CHARACTER_WIDTH <= WIDTH
      /\ \/ at = p
         \/ at.line = p.line + 1
  <2>1. p \in [x : Int, line : Int] /\ CHARACTER_WIDTH <= p.x /\ p.x \in Int /\ p.line \in Int
    BY DEF Points
  <2>2. CASE p.x > WIDTH - CHARACTER_WIDTH
    <3>1. at = [x |-> CHARACTER_WIDTH, line |-> p.line + 1]
      BY <1>2, <2>2 DEF Wrap
    <3>2. QED
      BY <1>1, <2>1, <3>1
  <2>3. CASE ~(p.x > WIDTH - CHARACTER_WIDTH)
    <3>1. at = p
      BY <1>2, <2>3 DEF Wrap
    <3>2. QED
      BY <1>1, <2>1, <2>3, <3>1
  <2>4. QED
    BY <2>2, <2>3
<1>4. p.x \in Int /\ p.line \in Int /\ at.x \in Int /\ at.line \in Int
  BY <1>3 DEF Points
<1>5. CASE ch = NL
  <2>1. q = [x |-> CHARACTER_WIDTH, line |-> at.line + 1]
    BY <1>2, <1>5 DEF Drawn
  <2>2. q \in Points /\ q.line = at.line + 1
    BY <1>1, <1>4, <2>1 DEF Points
  <2>3. p.line < q.line
    BY <1>3, <1>4, <2>2
  <2>4. QED
    BY <1>5, <2>2, <2>3
<1>6. CASE ch # NL
  <2>1. PICK w : w = drawCharacter(ch)
    OBVIOUS
  <2>2. w \in Int /\ w >= 4
    BY <1>1, <1>6, <2>1 DEF drawCharacter
  <2>3. q = [at EXCEPT !.x = at.x + w]
    BY <1>2, <1>6, <2>1 DEF Drawn
  <2>4. q.x = at.x + w /\ q.line = at.line /\ q \in [x : Int, line : Int]
    BY <1>3, <1>4, <2>2, <2>3
  <2>5. q \in Points
    BY <1>1, <1>3, <1>4, <2>2, <2>4 DEF Points
  <2>6. p.line < q.line \/ (p.line = q.line /\ p.x < q.x)
    BY <1>3, <1>4, <2>2, <2>4
  <2>7. CHARACTER_WIDTH <= q.x - w /\ q.x - w + CHARACTER_WIDTH <= WIDTH
    BY <1>1, <1>3, <1>4, <2>2, <2>4
  <2>8. QED
    BY <2>1, <2>5, <2>6, <2>7
<1>7. QED
  BY <1>5, <1>6

\* The text stays between the sides of its box, and the pen goes on in reading
\* order with every character (drawTextBox in gui.c).
THEOREM TextStaysInBox == Spec => []TextInBox
<1>1. ASSUME IInv, ~overrun, NEW n, n = strlen(box), NEW pen, pen = drawTextBox(box)
      PROVE  \A i \in 1 .. n :
               /\ pen[i - 1].line < pen[i].line
                    \/ (pen[i - 1].line = pen[i].line /\ pen[i - 1].x < pen[i].x)
               /\ box.text[i - 1] # NL =>
                    /\ CHARACTER_WIDTH <= pen[i].x - drawCharacter(box.text[i - 1])
                    /\ pen[i].x - drawCharacter(box.text[i - 1]) + CHARACTER_WIDTH <= WIDTH
  <2>1. /\ n \in Nat /\ n \in Places /\ box.text \in [Places -> Chars \cup {NUL}]
        /\ \A j \in Places : j < n => box.text[j] # NUL
    BY <1>1, StrlenIs, EditorAssumption DEF IInv, Boxes, Places
  <2>2. \A j \in 0 .. n - 1 : box.text[j] \in Chars
    BY <2>1, EditorAssumption DEF Places
  <2>3. \A i \in 0 .. n : pen[i] = IF i = 0 THEN Margin ELSE Drawn(pen[i - 1], box.text[i - 1])
    <3>1. pen = [i \in 0 .. n |-> IF i = 0 THEN Margin ELSE Drawn(pen[i - 1], box.text[i - 1])]
      BY <1>1, <2>1, DrawTextBoxIs DEF Pens
    <3>2. QED
      BY <3>1, Zenon
  <2> DEFINE S == {m \in Nat : m <= n => pen[m] \in Points}
  <2>4. 0 \in S
    <3>1. pen[0] = Margin
      BY <2>1, <2>3
    <3>2. Margin \in Points
      BY EditorAssumption DEF Margin, Points
    <3>3. QED
      BY <3>1, <3>2
  <2>5. ASSUME NEW m \in Nat, m \in S PROVE m + 1 \in S
    <3>1. SUFFICES ASSUME m + 1 <= n PROVE pen[m + 1] \in Points
      OBVIOUS
    <3>2. m \in 0 .. n - 1 /\ m + 1 \in 0 .. n /\ m + 1 # 0 /\ (m + 1) - 1 = m /\ m <= n
      BY <2>1, <3>1
    <3>3. pen[m + 1] = Drawn(pen[m], box.text[m])
      BY <2>3, <3>2
    <3>4. pen[m] \in Points /\ box.text[m] \in Chars
      BY <2>2, <2>5, <3>2
    <3>5. QED
      BY <3>3, <3>4, DrawnMovesOn
  <2>6. Nat \subseteq S
    <3> HIDE DEF S
    <3> QED
      BY <2>4, <2>5, InductionOnSet
  <2>7. TAKE i \in 1 .. n
  <2>8. i \in 0 .. n /\ i # 0 /\ i - 1 \in 0 .. n - 1 /\ i - 1 \in Nat /\ i - 1 <= n
    BY <2>1
  <2>9. pen[i] = Drawn(pen[i - 1], box.text[i - 1])
    BY <2>3, <2>8
  <2>10. pen[i - 1] \in Points /\ box.text[i - 1] \in Chars
    BY <2>2, <2>6, <2>8
  <2>11. QED
    BY <2>9, <2>10, DrawnMovesOn
<1>2. ASSUME IInv PROVE TextInBox
  BY <1>1, <1>2, Zenon DEF TextInBox
<1>3. QED
  BY <1>2, Invariant, PTL
=============================================================================
