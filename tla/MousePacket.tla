---------------------------- MODULE MousePacket ----------------------------
(***************************************************************************)
(* The decoder of mouseint (mouse.c): one interrupt per byte of the        *)
(* three-byte PS/2 packet, and to_read says which byte the driver expects. *)
(*                                                                         *)
(* The mouse sends its packets byte after byte; keyboard and mouse share   *)
(* one data port, so a byte can be gone when the interrupt is served, and  *)
(* the driver has to find the next packet again: the status register then  *)
(* shows no data, or the data of the keyboard, which mouseint takes for    *)
(* the mouse's.  Only byte 1 is checked, for bit 3 set and bit 2 (middle   *)
(* button) clear.                                                          *)
(***************************************************************************)
EXTENDS Integers

CONSTANTS
  BYTE,       \* 256, the number of values of a byte
  Movements   \* the movements the mouse reports, in -BYTE .. BYTE - 1

ASSUME BytesAssumption ==
  BYTE \in Nat \ {0} /\ 0 \in Movements /\ Movements \subseteq -BYTE .. BYTE - 1

READ_MOUSE_INFO == 1
READ_X_MOVEMENT == 2
READ_Y_MOVEMENT == 3

\* What byte 1 carries: the buttons and the ninth bit of each movement.
Flags == [left : BOOLEAN, right : BOOLEAN, xneg : BOOLEAN, yneg : BOOLEAN]

\* A byte that fails the check of byte 1.
Refused == [none |-> TRUE]

VARIABLES
  to_read,   \* the byte mouseint expects
  flags,     \* left_down, right_down, x_sign, y_sign
  dis_x,     \* the decoded X movement
  handed,    \* the packet last passed to updateMouseEvent, or none
  sent,      \* the packet the mouse is sending
  at,        \* the byte of it that comes next
  intact,    \* no byte of it was lost or refused
  fooled     \* a byte in place of a movement was taken for byte 1 since the
             \* last time both sides agreed on a packet's start

decoder == <<to_read, flags, dis_x, handed>>

device == <<sent, at, intact, fooled>>

NoPacket == [none |-> TRUE]

Packets == [left : BOOLEAN, right : BOOLEAN, middle : BOOLEAN,
            dx : Movements, dy : Movements]

InitPacket ==
  /\ to_read = READ_MOUSE_INFO
  /\ flags = [left |-> FALSE, right |-> FALSE, xneg |-> FALSE, yneg |-> FALSE]
  /\ dis_x = 0
  /\ handed = NoPacket
  /\ sent = [left |-> FALSE, right |-> FALSE, middle |-> FALSE, dx |-> 0, dy |-> 0]
  /\ at = 1 /\ intact = TRUE /\ fooled = FALSE

----------------------------------------------------------------------------
\* Variant: the ninth bit is ignored.
Unsigned(ch, neg) == ch

\* The movement that a byte and the sign bit of byte 1 stand for.
Signed(ch, neg) == IF neg THEN ch - BYTE ELSE ch

\* mouseint, one disjunct per value of to_read.  ch is the byte as a number
\* and f what it means as byte 1.
mouseint(ch, f) ==
  \/ /\ to_read = READ_MOUSE_INFO
     /\ IF f = Refused THEN UNCHANGED <<to_read, flags>>
                       ELSE to_read' = READ_X_MOVEMENT /\ flags' = f
     /\ handed' = NoPacket
     /\ UNCHANGED dis_x
  \/ /\ to_read = READ_X_MOVEMENT
     /\ dis_x' = Signed(ch, flags.xneg)
     /\ to_read' = READ_Y_MOVEMENT
     /\ handed' = NoPacket
     /\ UNCHANGED flags
  \/ /\ to_read = READ_Y_MOVEMENT
     /\ to_read' = READ_MOUSE_INFO
     /\ handed' = [left |-> flags.left, right |-> flags.right,
                   dx |-> dis_x, dy |-> -Signed(ch, flags.yneg)]
     /\ UNCHANGED <<flags, dis_x>>

\* Variant: an interrupt without data is ignored.
mouseintIgnore == UNCHANGED <<to_read, flags, dis_x>> /\ handed' = NoPacket

\* The interrupt finds no data: start over.
mouseintEmpty ==
  /\ to_read' = READ_MOUSE_INFO
  /\ handed' = NoPacket
  /\ UNCHANGED <<flags, dis_x>>

----------------------------------------------------------------------------
\* The device moves on to the next byte of the packet p.
Advance(p, ok) ==
  /\ sent' = p
  /\ at' = IF at = 3 THEN 1 ELSE at + 1
  /\ intact' = (ok /\ (at = 1 \/ intact))

FlagByte ==
  \E p \in Packets :
    LET f == [left |-> p.left, right |-> p.right, xneg |-> p.dx < 0, yneg |-> p.dy < 0]
    IN  /\ at = 1
        /\ mouseint(0, IF p.middle THEN Refused ELSE f)
        /\ fooled' = (to_read # READ_MOUSE_INFO)
        /\ Advance(p, ~p.middle)

\* What a byte that is not byte 1 may mean as one, where that is asked.
Meanings == IF to_read = READ_MOUSE_INFO THEN Flags \cup {Refused} ELSE {Refused}

MoveByte ==
  LET d == IF at = 2 THEN sent.dx ELSE sent.dy
  IN  /\ at \in {2, 3}
      /\ \E f \in Meanings :
           /\ mouseint(d % BYTE, f)
           /\ fooled' = (fooled \/ (to_read = READ_MOUSE_INFO /\ f # Refused))
      /\ Advance(sent, TRUE)

LostByte ==
  /\ mouseintEmpty
  /\ fooled' = FALSE
  /\ Advance(sent, FALSE)

\* The keyboard's handler took the byte, and mouseint reads the keyboard's.
KeyByte ==
  /\ \E ch \in 0 .. BYTE - 1, f \in Meanings :
       /\ mouseint(ch, f)
       /\ fooled' = IF at = 1 THEN to_read # READ_MOUSE_INFO
                    ELSE fooled \/ (to_read = READ_MOUSE_INFO /\ f # Refused)
  /\ Advance(sent, FALSE)
============================================================================
