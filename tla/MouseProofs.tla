---------------------------- MODULE MouseProofs ----------------------------
(***************************************************************************)
(* Proofs about the mouse driver, for bytes and clocks of any size: the    *)
(* decoder stays in frame and hands packets on as they were sent, double   *)
(* clicks have a first half and drags are not clicks.                      *)
(***************************************************************************)
EXTENDS Mouse, TLAPS

----------------------------------------------------------------------------
(* Arithmetic of the byte and of the clock.                                *)

\* Division with remainder, for any byte size or clock period b.
LEMMA Quotient ==
  ASSUME NEW b \in Nat \ {0}, NEW d \in Int
  PROVE  \E q \in Int, r \in 0 .. b - 1 : d = b * q + r /\ r = d % b
<1>1. d \div b \in Int /\ d % b \in 0 .. b - 1 /\ d = b * (d \div b) + (d % b)
  OBVIOUS
<1> QED
  BY <1>1, Zenon

\* The remainder is the only one.
LEMMA RemainderUnique ==
  ASSUME NEW b \in Nat \ {0}, NEW q \in Int, NEW r \in Int,
         NEW s \in 0 .. b - 1, NEW t \in 0 .. b - 1, b * q + s = b * r + t
  PROVE  s = t
<1>1. CASE q > r
  <2>1. b * (q - r) >= b
    <3>1. q - r >= 1
      BY <1>1
    <3> QED
      BY <3>1
  <2>2. b * (q - r) = t - s
    OBVIOUS
  <2> QED
    BY <2>1, <2>2
<1>2. CASE r > q
  <2>1. b * (r - q) >= b
    <3>1. r - q >= 1
      BY <1>2
    <3> QED
      BY <3>1
  <2>2. b * (r - q) = s - t
    OBVIOUS
  <2> QED
    BY <2>1, <2>2
<1> QED
  BY <1>1, <1>2

\* The difference of two clock readings is the time between them, modulo the
\* clock's period: what tick - last_tick computes in updateMouseEvent.
LEMMA DifferenceOfReadings ==
  ASSUME NEW b \in Nat \ {0}, NEW x \in Int, NEW y \in Int
  PROVE  ((x % b) - (y % b)) % b = (x - y) % b
<1>1. PICK q \in Int, s \in 0 .. b - 1 : x = b * q + s /\ s = x % b
  BY Quotient, Zenon
<1>2. PICK r \in Int, t \in 0 .. b - 1 : y = b * r + t /\ t = y % b
  BY Quotient, Zenon
<1>3. s - t \in Int /\ x - y \in Int
  OBVIOUS
<1>4. PICK u \in Int, v \in 0 .. b - 1 : s - t = b * u + v /\ v = (s - t) % b
  BY <1>3, Quotient, Zenon
<1>5. PICK k \in Int, w \in 0 .. b - 1 : x - y = b * k + w /\ w = (x - y) % b
  BY <1>3, Quotient
<1>6. b * (q - r + u) + v = b * k + w
  <2>1. b * q \in Int /\ b * r \in Int /\ b * u \in Int /\ b * k \in Int
    OBVIOUS
  <2>2. b * (q - r + u) = b * q - b * r + b * u
    OBVIOUS
  <2>3. x = b * q + s /\ y = b * r + t /\ s - t = b * u + v /\ x - y = b * k + w
    BY <1>1, <1>2, <1>4, <1>5
  <2>4. b * k + w = b * q - b * r + b * u + v
    BY <2>1, <2>3
  <2> QED
    BY <2>2, <2>4
<1>7. q - r + u \in Int
  OBVIOUS
<1>8. v = w
  BY <1>6, <1>7, RemainderUnique
<1> QED
  BY <1>1, <1>2, <1>4, <1>5, <1>8, Zenon

\* The sign bit of byte 1 and a movement byte give back the movement
\* (mouse.c:420-431).
LEMMA SignedIsMovement ==
  ASSUME NEW d \in Movements
  PROVE  Signed(d % BYTE, d < 0) = d
<1>1. BYTE \in Nat \ {0} /\ d \in -BYTE .. BYTE - 1
  BY BytesAssumption
<1>2. d < 0 => d % BYTE = d + BYTE
  BY <1>1
<1>3. d >= 0 => d % BYTE = d
  BY <1>1
<1> QED
  BY <1>1, <1>2, <1>3 DEF Signed

----------------------------------------------------------------------------
(* The inductive invariant.                                                *)

\* Byte 1 of the packet p as the mouse sends it.
FlagsOf(p) ==
  [left |-> p.left, right |-> p.right, xneg |-> p.dx < 0, yneg |-> p.dy < 0]

DecoderTypes ==
  /\ to_read \in 1 .. 3 /\ at \in 1 .. 3
  /\ intact \in BOOLEAN /\ fooled \in BOOLEAN
  /\ sent \in Packets /\ flags \in Flags

\* What the decoder holds of a packet of which nothing was lost.
InStep ==
  at # 1 /\ intact /\ ~fooled =>
    /\ to_read = at
    /\ flags = FlagsOf(sent)
    /\ at = 3 => dis_x = sent.dx

\* What the events tell of the buttons' history.
Buttons ==
  /\ left_btn_down \in BOOLEAN /\ held \in 0 .. 2
  /\ left_btn_down <=> held # 0
  /\ held = 2 => event \in {"MOUSE_DRAGGING", "RIGHT_CLICK"}
  /\ event \in {"LEFT_CLICK", "LEFT_DOUBLE_CLICK"} => ~left_btn_down

\* last_tick is the marker until a release, and after a double click; else it
\* is the reading of the clock at the last release.
Marked == last_tick = -DOUBLE_CLICK /\ (released = Never \/ paired)

Timed == released \in Nat /\ ~paired /\ last_tick = released % WRAP

Clock == time \in Nat /\ (Marked \/ Timed)

DecoderInv == DecoderTypes /\ Framed /\ InStep

ClicksInv == Buttons /\ Clock

IInv == DecoderInv /\ ClicksInv

\* The driver starts between packets with the buttons up.
LEMMA InitIInv == Init => IInv
<1> SUFFICES ASSUME Init PROVE IInv
  OBVIOUS
<1> USE DEF Init, InitPacket
<1>1. sent \in Packets
  BY BytesAssumption DEF Packets
<1>2. DecoderTypes /\ InStep
  <2>1. to_read = 1 /\ at = 1 /\ intact \in BOOLEAN /\ fooled \in BOOLEAN
    BY Zenon DEF READ_MOUSE_INFO
  <2> QED
    BY <1>1, <2>1 DEF DecoderTypes, InStep, Flags
<1>3. Framed
  BY DEF Framed, READ_MOUSE_INFO
<1>4. Buttons
  <2>1. left_btn_down \in BOOLEAN /\ ~left_btn_down /\ held = 0 /\ event = "none"
    BY Zenon DEF InitClicks, InitButtons
  <2> QED
    BY <2>1 DEF Buttons
<1>5. Clock
  BY DEF InitClicks, Clock, Marked
<1> QED
  BY <1>2, <1>3, <1>4, <1>5 DEF IInv, DecoderInv, ClicksInv

\* Byte 1 of a packet: a driver that is not at byte 1 is fooled from here on.
LEMMA FlagByteKeeps == DecoderInv /\ FlagByte => DecoderInv'
<1> SUFFICES ASSUME DecoderInv, FlagByte PROVE DecoderInv'
  OBVIOUS
<1> USE DEF READ_MOUSE_INFO, READ_X_MOVEMENT, READ_Y_MOVEMENT
<1>1. PICK p \in Packets :
        /\ at = 1
        /\ mouseint(0, IF p.middle THEN Refused ELSE FlagsOf(p))
        /\ fooled' = (to_read # READ_MOUSE_INFO)
        /\ Advance(p, ~p.middle)
  BY DEF FlagByte, FlagsOf
<1>2. p.middle \in BOOLEAN
  BY DEF Packets
<1>3. sent' = p /\ at' = 2 /\ intact' = ~p.middle
  BY <1>1, <1>2 DEF Advance
<1>4. FlagsOf(p) # Refused
  <2>1. FlagsOf(p).left \in BOOLEAN /\ DOMAIN FlagsOf(p) # DOMAIN Refused
    <3>1. "left" \in DOMAIN FlagsOf(p) /\ "left" \notin DOMAIN Refused
      BY DEF FlagsOf, Refused
    <3> QED
      BY <3>1 DEF FlagsOf, Packets
  <2> QED
    BY <2>1
<1>5. to_read \in 1 .. 3
  BY DEF DecoderInv, DecoderTypes
<1>6. to_read' \in 1 .. 3
  BY <1>1, <1>5 DEF mouseint
<1>7. ~fooled' => to_read = 1
  BY <1>1, Zenon
<1>8. ~fooled' => to_read' = (IF p.middle THEN 1 ELSE 2) /\ (~p.middle => flags' = FlagsOf(p))
  BY <1>1, <1>2, <1>4, <1>7 DEF mouseint
<1>9. DecoderTypes'
  <2>1. FlagsOf(p) \in Flags
    BY DEF FlagsOf, Flags, Packets
  <2>2. flags' \in Flags
    BY <1>1, <2>1 DEF mouseint, DecoderInv, DecoderTypes
  <2> QED
    BY <1>1, <1>2, <1>3, <1>6, <2>2 DEF DecoderTypes
<1>10. Framed'
  BY <1>3, <1>8 DEF Framed
<1>11. InStep'
  <2>1. intact' => ~p.middle
    BY <1>3, Zenon
  <2> QED
    BY <1>2, <1>3, <1>8, <2>1 DEF InStep
<1> QED
  BY <1>9, <1>10, <1>11 DEF DecoderInv

\* A movement byte: the driver moves on with the mouse, or waits at byte 1, or
\* takes the byte for byte 1 and is fooled.
LEMMA MoveByteKeeps == DecoderInv /\ MoveByte => DecoderInv'
<1> SUFFICES ASSUME DecoderInv, MoveByte PROVE DecoderInv'
  OBVIOUS
<1> USE DEF READ_MOUSE_INFO, READ_X_MOVEMENT, READ_Y_MOVEMENT
<1>1. PICK d : d = IF at = 2 THEN sent.dx ELSE sent.dy
  OBVIOUS
<1>2. PICK f \in Flags \cup {Refused} :
        /\ mouseint(d % BYTE, f)
        /\ fooled' = (fooled \/ (to_read = READ_MOUSE_INFO /\ f # Refused))
  BY <1>1 DEF MoveByte, Meanings
<1>3. at \in {2, 3} /\ to_read \in 1 .. 3 /\ fooled \in BOOLEAN /\ intact \in BOOLEAN
      /\ sent \in Packets
  BY DEF MoveByte, DecoderInv, DecoderTypes
<1>4. sent' = sent /\ at' = (IF at = 3 THEN 1 ELSE at + 1) /\ intact' = intact
  BY <1>3 DEF MoveByte, Advance
<1>5. to_read' \in 1 .. 3
  BY <1>2, <1>3 DEF mouseint
<1>6. DecoderTypes'
  <2>1. flags' \in Flags
    BY <1>2 DEF mouseint, DecoderInv, DecoderTypes
  <2> QED
    BY <1>2, <1>3, <1>4, <1>5, <2>1 DEF DecoderTypes
<1>7. Framed'
  <2> SUFFICES ASSUME ~fooled' PROVE to_read' = at' \/ to_read' = 1
    BY DEF Framed
  <2>1. ~fooled /\ (to_read = 1 => f = Refused)
    BY <1>2, Zenon
  <2>2. to_read = at \/ to_read = 1
    BY <2>1 DEF DecoderInv, Framed
  <2>3. CASE to_read = 1
    BY <2>1, <2>3, <1>2 DEF mouseint
  <2>4. CASE to_read = 2 /\ at = 2
    BY <2>4, <1>2, <1>4 DEF mouseint
  <2>5. CASE to_read = 3 /\ at = 3
    BY <2>5, <1>2, <1>4 DEF mouseint
  <2> QED
    BY <1>3, <2>2, <2>3, <2>4, <2>5
<1>8. InStep'
  <2> SUFFICES ASSUME at' # 1, intact', ~fooled'
               PROVE  to_read' = at' /\ flags' = FlagsOf(sent') /\ (at' = 3 => dis_x' = sent'.dx)
    BY DEF InStep
  <2>1. at = 2 /\ intact /\ ~fooled
    BY <1>2, <1>3, <1>4
  <2>2. to_read = 2 /\ flags = FlagsOf(sent)
    BY <2>1 DEF DecoderInv, InStep
  <2>3. to_read' = 3 /\ flags' = flags /\ dis_x' = Signed(sent.dx % BYTE, flags.xneg)
    BY <1>1, <1>2, <2>1, <2>2 DEF mouseint
  <2>4. sent.dx \in Movements /\ flags.xneg = (sent.dx < 0)
    BY <1>3, <2>2 DEF Packets, FlagsOf
  <2>5. dis_x' = sent.dx
    BY <2>3, <2>4, SignedIsMovement
  <2> QED
    BY <1>4, <2>1, <2>2, <2>3, <2>5
<1> QED
  BY <1>6, <1>7, <1>8 DEF DecoderInv

\* A lost byte sends the driver back to byte 1 and spoils the packet.
LEMMA LostByteKeeps == DecoderInv /\ LostByte => DecoderInv'
<1> SUFFICES ASSUME DecoderInv, LostByte PROVE DecoderInv'
  OBVIOUS
<1> USE DEF READ_MOUSE_INFO, LostByte, mouseintEmpty, Advance
<1>1. DecoderTypes'
  <2>1. intact' \in BOOLEAN /\ fooled' \in BOOLEAN /\ sent' \in Packets /\ flags' \in Flags
    BY Zenon DEF DecoderInv, DecoderTypes
  <2>2. to_read' \in 1 .. 3 /\ at' \in 1 .. 3
    BY DEF DecoderInv, DecoderTypes
  <2> QED
    BY <2>1, <2>2 DEF DecoderTypes
<1>2. Framed'
  BY DEF Framed
<1>3. InStep'
  BY Zenon DEF InStep
<1> QED
  BY <1>1, <1>2, <1>3 DEF DecoderInv

\* A byte of the keyboard spoils the packet too; in place of a movement it may
\* fool the driver, in place of byte 1 it leaves it in step.
LEMMA KeyByteKeeps == DecoderInv /\ KeyByte => DecoderInv'
<1> SUFFICES ASSUME DecoderInv, KeyByte PROVE DecoderInv'
  OBVIOUS
<1> USE DEF READ_MOUSE_INFO, READ_X_MOVEMENT, READ_Y_MOVEMENT
<1>1. PICK ch \in 0 .. BYTE - 1, f \in Flags \cup {Refused} :
        /\ mouseint(ch, f)
        /\ fooled' = IF at = 1 THEN to_read # 1 ELSE fooled \/ (to_read = 1 /\ f # Refused)
  BY DEF KeyByte, Meanings
<1>2. at \in 1 .. 3 /\ to_read \in 1 .. 3 /\ fooled \in BOOLEAN /\ sent \in Packets
  BY DEF DecoderInv, DecoderTypes
<1>3. sent' = sent /\ at' = (IF at = 3 THEN 1 ELSE at + 1) /\ intact' = FALSE
  BY DEF KeyByte, Advance
<1>4. DecoderTypes'
  <2>1. flags' \in Flags
    BY <1>1 DEF mouseint, DecoderInv, DecoderTypes
  <2>2. to_read' \in 1 .. 3 /\ at' \in 1 .. 3
    BY <1>1, <1>2, <1>3 DEF mouseint
  <2>3. fooled' \in BOOLEAN /\ intact' \in BOOLEAN
    BY <1>1, <1>2, <1>3
  <2> QED
    BY <1>2, <1>3, <2>1, <2>2, <2>3 DEF DecoderTypes
<1>5. Framed'
  <2> SUFFICES ASSUME ~fooled' PROVE to_read' = at' \/ to_read' = 1
    BY DEF Framed
  <2>1. CASE at = 1
    <3>1. to_read = 1
      BY <1>1, <2>1
    <3> QED
      BY <1>1, <1>3, <2>1, <3>1 DEF mouseint
  <2>2. CASE at # 1
    <3>1. ~fooled /\ (to_read = 1 => f = Refused)
      BY <1>1, <2>2, Zenon
    <3>2. to_read = at \/ to_read = 1
      BY <3>1 DEF DecoderInv, Framed
    <3>3. CASE to_read = 1
      BY <1>1, <3>1, <3>3 DEF mouseint
    <3>4. CASE to_read # 1
      BY <1>1, <1>2, <1>3, <3>2, <3>4 DEF mouseint
    <3> QED
      BY <3>3, <3>4
  <2> QED
    BY <2>1, <2>2
<1>6. InStep'
  BY <1>3 DEF InStep
<1> QED
  BY <1>4, <1>5, <1>6 DEF DecoderInv

\* An event leaves the button history right, whatever the buttons are.
LEMMA ButtonsKeep ==
  ASSUME Buttons, NEW l \in BOOLEAN, NEW r \in BOOLEAN, updateMouseEvent(l, r)
  PROVE  Buttons'
<1>1. left_btn_down' = l /\ event' = EventOf(l, r, Quick)
  BY DEF updateMouseEvent, updateButtons
<1>2. held' = IF ~l THEN 0 ELSE IF held = 2 THEN 2 ELSE held + 1
  BY DEF updateMouseEvent
<1>3. left_btn_down \in BOOLEAN /\ held \in 0 .. 2 /\ (left_btn_down <=> held # 0)
  BY DEF Buttons
<1>4. CASE l
  <2>1. held' \in 1 .. 2 /\ (held' = 2 => left_btn_down)
    BY <1>2, <1>3, <1>4
  <2>2. event' \in {"none", "MOUSE_DRAGGING", "RIGHT_CLICK"}
        /\ (left_btn_down => event' \in {"MOUSE_DRAGGING", "RIGHT_CLICK"})
    BY <1>1, <1>3, <1>4 DEF EventOf, LeftEvent, LeftReleased
  <2>3. left_btn_down' \in BOOLEAN /\ left_btn_down'
    BY <1>1, <1>4
  <2> QED
    BY <2>1, <2>2, <2>3 DEF Buttons
<1>5. CASE ~l
  <2>1. held' = 0 /\ ~left_btn_down'
    BY <1>1, <1>2, <1>5
  <2> QED
    BY <1>1, <2>1 DEF Buttons
<1> QED
  BY <1>4, <1>5

\* A release leaves its time, or the marker if it ends a double click.
LEMMA ClockKeeps ==
  ASSUME Clock, NEW l \in BOOLEAN, NEW r \in BOOLEAN, updateMouseEvent(l, r)
  PROVE  Clock'
<1>1. time' = time /\ time \in Nat
  BY DEF updateMouseEvent, Clock
<1>2. CASE LeftReleased(l) /\ Quick
  <2>1. last_tick' = -DOUBLE_CLICK /\ paired'
    BY <1>2 DEF updateMouseEvent
  <2> QED
    BY <1>1, <2>1 DEF Clock, Marked
<1>3. CASE LeftReleased(l) /\ ~Quick
  <2>1. last_tick' = tick /\ released' = time /\ ~paired'
    BY <1>3 DEF updateMouseEvent
  <2> QED
    BY <1>1, <2>1 DEF Clock, Timed, tick
<1>4. CASE ~LeftReleased(l)
  <2>1. last_tick' = last_tick /\ released' = released /\ paired' = paired
    BY <1>4 DEF updateMouseEvent
  <2> QED
    BY <1>1, <2>1 DEF Clock, Timed, Marked
<1> QED
  BY <1>2, <1>3, <1>4

\* What HandOn passes to updateMouseEvent are two buttons, up or down.
LEMMA HandOnEvents ==
  ASSUME DecoderTypes, FlagByte \/ MoveByte \/ LostByte \/ KeyByte, HandOn
  PROVE  \/ UNCHANGED <<clicks, time>>
         \/ \E l, r \in BOOLEAN : updateMouseEvent(l, r)
<1>1. ASSUME NEW ch, NEW f, mouseint(ch, f), handed' # NoPacket
      PROVE  handed'.left \in BOOLEAN /\ handed'.right \in BOOLEAN
  <2>1. flags.left \in BOOLEAN /\ flags.right \in BOOLEAN
    BY DEF DecoderTypes, Flags
  <2> QED
    BY <1>1, <2>1 DEF mouseint
<1>2. handed' = NoPacket \/ (handed'.left \in BOOLEAN /\ handed'.right \in BOOLEAN)
  BY <1>1, Zenon DEF FlagByte, MoveByte, LostByte, KeyByte, mouseintEmpty
<1> QED
  BY <1>2 DEF HandOn

\* Every byte, fault, packet and clock tick keeps the invariant.
LEMMA NextKeeps == IInv /\ [Next]_vars => IInv'
<1> SUFFICES ASSUME IInv, [Next]_vars PROVE IInv'
  OBVIOUS
<1>1. CASE (FlagByte \/ MoveByte \/ LostByte \/ KeyByte) /\ HandOn
  <2>1. DecoderInv'
    BY <1>1, FlagByteKeeps, MoveByteKeeps, LostByteKeeps, KeyByteKeeps DEF IInv
  <2>2. CASE UNCHANGED <<clicks, time>>
    <3>1. Buttons'
      BY <2>2 DEF IInv, ClicksInv, Buttons, clicks, history
    <3>2. Clock'
      BY <2>2 DEF IInv, ClicksInv, Clock, Marked, Timed, clicks, history
    <3> QED
      BY <2>1, <3>1, <3>2 DEF IInv, ClicksInv
  <2>3. CASE \E l, r \in BOOLEAN : updateMouseEvent(l, r)
    BY <2>1, <2>3, ButtonsKeep, ClockKeeps DEF IInv, ClicksInv
  <2> QED
    BY <1>1, <2>2, <2>3, HandOnEvents DEF IInv, DecoderInv
<1>2. CASE TimerTick /\ UNCHANGED <<decoder, device>>
  <2>1. DecoderInv'
    BY <1>2 DEF IInv, DecoderInv, DecoderTypes, Framed, InStep, decoder, device
  <2>2. Buttons'
    BY <1>2 DEF IInv, ClicksInv, Buttons, TimerTick, clicks, history
  <2>3. Clock'
    BY <1>2 DEF IInv, ClicksInv, Clock, Marked, Timed, TimerTick, clicks, history
  <2> QED
    BY <2>1, <2>2, <2>3 DEF IInv, ClicksInv
<1>3. CASE UNCHANGED vars
  <2>1. DecoderInv'
    BY <1>3 DEF vars, IInv, DecoderInv, DecoderTypes, Framed, InStep, decoder, device
  <2>2. Buttons'
    BY <1>3 DEF vars, IInv, ClicksInv, Buttons, clicks, history
  <2>3. Clock'
    BY <1>3 DEF vars, IInv, ClicksInv, Clock, Marked, Timed, clicks, history
  <2> QED
    BY <2>1, <2>2, <2>3 DEF IInv, ClicksInv
<1> QED
  BY <1>1, <1>2, <1>3 DEF Next

\* The inductive invariant holds throughout.
THEOREM Invariant == Spec => []IInv
BY InitIInv, NextKeeps, PTL DEF Spec

\* Framed, for bytes of any size: until a movement byte passes for byte 1, the
\* driver expects the byte that comes next or byte 1.
THEOREM StaysFramed == Spec => []Framed
<1>1. IInv => Framed
  BY DEF IInv, DecoderInv
<1> QED
  BY <1>1, Invariant, PTL

----------------------------------------------------------------------------
(* The action properties.                                                  *)

\* The last byte of a packet of which nothing was lost.
LEMMA LastByte ==
  IInv /\ MoveByte /\ at = 3 /\ intact /\ ~fooled =>
    handed' = [left |-> sent.left, right |-> sent.right, dx |-> sent.dx, dy |-> -sent.dy]
<1> SUFFICES ASSUME IInv, MoveByte, at = 3, intact, ~fooled
             PROVE  handed' = [left |-> sent.left, right |-> sent.right,
                               dx |-> sent.dx, dy |-> -sent.dy]
  OBVIOUS
<1>1. to_read = 3 /\ flags = FlagsOf(sent) /\ dis_x = sent.dx /\ sent \in Packets
  BY DEF IInv, DecoderInv, InStep, DecoderTypes
<1>2. PICK f : mouseint(sent.dy % BYTE, f)
  BY DEF MoveByte
<1>3. handed' = [left |-> flags.left, right |-> flags.right,
                 dx |-> dis_x, dy |-> -Signed(sent.dy % BYTE, flags.yneg)]
  BY <1>1, <1>2 DEF mouseint, READ_MOUSE_INFO, READ_X_MOVEMENT, READ_Y_MOVEMENT
<1>4. sent.dy \in Movements
  BY <1>1 DEF Packets
<1>5. flags.left = sent.left /\ flags.right = sent.right /\ flags.yneg = (sent.dy < 0)
  BY <1>1 DEF FlagsOf
<1>6. Signed(sent.dy % BYTE, flags.yneg) = sent.dy
  BY <1>4, <1>5, SignedIsMovement
<1> QED
  BY <1>1, <1>3, <1>5, <1>6

\* A packet of which nothing was lost reaches updateMouseEvent as it was sent,
\* for bytes of any size.
THEOREM IntactPacketsArrive == Spec => HandsOnAsSent
<1>1. IInv /\ [Next]_vars =>
        [(MoveByte /\ at = 3 /\ intact /\ ~fooled) =>
           handed' = [left |-> sent.left, right |-> sent.right,
                      dx |-> sent.dx, dy |-> -sent.dy]]_vars
  BY LastByte
<1> QED
  BY <1>1, Invariant, PTL DEF Spec, HandsOnAsSent

\* Steps with the left button down that report a release are packets.
LEMMA ReleaseIsPacket ==
  ASSUME IInv, Next, left_btn_down, event' \in {"LEFT_CLICK", "LEFT_DOUBLE_CLICK"}
  PROVE  \E l, r \in BOOLEAN : updateMouseEvent(l, r)
<1>1. event' # event
  BY DEF IInv, ClicksInv, Buttons
<1>2. ~UNCHANGED <<clicks, time>>
  BY <1>1, Zenon DEF clicks
<1>3. ~TimerTick
  BY <1>1, Zenon DEF TimerTick, clicks
<1> QED
  BY <1>2, <1>3, HandOnEvents DEF Next, IInv, DecoderInv

\* A release reported as a click ends a press of one packet, or one the right
\* button's report interrupted.
LEMMA ClickAfterOnePacket ==
  IInv /\ Next /\ left_btn_down /\ event' = "LEFT_CLICK" => held = 1 \/ event = "RIGHT_CLICK"
<1> SUFFICES ASSUME IInv, Next, left_btn_down, event' = "LEFT_CLICK"
             PROVE  held = 1 \/ event = "RIGHT_CLICK"
  OBVIOUS
<1>1. PICK l \in BOOLEAN, r \in BOOLEAN : updateMouseEvent(l, r)
  BY ReleaseIsPacket
<1>2. event' = EventOf(l, r, Quick)
  BY <1>1 DEF updateMouseEvent, updateButtons
<1>3. event # "MOUSE_DRAGGING"
  BY <1>2 DEF EventOf, LeftEvent, LeftReleased
<1>4. held \in 0 .. 2 /\ held # 0 /\ (held = 2 => event \in {"MOUSE_DRAGGING", "RIGHT_CLICK"})
  BY DEF IInv, ClicksInv, Buttons
<1> QED
  BY <1>3, <1>4

\* A press that dragged is not a click as well (ClickIsNoDrag), for every
\* clock: the wrap cannot turn a drag into a click.
THEOREM DragsAreNoClicks == Spec => ClickIsNoDrag
<1>1. IInv /\ [Next]_vars =>
        [left_btn_down /\ event' = "LEFT_CLICK" => held = 1 \/ event = "RIGHT_CLICK"]_vars
  BY ClickAfterOnePacket
<1> QED
  BY <1>1, Invariant, PTL DEF Spec, ClickIsNoDrag

\* The marker -30 passes for a recent release only where MarkerLooksRecent says.
LEMMA MarkerRecent ==
  ASSUME time \in Nat, last_tick = -DOUBLE_CLICK, Quick
  PROVE  MarkerLooksRecent
<1>1. WRAP \in Nat \ {0} /\ DOUBLE_CLICK \in Nat \ {0} /\ 2 * DOUBLE_CLICK < WRAP
  BY ClockAssumption
<1>2. PICK t \in 0 .. WRAP - 1 : t = tick
  BY <1>1 DEF tick
<1>3. t - (-DOUBLE_CLICK) = t + DOUBLE_CLICK
  BY <1>1
<1>4. (t + DOUBLE_CLICK) % WRAP <= DOUBLE_CLICK
  BY <1>2, <1>3 DEF Quick
<1>5. CASE t + DOUBLE_CLICK < WRAP
  <2>1. (t + DOUBLE_CLICK) % WRAP = t + DOUBLE_CLICK
    BY <1>1, <1>5
  <2>2. t = 0
    BY <1>1, <1>4, <2>1
  <2> QED
    BY <1>2, <2>2 DEF MarkerLooksRecent
<1>6. CASE t + DOUBLE_CLICK >= WRAP
  <2>1. t >= WRAP - DOUBLE_CLICK
    BY <1>1, <1>6
  <2> QED
    BY <1>2, <2>1 DEF MarkerLooksRecent
<1> QED
  BY <1>1, <1>5, <1>6

\* A release reported as a double click follows an unpaired one closely enough,
\* unless the marker of no release looks recent.
LEMMA DoubleClickPaired ==
  IInv /\ Next /\ left_btn_down /\ event' = "LEFT_DOUBLE_CLICK" =>
    \/ MarkerLooksRecent
    \/ released # Never /\ ~paired /\ (time - released) % WRAP <= DOUBLE_CLICK
<1> SUFFICES ASSUME IInv, Next, left_btn_down, event' = "LEFT_DOUBLE_CLICK", ~MarkerLooksRecent
             PROVE  released # Never /\ ~paired /\ (time - released) % WRAP <= DOUBLE_CLICK
  OBVIOUS
<1>1. PICK l \in BOOLEAN, r \in BOOLEAN : updateMouseEvent(l, r)
  BY ReleaseIsPacket
<1>2. event' = EventOf(l, r, Quick)
  BY <1>1 DEF updateMouseEvent, updateButtons
<1>3. Quick
  BY <1>2 DEF EventOf, LeftEvent
<1>4. Timed /\ time \in Nat
  BY <1>3, MarkerRecent DEF IInv, ClicksInv, Clock, Marked
<1>5. (time - released) % WRAP <= DOUBLE_CLICK
  <2>1. WRAP \in Nat \ {0}
    BY ClockAssumption
  <2>2. ((time % WRAP) - (released % WRAP)) % WRAP = (time - released) % WRAP
    <3>1. time \in Int /\ released \in Int
      BY <1>4 DEF Timed
    <3> QED
      BY <3>1, <2>1, DifferenceOfReadings, Zenon
  <2>3. last_tick = released % WRAP
    BY <1>4 DEF Timed
  <2>4. ((time % WRAP) - (released % WRAP)) % WRAP <= DOUBLE_CLICK
    BY <1>3, <2>3, Zenon DEF Quick, tick
  <2> QED
    BY <2>2, <2>4, Zenon
<1> QED
  BY <1>4, <1>5 DEF Timed, Never

\* A double click has a first half (DoubleClickHasFirstHalf), for every clock
\* period and double-click time, 2^32 and 30 ticks included.
THEOREM DoubleClicksHaveFirstHalf == Spec => DoubleClickHasFirstHalf
<1>1. IInv /\ [Next]_vars =>
        [left_btn_down /\ event' = "LEFT_DOUBLE_CLICK" =>
           \/ MarkerLooksRecent
           \/ /\ released # Never /\ ~paired
              /\ (time - released) % WRAP <= DOUBLE_CLICK]_vars
  BY DoubleClickPaired
<1> QED
  BY <1>1, Invariant, PTL DEF Spec, DoubleClickHasFirstHalf
============================================================================
