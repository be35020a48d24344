---------------------------- MODULE MouseClicks ----------------------------
(***************************************************************************)
(* Clicks, double clicks and drags against the clock: updateMouseEvent of  *)
(* mouse.c up to the call of the event's handler.  The clock ticks is a    *)
(* uint, so the difference tick - last_tick is taken modulo 2^32 (WRAP);   *)
(* a double click sets last_tick to -30 (-DOUBLE_CLICK), whose purpose is  *)
(* that the next release is a single click again.                          *)
(***************************************************************************)
EXTENDS Integers, MouseEvent

CONSTANTS
  WRAP,          \* 2^32, where ticks starts over
  DOUBLE_CLICK   \* 30 ticks

ASSUME ClockAssumption ==
  /\ WRAP \in Nat /\ DOUBLE_CLICK \in Nat \ {0}
  /\ 2 * DOUBLE_CLICK < WRAP

VARIABLES
  time,       \* interrupts of the timer since boot
  last_tick,  \* as in mouse.c
  released,   \* when the left button last went up, or Never
  paired,     \* that release was already the second half of a double click
  held        \* packets with the left button down since it went down, up to 2

history == <<released, paired, held>>

clicks == <<left_btn_down, right_btn_down, event, last_tick, history>>

Never == -1

tick == time % WRAP

Quick == (tick - last_tick) % WRAP <= DOUBLE_CLICK

InitClicks ==
  /\ InitButtons
  /\ time = 0
  /\ last_tick = -DOUBLE_CLICK
  /\ released = Never
  /\ paired = FALSE
  /\ held = 0

\* Variant: a double click leaves its time behind like a click.
updateNoMarker(left_down, right_down) ==
  /\ updateButtons(left_down, right_down, Quick)
  /\ IF LeftReleased(left_down)
     THEN last_tick' = tick /\ released' = time /\ paired' = Quick
     ELSE UNCHANGED <<last_tick, released, paired>>
  /\ held' = IF ~left_down THEN 0 ELSE IF held = 2 THEN 2 ELSE held + 1
  /\ UNCHANGED time

\* released, paired and held are the history the properties speak of.
updateMouseEvent(left_down, right_down) ==
  /\ updateButtons(left_down, right_down, Quick)
  /\ IF LeftReleased(left_down)
     THEN /\ last_tick' = IF Quick THEN -DOUBLE_CLICK ELSE tick
          /\ released' = time
          /\ paired' = Quick
     ELSE UNCHANGED <<last_tick, released, paired>>
  /\ held' = IF ~left_down THEN 0 ELSE IF held = 2 THEN 2 ELSE held + 1
  /\ UNCHANGED time

TimerTick == time' = time + 1 /\ UNCHANGED clicks
============================================================================
