---------------------------- MODULE SystemClock ----------------------------
(***************************************************************************)
(* millis() of core_esp8266_wiring.c.  The hardware counts microseconds in *)
(* a register that wraps; a timer that runs every minute, between two      *)
(* turns of the loop task, counts the wraps.  millis() is called at any    *)
(* time and must see a wrap the timer has not seen yet.                    *)
(***************************************************************************)
EXTENDS Integers

CONSTANTS
  MicrosMod,   \* the range of the microsecond register, 2^32
  PerMilli,    \* microseconds in a millisecond, 1000
  MillisMod,   \* the range of an unsigned long, 2^32
  TickGap,     \* the longest time between two runs of the timer
  MaxWraps     \* model bound: wraps of the register

ASSUME ClockAssumption ==
  /\ MicrosMod \in Nat /\ PerMilli \in Nat \ {0} /\ MaxWraps \in Nat
  /\ TickGap \in 1 .. MicrosMod - 1
  /\ MillisMod \in Nat /\ MillisMod > TickGap \div PerMilli + 1

VARIABLES
  micros,        \* system_get_time()
  wraps,         \* history: how often it has really wrapped
  sinceTick,     \* microseconds since the timer ran last
  micros_at_last_overflow_tick, micros_overflow_count

clockVars == <<micros, wraps, sinceTick,
               micros_at_last_overflow_tick, micros_overflow_count>>
-----------------------------------------------------------------------------
\* Mutant: millis() trusts the count alone.
OverflowsCounted == micros_overflow_count
Overflows ==
  micros_overflow_count +
    (IF micros < micros_at_last_overflow_tick THEN 1 ELSE 0)

\* Mutant: the milliseconds of a turn of the register are rounded up.
MillisPerWrapUp == MicrosMod \div PerMilli + 1
MillisPerWrap == MicrosMod \div PerMilli

\* The count, the product and the sum are unsigned and wrap alike.
millis == (Overflows * MillisPerWrap + micros \div PerMilli) % MillisMod

ClockInit ==
  /\ micros = 0 /\ wraps = 0 /\ sinceTick = 0
  /\ micros_at_last_overflow_tick = 0 /\ micros_overflow_count = 0

\* The hardware: time passes, by no more than what is left until the next tick.
passTime(d) ==
  /\ sinceTick + d <= TickGap
  /\ sinceTick' = sinceTick + d
  /\ IF micros + d >= MicrosMod
     THEN /\ wraps < MaxWraps
          /\ micros' = micros + d - MicrosMod /\ wraps' = wraps + 1
     ELSE micros' = micros + d /\ wraps' = wraps
  /\ UNCHANGED <<micros_at_last_overflow_tick, micros_overflow_count>>

micros_overflow_tick ==
  /\ sinceTick > 0
  /\ micros_overflow_count' = Overflows
  /\ micros_at_last_overflow_tick' = micros
  /\ sinceTick' = 0
  /\ UNCHANGED <<micros, wraps>>

ClockNext == micros_overflow_tick \/ \E d \in 1 .. TickGap : passTime(d)

ClockSpec == ClockInit /\ [][ClockNext]_clockVars
-----------------------------------------------------------------------------
\* millis() knows how often the register has wrapped, before and after the
\* timer has noticed: a wrap is neither missed nor counted twice.
WrapsAreSeen == Overflows = wraps

\* The microseconds since the start.
TrueTime == wraps * MicrosMod + micros

\* The difference of two readings of millis(), taken as its callers take it, in
\* an unsigned long, is the time that has passed: never negative, which would be
\* a huge number of milliseconds, and ahead by less than one; not between a wrap
\* of the register and its tick, and not over a wrap of millis() itself.
MillisAdvances ==
  [][(millis' - millis) % MillisMod <= (TrueTime' - TrueTime) \div PerMilli + 1]_clockVars
=============================================================================
