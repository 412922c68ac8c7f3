------------------------------ MODULE TimerProofs ------------------------------
(***************************************************************************)
(* Proofs about the timer interrupt and the display, for halves of any     *)
(* width, any divider and interval, displays of any length and any number  *)
(* of turns: the registers keep their types, the hook is never early and   *)
(* late only by a carry between the handler's two loads (HookCorrect), and *)
(* the display shows what the program means (DisplayCorrect).              *)
(*                                                                         *)
(* There are two inductive invariants.  TimeInv says what the handler has  *)
(* read of mtime at each of its steps and how far that may be from the     *)
(* time, and that mip, a clock old, is justified by the mtimecmp in force  *)
(* when main goes on.  Displaying says where main and the hook are in each *)
(* display, which of the two words has been written there, and that no     *)
(* handler can run once main has switched the timer off for good.          *)
(***************************************************************************)
EXTENDS Timer, TLAPS

-----------------------------------------------------------------------------
(* The inductive invariant of the clock and the handler *)

Hooking == {"hook", "hook0"}
Running == {"readlo", "readhi", "writelo", "writehi", "mret"} \cup Hooking

\* The types of the timer's registers, and the clock within its bound.
TimeType ==
  /\ lo \in 0 .. Half - 1 /\ hi \in 0 .. Half - 1
  /\ cmplo \in 0 .. Half - 1 /\ cmphi \in 0 .. Half - 1
  /\ rlo \in 0 .. Half - 1 /\ rhi \in 0 .. Half - 1
  /\ divider \in 0 .. Divide - 1 /\ since \in 0 .. Interval
  /\ mtip \in BOOLEAN /\ mip \in BOOLEAN /\ torn \in BOOLEAN /\ armed \in BOOLEAN
  /\ hpc \in Running \cup {"off"}
  /\ Time <= MaxTime

\* What the handler read, and how far it may be from the time of the reading.
ReadTime == rhi * Half + rlo
NotLate == ReadTime <= Time + IF torn THEN Half ELSE 0
NotEarly == since < Interval => Time <= ReadTime + since

\* The next interrupt is set from what was read.
Set == armed /\ hpc \notin {"readhi", "writelo", "writehi"}

Timing ==
  /\ hpc = "readhi" => (since < Interval => lo <= rlo + since)
  /\ hpc \in {"writelo", "writehi"} \/ Set => NotLate /\ NotEarly
  /\ hpc = "writehi" => cmplo = Next64[2]
  /\ hpc \in Hooking \cup {"mret"} => armed
  /\ Set => Deadline = ReadTime + Interval
  /\ armed /\ mip /\ hpc = "off" => Time >= Deadline
  /\ armed /\ hpc = "readlo" => since >= Interval

TimeInv == TimeType /\ Timing

-----------------------------------------------------------------------------
(* Arithmetic of the halves *)

\* Adding one to a number below its modulus.
LEMMA NextModulo ==
  ASSUME NEW n \in Nat \ {0}, NEW a \in 0 .. n - 1
  PROVE  (a + 1) % n = IF a = n - 1 THEN 0 ELSE a + 1
  OBVIOUS

\* The sum of two numbers below the modulus, split into carry and rest.
LEMMA SumModulo ==
  ASSUME NEW n \in Nat \ {0}, NEW a \in 0 .. n - 1, NEW b \in 0 .. n
  PROVE  /\ (a + b) % n = IF a + b < n THEN a + b ELSE a + b - n
         /\ (a + b) \div n = IF a + b < n THEN 0 ELSE 1
  OBVIOUS

\* Turning a ring one place further, from r to s.
LEMMA TurnModulo ==
  ASSUME NEW n \in Nat \ {0}, NEW i \in 0 .. n - 1, NEW r \in 0 .. n - 1
  PROVE  LET s == IF r = n - 1 THEN 0 ELSE r + 1
         IN  /\ (i + s) % n \in 0 .. n - 1
             /\ (i + r) % n = IF (i + s) % n = 0 THEN n - 1 ELSE ((i + s) % n) - 1
  <1> DEFINE s == IF r = n - 1 THEN 0 ELSE r + 1
  <1>1. s \in 0 .. n - 1
    OBVIOUS
  <1>2. (i + r) % n = IF i + r < n THEN i + r ELSE i + r - n
    OBVIOUS
  <1> HIDE DEF s
  <1>3. (i + s) % n = IF i + s < n THEN i + s ELSE i + s - n
    BY <1>1
  <1> QED BY <1>1, <1>2, <1>3 DEF s

\* A pair of halves is smaller when its upper half is, whatever the lower half.
LEMMA HalvesOrder ==
  ASSUME NEW n \in Nat \ {0}, NEW a \in Nat, NEW b \in 0 .. n - 1,
         NEW c \in Nat, NEW d \in 0 .. n - 1
  PROVE  a > c \/ (a = c /\ b >= d) <=> a * n + b >= c * n + d
  <1>1. CASE a > c
    <2>1. a * n >= (c + 1) * n
      BY <1>1
    <2> QED BY <1>1, <2>1
  <1>2. CASE a < c
    <2>1. c * n >= (a + 1) * n
      BY <1>2
    <2> QED BY <1>2, <2>1
  <1> QED BY <1>1, <1>2

\* The upper half counts the overflows of the lower one.
LEMMA CarryOver ==
  ASSUME NEW n \in Nat, NEW a \in Nat
  PROVE  a * n \in Nat /\ (a + 1) * n = a * n + n
  OBVIOUS

-----------------------------------------------------------------------------
(* One clock *)

TicksNow == IF Ticks THEN 1 ELSE 0

\* What a clock does to the registers of the timer.
Clocked(read) ==
  /\ lo' \in 0 .. Half - 1 /\ hi' \in 0 .. Half - 1
  /\ divider' \in 0 .. Divide - 1 /\ mtip' \in BOOLEAN
  /\ mip' \in BOOLEAN /\ (mip' => Time >= Deadline)
  /\ TicksNow \in {0, 1} /\ lo' <= lo + TicksNow
  /\ Time \in Nat /\ Time' = Time + TicksNow /\ Time' <= MaxTime
  /\ since' \in 0 .. Interval
  /\ since' < Interval => since' = (IF read THEN 0 ELSE since) + TicksNow
  /\ ~read /\ since >= Interval => since' >= Interval

\* The counter counts one or nothing and does not wrap within the bound, and
\* the comparison is that of the two 64-bit numbers.
LEMMA ClockStep ==
  ASSUME TimeType, NEW read \in BOOLEAN, Sysctrl(read)
  PROVE  Clocked(read)
  <1> USE TimerAssumption DEF TimeType, Clocked
  <1>1. Due = (Time >= Deadline)
    <2>1. Due <=> hi * Half + lo >= cmphi * Half + cmplo
      BY HalvesOrder DEF Due
    <2> QED BY <2>1 DEF Time, Deadline, Due
  <1>2. mip' \in BOOLEAN /\ (mip' => Time >= Deadline) /\ mtip' \in BOOLEAN
    BY <1>1 DEF Sysctrl, Due
  <1>3. divider' \in 0 .. Divide - 1
    BY NextModulo DEF Sysctrl
  <1>4. Time \in Nat
    BY DEF Time
  <1>5. CASE ~Ticks
    <2>1. lo' = lo /\ hi' = hi /\ TicksNow = 0
      BY <1>5 DEF Sysctrl, TicksNow
    <2>2. Time' = Time
      BY <2>1 DEF Time
    <2>3. since' = IF read THEN 0 ELSE since
      BY <1>5 DEF Sysctrl
    <2> QED BY <1>2, <1>3, <1>4, <2>1, <2>2, <2>3
  <1>6. CASE Ticks
    <2>1. lo' = (IF lo = Half - 1 THEN 0 ELSE lo + 1) /\ TicksNow = 1
      BY <1>6, NextModulo DEF Sysctrl, incr_timer, TicksNow
    <2>2. hi' = IF lo = Half - 1 THEN (hi + 1) % Half ELSE hi
      BY <1>6 DEF Sysctrl, incr_timer
    <2>3. Time < MaxTime
      BY <1>6 DEF Ticks
    <2>4. ASSUME lo = Half - 1
          PROVE  hi' \in 0 .. Half - 1 /\ Time' = Time + 1
      <3>1. hi # Half - 1
        <4> SUFFICES ASSUME hi = Half - 1 PROVE FALSE
          OBVIOUS
        <4>1. Time = (Half - 1) * Half + (Half - 1)
          BY <2>4 DEF Time
        <4>2. Time = Half * Half - 1
          BY <4>1
        <4> QED BY <2>3, <4>2
      <3>2. hi' = hi + 1
        BY <2>2, <2>4, <3>1, NextModulo
      <3>3. Time' = (hi + 1) * Half + 0
        BY <2>1, <2>4, <3>2 DEF Time
      <3>4. hi * Half \in Nat /\ (hi + 1) * Half = hi * Half + Half
        BY CarryOver
      <3>5. Time = hi * Half + (Half - 1)
        BY <2>4 DEF Time
      <3> QED BY <3>1, <3>2, <3>3, <3>4, <3>5
    <2>5. ASSUME lo # Half - 1
          PROVE  hi' \in 0 .. Half - 1 /\ Time' = Time + 1
      BY <2>1, <2>2, <2>5 DEF Time
    <2>6. /\ lo' \in 0 .. Half - 1 /\ hi' \in 0 .. Half - 1
          /\ lo' <= lo + TicksNow /\ Time' = Time + TicksNow
      BY <2>1, <2>2, <2>4, <2>5
    <2>7. LET s == IF read THEN 0 ELSE since
          IN  since' = IF s < Interval THEN s + 1 ELSE s
      BY <1>6 DEF Sysctrl
    <2>8. Time' <= MaxTime
      BY <1>4, <2>1, <2>3, <2>6
    <2> QED BY <1>2, <1>3, <1>4, <2>1, <2>6, <2>7, <2>8
  <1> QED BY <1>5, <1>6

\* What was read stays as early and as late as it was.
LEMMA WindowKept ==
  ASSUME TimeType, Clocked(FALSE), UNCHANGED <<rlo, rhi, torn>>
  PROVE  /\ ReadTime \in Nat /\ ReadTime' = ReadTime
         /\ NotLate => NotLate'
         /\ NotEarly => NotEarly'
  <1>1. ReadTime \in Nat /\ ReadTime' = ReadTime
    BY TimerAssumption DEF TimeType, ReadTime
  <1>2. since \in Nat /\ Interval \in Nat /\ Half \in Nat
    BY TimerAssumption DEF TimeType
  <1>3. NotLate => NotLate'
    BY <1>1, <1>2 DEF NotLate, Clocked
  <1>4. NotEarly => NotEarly'
    BY <1>1, <1>2 DEF NotEarly, Clocked
  <1> QED BY <1>1, <1>3, <1>4

\* Reading the upper half makes it at most a turn of the lower half late.
LEMMA WindowOpens ==
  ASSUME TimeType, Clocked(FALSE), rhi' = hi, rlo' = rlo, torn' = (lo < rlo),
         since < Interval => lo <= rlo + since
  PROVE  NotLate' /\ NotEarly'
  <1> DEFINE read == ReadTime'
             late == IF lo < rlo THEN Half ELSE 0
  <1>1. /\ lo \in Nat /\ rlo \in Nat /\ Half \in Nat /\ hi \in Nat
        /\ since \in Nat /\ Interval \in Nat /\ rlo <= lo + late
    BY TimerAssumption DEF TimeType
  <1>2. hi * Half \in Nat
    BY <1>1, CarryOver
  <1>3. read = hi * Half + rlo /\ Time = hi * Half + lo
    BY DEF ReadTime, Time
  <1>4. read \in Nat /\ Time \in Nat /\ read <= Time + late
    BY <1>1, <1>2, <1>3
  <1>5. since < Interval => Time <= read + since
    BY <1>1, <1>2, <1>3
  <1>6. late = IF torn' THEN Half ELSE 0
    OBVIOUS
  <1>7. late \in Nat
    BY <1>1
  <1> HIDE DEF read, late
  <1>8. read <= Time' + late
    BY <1>4, <1>7 DEF Clocked
  <1>9. since' < Interval => Time' <= read + since'
    BY <1>1, <1>4, <1>5 DEF Clocked
  <1>10. NotLate'
    BY <1>6, <1>8 DEF read, NotLate
  <1>11. NotEarly'
    BY <1>9 DEF read, NotEarly
  <1> QED BY <1>10, <1>11

LEMMA DeadlineKept ==
  ASSUME TimeType, UNCHANGED <<cmplo, cmphi>>
  PROVE  Deadline \in Nat /\ Deadline' = Deadline
  BY TimerAssumption DEF TimeType, Deadline

-----------------------------------------------------------------------------
(* The steps, as the timer sees them *)

\* The processor executes main's code, or nothing of interest.
Idle == /\ Sysctrl(FALSE) /\ Gpio
        /\ UNCHANGED <<cmplo, cmphi, rlo, rhi, torn, armed, hpc>>

\* The handler is in its hook.
Hook == /\ Sysctrl(FALSE) /\ Gpio
        /\ hpc \in Hooking /\ hpc' \in {"hook0", "mret"}
        /\ UNCHANGED <<cmplo, cmphi, rlo, rhi, torn, armed>>

HookAction == \/ Scroll \/ ScrollLow \/ Score \/ ScoreLabel
              \/ Word \/ WordHigh \/ Count

LEMMA HookSteps == HookAction => Hook
  BY DEF HookAction, Scroll, ScrollLow, Score, ScoreLabel, Word, WordHigh, Count,
         Handler, Clock, Hook, Hooking

LEMMA TickIdle == Tick => Idle
  BY DEF Tick, Clock, Idle, hvars

LEMMA ProgramIdle == Program => Idle
  <1> USE DEF Idle, Main, Clock, hvars, Enabling
  <1>1. ClearDisplay \/ SetMessage \/ StoreHit \/ StoreAnd \/ StoreOr => Idle
    BY DEF ClearDisplay, SetMessage, StoreHit, StoreAnd, StoreOr
  <1>2. SetMtie \/ SetMie \/ Won \/ Over \/ ShowNumber \/ ShowLabel \/ Finish => Idle
    BY DEF SetMtie, SetMie, Won, Over, ShowNumber, ShowLabel, Finish
  <1>3. SetHook \/ SwitchOff \/ ShowOff \/ ShowOffHigh \/ SwitchOn \/ Quit => Idle
    BY DEF SetHook, SwitchOff, ShowOff, ShowOffHigh, SwitchOn, Quit
  <1> QED BY <1>1, <1>2, <1>3 DEF Program

LEMMA IdleTime == TimeInv /\ Idle => TimeInv'
  <1> SUFFICES ASSUME TimeInv, Idle PROVE TimeInv'
    OBVIOUS
  <1>1. TimeType /\ Clocked(FALSE)
    BY ClockStep DEF TimeInv, Idle
  <1>2. TimeType'
    BY <1>1 DEF Idle, TimeType, Clocked
  <1>3. Deadline \in Nat /\ Deadline' = Deadline
    BY <1>1, DeadlineKept DEF Idle
  <1>4. /\ ReadTime \in Nat /\ ReadTime' = ReadTime
        /\ NotLate => NotLate'
        /\ NotEarly => NotEarly'
    BY <1>1, WindowKept DEF Idle
  <1>5. Set' = Set
    BY DEF Idle, Set
  <1>6. hpc' = "readhi" => (since' < Interval => lo' <= rlo' + since')
    BY <1>1, TimerAssumption DEF Idle, TimeInv, Timing, TimeType, Clocked
  <1>7. hpc' = "writehi" => cmplo' = Next64[2]'
    BY DEF Idle, TimeInv, Timing, Next64
  <1>8. armed' /\ mip' /\ hpc' = "off" => Time' >= Deadline'
    BY <1>1, <1>3 DEF Idle, Clocked
  <1>9. armed' /\ hpc' = "readlo" => since' >= Interval
    BY <1>1 DEF Idle, TimeInv, Timing, Clocked
  <1>10. Timing'
    BY <1>3, <1>4, <1>5, <1>6, <1>7, <1>8, <1>9 DEF Idle, TimeInv, Timing
  <1> QED BY <1>2, <1>10 DEF TimeInv

LEMMA HookTime == TimeInv /\ Hook => TimeInv'
  <1> SUFFICES ASSUME TimeInv, Hook PROVE TimeInv'
    OBVIOUS
  <1>1. TimeType /\ Clocked(FALSE)
    BY ClockStep DEF TimeInv, Hook
  <1>2. TimeType'
    BY <1>1 DEF Hook, TimeType, Running, Hooking, Clocked
  <1>3. Deadline' = Deadline
    BY <1>1, DeadlineKept DEF Hook
  <1>4. /\ ReadTime' = ReadTime
        /\ NotLate => NotLate'
        /\ NotEarly => NotEarly'
    BY <1>1, WindowKept DEF Hook
  <1>5. Set /\ armed'
    BY DEF Hook, TimeInv, Timing, Set, Hooking
  <1>6. Timing'
    BY <1>3, <1>4, <1>5 DEF Hook, Hooking, TimeInv, Timing
  <1> QED BY <1>2, <1>6 DEF TimeInv

LEMMA TrapTime == TimeInv /\ Trap => TimeInv'
  <1> SUFFICES ASSUME TimeInv, Trap PROVE TimeInv'
    OBVIOUS
  <1> USE DEF Trap, Handler
  <1>1. TimeType /\ Clocked(FALSE)
    BY ClockStep DEF TimeInv, Clock
  <1>2. TimeType'
    BY <1>1 DEF TimeType, Running, Clocked
  <1>3. Deadline \in Nat /\ Deadline' = Deadline
    BY <1>1, DeadlineKept
  <1>4. /\ ReadTime \in Nat /\ ReadTime' = ReadTime
        /\ NotLate => NotLate'
        /\ NotEarly => NotEarly'
    BY <1>1, WindowKept
  <1>5. armed' /\ hpc' = "readlo" => since' >= Interval
    <2> SUFFICES ASSUME armed PROVE since' >= Interval
      OBVIOUS
    <2>1. Time >= Deadline /\ Deadline = ReadTime + Interval /\ NotEarly
      BY DEF TimeInv, Timing, Set, Interrupt
    <2>2. since >= Interval
      BY <1>1, <1>4, <2>1, TimerAssumption DEF NotEarly, TimeType, Clocked
    <2> QED BY <1>1, <2>2 DEF Clocked
  <1>6. Set' = Set
    BY DEF Set
  <1>7. Timing'
    BY <1>3, <1>4, <1>5, <1>6 DEF TimeInv, Timing, Hooking
  <1> QED BY <1>2, <1>7 DEF TimeInv

LEMMA ReadLoTime == TimeInv /\ ReadLo => TimeInv'
  <1> SUFFICES ASSUME TimeInv, ReadLo PROVE TimeInv'
    OBVIOUS
  <1> USE DEF ReadLo, Handler
  <1>1. TimeType /\ Clocked(TRUE)
    BY ClockStep DEF TimeInv
  <1>2. TimeType'
    BY <1>1 DEF TimeType, Running, Clocked
  <1>3. since' < Interval => lo' <= rlo' + since'
    BY <1>1 DEF TimeType, Clocked
  <1>4. Timing'
    BY <1>3 DEF Timing, Set, Hooking
  <1> QED BY <1>2, <1>4 DEF TimeInv

LEMMA ReadHiTime == TimeInv /\ ReadHi => TimeInv'
  <1> SUFFICES ASSUME TimeInv, ReadHi PROVE TimeInv'
    OBVIOUS
  <1> USE DEF ReadHi, Handler
  <1>1. TimeType /\ Clocked(FALSE)
    BY ClockStep DEF TimeInv, Clock
  <1>2. TimeType'
    BY <1>1 DEF TimeType, Running, Clocked
  <1>5. since < Interval => lo <= rlo + since
    BY DEF TimeInv, Timing
  <1>6. NotLate' /\ NotEarly'
    BY <1>1, <1>5, WindowOpens
  <1>7. Timing'
    BY <1>6 DEF Timing, Set, Hooking
  <1> QED BY <1>2, <1>7 DEF TimeInv

\* The sum of the reading and the interval, in halves, is the sum in 64 bits:
\* it does not pass 2^64 while the clock is within its bound.
LEMMA NextDeadline ==
  ASSUME TimeType, NotLate
  PROVE  /\ Next64[1] \in 0 .. Half - 1 /\ Next64[2] \in 0 .. Half - 1
         /\ Next64[1] * Half + Next64[2] = ReadTime + Interval
  <1> DEFINE sum == rlo + Interval
             carry == IF sum < Half THEN 0 ELSE 1
             rest == IF sum < Half THEN sum ELSE sum - Half
  <1>1. /\ rlo \in 0 .. Half - 1 /\ rhi \in 0 .. Half - 1 /\ Half \in Nat \ {0}
        /\ Interval \in 0 .. Half /\ Time \in Nat
    BY TimerAssumption DEF TimeType, Time
  <1>2. sum \div Half = carry /\ sum % Half = rest
    <2> PICK n \in Nat \ {0} : n = Half
      BY <1>1
    <2> PICK a \in 0 .. n - 1, b \in 0 .. n : a = rlo /\ b = Interval
      BY <1>1
    <2>1. /\ (a + b) % n = IF a + b < n THEN a + b ELSE a + b - n
          /\ (a + b) \div n = IF a + b < n THEN 0 ELSE 1
      BY SumModulo
    <2> QED BY <2>1
  <1>3. rest \in 0 .. Half - 1 /\ carry \in {0, 1} /\ sum = carry * Half + rest
    BY <1>1
  <1>4. Next64[2] = rest /\ Next64[1] = (rhi + carry) % Half
    BY <1>2 DEF Next64
  <1>5. rhi * Half \in Nat /\ (rhi + 1) * Half = rhi * Half + Half
    BY <1>1, CarryOver
  <1>6. ReadTime = rhi * Half + rlo
    BY DEF ReadTime
  <1>7. ReadTime + Interval < Half * Half
    <2>1. ReadTime <= Time + Half
      BY <1>1, <1>5, <1>6 DEF NotLate
    <2>2. Time <= MaxTime /\ MaxTime + Half + Interval < Half * Half
      BY TimerAssumption DEF TimeType
    <2>3. Half * Half \in Nat /\ ReadTime \in Nat /\ MaxTime \in Nat
      BY <1>1, <1>5, <1>6, TimerAssumption
    <2> QED BY <1>1, <2>1, <2>2, <2>3
  <1>8. rhi + carry \in 0 .. Half - 1
    <2> SUFFICES ASSUME carry = 1, rhi = Half - 1 PROVE FALSE
      BY <1>1, <1>3
    <2>1. (rhi + 1) * Half = Half * Half
      BY <1>1
    <2>2. sum >= Half
      BY <1>1
    <2> QED BY <1>1, <1>5, <1>6, <1>7, <2>1, <2>2
  <1>9. Next64[1] = rhi + carry
    BY <1>1, <1>4, <1>8
  <1>10. (rhi + carry) * Half = rhi * Half + carry * Half
    BY <1>1, <1>3, <1>5
  <1> HIDE DEF carry, rest
  <1>11. Next64[1] * Half + Next64[2] = ReadTime + Interval
    BY <1>1, <1>3, <1>4, <1>5, <1>6, <1>9, <1>10
  <1> QED BY <1>3, <1>4, <1>8, <1>9, <1>11

LEMMA WriteLoTime == TimeInv /\ WriteLo => TimeInv'
  <1> SUFFICES ASSUME TimeInv, WriteLo PROVE TimeInv'
    OBVIOUS
  <1> USE DEF WriteLo, Handler
  <1>1. TimeType /\ Clocked(FALSE) /\ NotLate /\ NotEarly
    BY ClockStep DEF TimeInv, Clock, Timing
  <1>2. Next64[2] \in 0 .. Half - 1
    BY <1>1, NextDeadline
  <1>3. TimeType'
    BY <1>1, <1>2 DEF TimeType, Running, Clocked
  <1>4. NotLate' /\ NotEarly'
    BY <1>1, WindowKept
  <1>5. cmplo' = Next64[2]'
    BY DEF Next64
  <1>6. Timing'
    BY <1>4, <1>5 DEF Timing, Set, Hooking
  <1> QED BY <1>3, <1>6 DEF TimeInv

LEMMA WriteHiTime == TimeInv /\ WriteHi => TimeInv'
  <1> SUFFICES ASSUME TimeInv, WriteHi PROVE TimeInv'
    OBVIOUS
  <1> USE DEF WriteHi, Handler
  <1>1. TimeType /\ Clocked(FALSE) /\ NotLate /\ NotEarly /\ cmplo = Next64[2]
    BY ClockStep DEF TimeInv, Clock, Timing
  <1>2. /\ Next64[1] \in 0 .. Half - 1
        /\ Next64[1] * Half + Next64[2] = ReadTime + Interval
    BY <1>1, NextDeadline
  <1>3. TimeType'
    BY <1>1, <1>2 DEF TimeType, Running, Hooking, Clocked
  <1>4. NotLate' /\ NotEarly' /\ ReadTime' = ReadTime
    BY <1>1, WindowKept
  <1>5. Deadline' = ReadTime' + Interval
    BY <1>1, <1>2, <1>4 DEF Deadline
  <1>6. hpc' \in {"mret", "hook"} /\ armed'
    OBVIOUS
  <1> HIDE DEF WriteHi, Handler
  <1>7. Timing'
    BY <1>4, <1>5, <1>6 DEF Timing
  <1> QED BY <1>3, <1>7 DEF TimeInv

LEMMA MretTime == TimeInv /\ Mret => TimeInv'
  <1> SUFFICES ASSUME TimeInv, Mret PROVE TimeInv'
    OBVIOUS
  <1> USE DEF Mret, Handler
  <1>1. TimeType /\ Clocked(FALSE)
    BY ClockStep DEF TimeInv, Clock
  <1>2. TimeType'
    BY <1>1 DEF TimeType, Running, Clocked
  <1>3. Deadline \in Nat /\ Deadline' = Deadline
    BY <1>1, DeadlineKept
  <1>4. /\ ReadTime' = ReadTime
        /\ NotLate => NotLate'
        /\ NotEarly => NotEarly'
    BY <1>1, WindowKept
  <1>5. Set /\ armed'
    BY DEF TimeInv, Timing, Set, Hooking
  <1>6. mip' => Time' >= Deadline'
    BY <1>1, <1>3 DEF Clocked
  <1>7. Timing'
    BY <1>3, <1>4, <1>5, <1>6 DEF TimeInv, Timing, Hooking
  <1> QED BY <1>2, <1>7 DEF TimeInv

LEMMA InitTime == Init => TimeInv
  <1> SUFFICES ASSUME Init PROVE TimeInv
    OBVIOUS
  <1> USE TimerAssumption DEF Init
  <1>1. Time = 0
    BY DEF Time
  <1>2. /\ 0 \in 0 .. Half - 1 /\ 0 \in 0 .. Divide - 1 /\ 0 \in 0 .. Interval
        /\ 0 <= MaxTime
    OBVIOUS
  <1>3. TimeType
    BY <1>1, <1>2, Zenon DEF TimeType
  <1>4. Timing
    BY DEF Timing, Set, Hooking
  <1> QED BY <1>3, <1>4 DEF TimeInv

LEMMA NextTime == TimeInv /\ [Next]_vars => TimeInv'
  <1> SUFFICES ASSUME TimeInv, [Next]_vars PROVE TimeInv'
    OBVIOUS
  <1>1. CASE Tick \/ Program
    BY <1>1, TickIdle, ProgramIdle, IdleTime
  <1>2. CASE Handle
    <2>1. CASE HookAction
      BY <2>1, HookSteps, HookTime
    <2> QED BY <1>2, <2>1, TrapTime, ReadLoTime, ReadHiTime, WriteLoTime, WriteHiTime,
                MretTime DEF Handle, HookAction
  <1>3. CASE UNCHANGED vars
    BY <1>3 DEF vars, sysvars, hvars, TimeInv, TimeType, Timing, Time, Deadline, ReadTime,
                NotLate, NotEarly, Set, Next64
  <1> QED BY <1>1, <1>2, <1>3 DEF Next

LEMMA TimeInvariance == Spec => []TimeInv
  BY InitTime, NextTime, PTL DEF Spec

\* The hook is never early, and late only by a carry between the two loads.
THEOREM HookCorrect == Spec => HookOnTime
  <1>1. TimeInv /\ [Next]_vars
          => [hpc = "readlo" /\ hpc' = "readhi" /\ armed => since >= Interval]_vars
    BY DEF TimeInv, Timing
  <1>2. TimeInv => LateOnlyByCarry
    <2> SUFFICES ASSUME TimeInv, armed, hpc = "off"
                 PROVE  Deadline <= Time + Interval + IF torn THEN Half ELSE 0
      BY DEF LateOnlyByCarry
    <2>1. NotLate /\ Deadline = ReadTime + Interval
      BY DEF TimeInv, Timing, Set
    <2>2. ReadTime \in Nat /\ Time \in Nat /\ Interval \in Nat /\ Half \in Nat
      BY TimerAssumption DEF TimeInv, TimeType, ReadTime, Time
    <2> QED BY <2>1, <2>2 DEF NotLate
  <1> QED BY <1>1, <1>2, TimeInvariance, PTL DEF Spec, HookOnTime, NeverEarly

-----------------------------------------------------------------------------
(* The inductive invariant of the display *)

Fields == {"hit", "and", "or"}

\* Where main can be in each of its displays, and what is true wherever it is.
Control ==
  /\ \/ game = "scroll" /\ main \in {"start", "message", "mtie", "mie", "key", "end"}
     \/ game = "score" /\ main \in {"start", "turn", "and", "or", "mtie", "mie", "won",
                                    "number", "label", "key", "end"}
     \/ game = "words" /\ main \in {"start", "mtie", "mie", "on", "off0", "off1", "off", "end"}
     \/ game = "count" /\ main \in {"start", "mtie", "mie", "on", "off"}
  /\ hook \in {"none", game}
  /\ hpc \in Hooking => hook = game
  /\ turn \in 0 .. MaxTurns + 1
  /\ turn <= MaxTurns \/ main \in {"number", "label", "key", "end"}
  /\ mode \in {0, 1} /\ counter \in Nat
  /\ {mtie, mie, stepped} \subseteq BOOLEAN

\* Two words, of which the label of a game's count is only in that game.
Words ==
  /\ dout = <<dout[1], dout[2]>>
  /\ game # "score" => dout[1][0][1] \notin Fields

\* A result scrolls: the two words are the message rotated.
Rotation ==
  \E r \in 0 .. 2 * PerWord - 1 :
    \A i \in 0 .. 2 * PerWord - 1 :
      Ring(N)[(i + r) % (2 * PerWord)] = Ring(Message)[i]

Scrolling ==
  game = "scroll" =>
    /\ main \in {"start", "message"} => hook = "none"
    /\ hook = "none" => mode = 0
    /\ hook = "scroll" =>
         /\ Rotation
         /\ \A i \in 0 .. PerWord - 1 : {N[1][i][1], N[2][i][1]} \subseteq {"upper", "lower"}
    /\ mode = 1 /\ hpc # "hook0" => dout = <<N[2], N[1]>>
    /\ hpc = "hook0" => mode = 1 /\ dout[2] = N[1]

\* A count is of this turn or one before.
Counted(f) == score[f] \in 1 .. turn

\* A game of Hit_and_Blow_2: the hook shows counts that have been stored,
Stored ==
  /\ score \in [Fields -> Nat]
  /\ main \in {"and", "or"} => Counted("hit")
  /\ main = "or" => Counted("and")
  /\ hook = "score" => \A f \in Fields : Counted(f)

\* each with its label,
LabelShown ==
  main \notin {"label", "key", "end"} =>
    IF hpc = "hook0"
    THEN \E n \in 1 .. turn : dout[2] = Filled(<<Field, n>>)
    ELSE \A f \in Fields :
           dout[1] = Labelled(f) => \E n \in 1 .. turn : dout[2] = Filled(<<f, n>>)

\* and once the game is won no handler runs any more.
WonShown ==
  main \in {"number", "label", "key", "end"} /\ turn <= MaxTurns =>
    /\ ~mtie /\ hpc = "off"
    /\ main = "label" => dout[2] = Result[2]
    /\ main \in {"key", "end"} => dout = Result

Scoring == game = "score" => Stored /\ LabelShown /\ WonShown

\* program5.c: interrupts come only while main waits for keys with the timer on.
Wording ==
  game = "words" =>
    /\ main \in {"start", "mtie", "mie"} => mode = 0 /\ ~mie /\ hpc = "off"
    /\ mtie => main \in {"mie", "on"}
    /\ hpc # "off" => main = "on"
    /\ counter \in 0 .. 3
    /\ main \in {"off1", "off"} => mode = 1 /\ dout[1] = GPIO_STR8("timeroff")[1]
    /\ main = "off" => dout[2] = GPIO_STR8("timeroff")[2]
    /\ hpc = "hook0" => mode = 1 /\ dout[1] = GPIO_STR8(string_list[counter + 1])[1]
    /\ mode = 1 /\ main \in {"on", "end"} /\ hpc # "hook0" =>
         dout \in {GPIO_STR8("timeroff"), GPIO_STR8(string_list[counter + 1])}

Counting == game = "count" => mode = 0 /\ data = counter

Displaying == Control /\ Words /\ Scrolling /\ Scoring /\ Wording /\ Counting

-----------------------------------------------------------------------------
(* Steps that leave the display and main alone *)

\* The handler goes on, or nothing of interest happens.
Quiet ==
  /\ UNCHANGED <<data, dout, mode, counter, mtie, mainvars>>
  /\ stepped' \in BOOLEAN
  /\ \/ hpc' = hpc /\ mie' = mie
     \/ /\ hpc' \in Running \ {"hook0"} /\ hpc # "hook0"
        /\ hpc = "off" => mtie /\ mie
        /\ hpc' = "hook" => hook # "none"
        /\ mie' \in {mie, FALSE}
     \/ hpc = "mret" /\ hpc' = "off" /\ mie' = TRUE

QuietAction == Tick \/ Trap \/ ReadLo \/ ReadHi \/ WriteLo \/ WriteHi \/ Mret

LEMMA QuietSteps == QuietAction => Quiet
  <1> USE DEF Quiet, Running, Handler, Step
  <1>1. Tick => Quiet
    BY DEF Tick, hvars
  <1>2. Trap => Quiet
    BY DEF Trap, Interrupt
  <1>3. ReadLo \/ ReadHi \/ WriteLo => Quiet
    BY DEF ReadLo, ReadHi, WriteLo
  <1>4. WriteHi => Quiet
    BY DEF WriteHi, Hooking
  <1>5. Mret => Quiet
    BY DEF Mret
  <1> QED BY <1>1, <1>2, <1>3, <1>4, <1>5 DEF QuietAction

LEMMA QuietControl == Control /\ Quiet => Control'
  BY DEF Control, Quiet, Hooking, Running, mainvars

LEMMA HookControl == Control /\ HookAction => Control'
  <1> SUFFICES ASSUME Control, HookAction PROVE Control'
    OBVIOUS
  <1> USE DEF Control, Handler, Step, Hooking, mainvars
  <1>1. CASE Scroll \/ ScrollLow
    BY <1>1 DEF Scroll, ScrollLow
  <1>2. CASE Score
    BY <1>2 DEF Score
  <1>3. CASE ScoreLabel
    BY <1>3 DEF ScoreLabel
  <1>4. CASE Word
    BY <1>4 DEF Word, NextWord, string_list
  <1>5. CASE WordHigh
    BY <1>5 DEF WordHigh
  <1>6. CASE Count
    BY <1>6 DEF Count
  <1> QED BY <1>1, <1>2, <1>3, <1>4, <1>5, <1>6 DEF HookAction

LEMMA ProgramControl == Control /\ Program => Control'
  <1> SUFFICES ASSUME Control, Program PROVE Control'
    OBVIOUS
  <1> USE TimerAssumption DEF Control, Main, Step, Hooking, hvars
  <1>1. CASE ClearDisplay \/ SetMessage
    BY <1>1 DEF ClearDisplay, SetMessage
  <1>2. CASE StoreHit
    BY <1>2 DEF StoreHit
  <1>10. CASE StoreAnd
    BY <1>10 DEF StoreAnd
  <1>11. CASE StoreOr
    BY <1>11 DEF StoreOr
  <1>3. CASE SetMtie
    BY <1>3 DEF SetMtie
  <1>4. CASE SetMie
    <2>1. \/ game = "scroll" /\ main' = "key"
          \/ game = "score" /\ main' \in {"turn", "won"}
          \/ game \in {"words", "count"} /\ main' = "on"
      BY <1>4 DEF SetMie
    <2> QED BY <1>4, <2>1 DEF SetMie
  <1>5. CASE Won
    BY <1>5 DEF Won
  <1>12. CASE Over
    BY <1>12 DEF Over
  <1>6. CASE ShowNumber \/ ShowLabel \/ Finish
    BY <1>6 DEF ShowNumber, ShowLabel, Finish
  <1>7. CASE SetHook
    BY <1>7 DEF SetHook
  <1>8. CASE SwitchOff \/ ShowOff \/ ShowOffHigh
    BY <1>8 DEF SwitchOff, ShowOff, ShowOffHigh
  <1>9. CASE SwitchOn \/ Quit
    BY <1>9 DEF SwitchOn, Quit
  <1> QED BY <1>1, <1>2, <1>3, <1>4, <1>5, <1>6, <1>7, <1>8, <1>9,
            <1>10, <1>11, <1>12 DEF Program

-----------------------------------------------------------------------------
(* The scrolling result *)

\* One rotation moves every digit of the ring one place on, through both words.
LEMMA RingRotated ==
  ASSUME NEW j \in 0 .. 2 * PerWord - 1
  PROVE  Ring(Rotated)[j] = Ring(N)[IF j = 0 THEN 2 * PerWord - 1 ELSE j - 1]
  <1> USE TimerAssumption
  <1>1. CASE j = 0
    BY <1>1 DEF Ring, Rotated
  <1>2. CASE 0 < j /\ j < PerWord
    BY <1>2 DEF Ring, Rotated
  <1>3. CASE j = PerWord
    BY <1>3 DEF Ring, Rotated
  <1>4. CASE PerWord < j
    BY <1>4 DEF Ring, Rotated
  <1> QED BY <1>1, <1>2, <1>3, <1>4

LEMMA RotationKept == Rotation /\ N' = Rotated => Rotation'
  <1> SUFFICES ASSUME Rotation, N' = Rotated PROVE Rotation'
    OBVIOUS
  <1> DEFINE D == 0 .. 2 * PerWord - 1
  <1> PICK r \in D : \A i \in D : Ring(N)[(i + r) % (2 * PerWord)] = Ring(Message)[i]
    BY DEF Rotation
  <1> DEFINE s == IF r = 2 * PerWord - 1 THEN 0 ELSE r + 1
  <1>1. s \in D
    BY TimerAssumption
  <1>2. ASSUME NEW i \in D
        PROVE  Ring(Rotated)[(i + s) % (2 * PerWord)] = Ring(Message)[i]
    <2> DEFINE before == (i + r) % (2 * PerWord)
               after == (i + s) % (2 * PerWord)
    <2>1. 2 * PerWord \in Nat \ {0}
      BY TimerAssumption
    <2> HIDE DEF before, after
    <2>3. after \in D /\ before = IF after = 0 THEN 2 * PerWord - 1 ELSE after - 1
      BY <2>1, TurnModulo DEF before, after
    <2>4. Ring(Rotated)[after] = Ring(N)[before]
      BY <2>3, RingRotated
    <2> QED BY <2>4 DEF before, after
  <1>3. \A i \in D : Ring(N')[(i + s) % (2 * PerWord)] = Ring(Message)[i]
    BY <1>2
  <1>4. Ring(N)' = Ring(N') /\ Ring(Message)' = Ring(Message)
    BY DEF Ring, Message
  <1> HIDE DEF s
  <1> QED BY <1>1, <1>3, <1>4 DEF Rotation

LEMMA RotationStays == N' = N => Rotation' = Rotation
  <1> SUFFICES ASSUME N' = N PROVE Rotation' = Rotation
    OBVIOUS
  <1>1. Ring(N)' = Ring(N) /\ Ring(Message)' = Ring(Message)
    BY DEF Ring, Message
  <1> QED BY <1>1 DEF Rotation

LEMMA ScrollActions ==
  ASSUME Control, game = "scroll"
  PROVE  /\ Program => ClearDisplay \/ SetMessage \/ SetMtie \/ SetMie \/ Finish
         /\ HookAction => Scroll \/ ScrollLow
  <1>1. ASSUME Program
        PROVE  ClearDisplay \/ SetMessage \/ SetMtie \/ SetMie \/ Finish
    BY <1>1 DEF Program, Control, StoreHit, StoreAnd, StoreOr, Won, Over, ShowNumber,
                ShowLabel, SetHook, SwitchOff, ShowOff, ShowOffHigh, SwitchOn, Quit, Main
  <1>2. ASSUME HookAction PROVE Scroll \/ ScrollLow
    BY <1>2 DEF HookAction, Control, Handler, Hooking, Score, ScoreLabel, Word, WordHigh, Count
  <1> QED BY <1>1, <1>2

LEMMA ScrollQuiet == Control /\ Scrolling /\ Quiet => Scrolling'
  <1> SUFFICES ASSUME Control, Scrolling, Quiet, game = "scroll" PROVE Scrolling'
    BY DEF Scrolling, Quiet, mainvars
  <1>1. Rotation => Rotation'
    BY RotationStays DEF Quiet, mainvars
  <1> QED BY <1>1 DEF Scrolling, Quiet, Running, mainvars

LEMMA ScrollProgram == Control /\ Words /\ Scrolling /\ Program => Scrolling'
  <1> SUFFICES ASSUME Control, Words, Scrolling, Program, game' = "scroll" PROVE Scrolling'
    BY DEF Scrolling
  <1>0. game = "scroll"
    BY DEF Program, ClearDisplay, SetMessage, StoreHit, StoreAnd, StoreOr, SetMtie, SetMie,
           Won, Over, ShowNumber, ShowLabel, Finish, SetHook, SwitchOff, ShowOff,
           ShowOffHigh, SwitchOn, Quit
  <1> USE <1>0 DEF Scrolling, Main, hvars
  <1>1. CASE ClearDisplay
    BY <1>1 DEF ClearDisplay
  <1>2. CASE SetMessage
    <2>1. Rotation'
      <3>1. 0 \in 0 .. 2 * PerWord - 1
        BY TimerAssumption
      <3>2. \A i \in 0 .. 2 * PerWord - 1 : (i + 0) % (2 * PerWord) = i
        BY TimerAssumption
      <3>3. Ring(N)' = Ring(Message) /\ Ring(Message)' = Ring(Message)
        BY <1>2 DEF SetMessage, Ring, Message
      <3> QED BY <3>1, <3>2, <3>3 DEF Rotation
    <2>2. \A i \in 0 .. PerWord - 1 :
            {N'[1][i][1], N'[2][i][1]} \subseteq {"upper", "lower"}
      BY <1>2 DEF SetMessage, Message, Labelled
    <2> QED BY <1>2, <2>1, <2>2 DEF SetMessage
  <1>3. CASE SetMtie \/ SetMie \/ Finish
    <2>1. UNCHANGED <<hpc, dout, mode, N, hook>> /\ main' \notin {"start", "message"}
      BY <1>3 DEF SetMtie, SetMie, Finish
    <2>2. Rotation => Rotation'
      BY <2>1, RotationStays
    <2> QED BY <2>1, <2>2
  <1> QED BY <1>1, <1>2, <1>3, ScrollActions

LEMMA ScrollHook == Control /\ Words /\ Scrolling /\ HookAction => Scrolling'
  <1> SUFFICES ASSUME Control, Words, Scrolling, HookAction, game = "scroll" PROVE Scrolling'
    BY DEF Scrolling, HookAction, Handler, mainvars, Scroll, ScrollLow, Score, ScoreLabel,
           Word, WordHigh, Count
  <1> USE DEF Scrolling
  <1>1. CASE Scroll
    <2>1. /\ hook = "scroll" /\ hpc' = "hook0" /\ mode' = 1 /\ N' = Rotated
          /\ UNCHANGED <<main, hook>>
      BY <1>1 DEF Scroll
    <2>2. dout' = <<dout[1], Rotated[1]>>
      BY <1>1 DEF Scroll, Words
    <2>3. Rotation'
      BY <2>1, RotationKept
    <2>4. \A i \in 0 .. PerWord - 1 :
            {Rotated[1][i][1], Rotated[2][i][1]} \subseteq {"upper", "lower"}
      BY <2>1, TimerAssumption DEF Rotated
    <2> QED BY <2>1, <2>2, <2>3, <2>4
  <1>2. CASE ScrollLow
    <2>1. /\ hook = "scroll" /\ hpc = "hook0" /\ hpc' = "mret"
          /\ UNCHANGED <<game, main, N, hook, mode>>
      BY <1>2 DEF ScrollLow, Handler, mainvars
    <2>2. dout' = <<N[2], N[1]>>
      BY <1>2, <2>1 DEF ScrollLow, Words
    <2>3. Rotation => Rotation'
      BY <2>1, RotationStays
    <2> QED BY <2>1, <2>2, <2>3
  <1> QED BY <1>1, <1>2, ScrollActions

-----------------------------------------------------------------------------
(* The game of Hit_and_Blow_2 *)

LEMMA ScoreActions ==
  ASSUME Control, game = "score"
  PROVE  /\ Program => \/ ClearDisplay \/ StoreHit \/ StoreAnd \/ StoreOr \/ SetMtie
                       \/ SetMie \/ Won \/ Over \/ ShowNumber \/ ShowLabel \/ Finish
         /\ HookAction => Score \/ ScoreLabel
  <1>1. ASSUME Program
        PROVE  \/ ClearDisplay \/ StoreHit \/ StoreAnd \/ StoreOr \/ SetMtie
               \/ SetMie \/ Won \/ Over \/ ShowNumber \/ ShowLabel \/ Finish
    BY <1>1 DEF Program, Control, SetMessage, SetHook, SwitchOff, ShowOff, ShowOffHigh,
                SwitchOn, Quit, Main
  <1>2. ASSUME HookAction PROVE Score \/ ScoreLabel
    BY <1>2 DEF HookAction, Control, Handler, Hooking, Scroll, ScrollLow, Word, WordHigh, Count
  <1> QED BY <1>1, <1>2

\* The label of a count names one of the three.
LEMMA FieldLabel ==
  /\ Field \in Fields
  /\ \A f \in Fields : Labelled(Field) = Labelled(f) => f = Field
  <1>1. Field \in Fields
    BY DEF Field, Fields
  <1>2. ASSUME NEW f \in Fields, Labelled(Field) = Labelled(f) PROVE f = Field
    <2>1. 0 \in 0 .. PerWord - 1
      BY TimerAssumption
    <2>2. Labelled(Field)[0] = <<Field, 0>> /\ Labelled(f)[0] = <<f, 0>>
      BY <2>1 DEF Labelled
    <2> QED BY <1>2, <2>2
  <1> QED BY <1>1, <1>2

LEMMA ScoreQuiet == Control /\ Scoring /\ Quiet => Scoring'
  <1> SUFFICES ASSUME Control, Scoring, Quiet, game = "score" PROVE Scoring'
    BY DEF Scoring, Quiet, mainvars
  <1>1. /\ UNCHANGED <<dout, counter, mtie, main, turn, score, hook>>
        /\ hpc' = "hook0" <=> hpc = "hook0"
        /\ hpc = "off" /\ ~mtie => hpc' = "off"
    BY DEF Quiet, Running, mainvars
  <1>2. Stored' /\ Field' = Field /\ Result' = Result
    BY <1>1 DEF Scoring, Stored, Counted, Field, Result
  <1>3. LabelShown'
    BY <1>1, <1>2 DEF Scoring, LabelShown
  <1>4. WonShown'
    BY <1>1, <1>2 DEF Scoring, WonShown
  <1> QED BY <1>2, <1>3, <1>4 DEF Scoring

LEMMA ScoreHook == Control /\ Words /\ Scoring /\ HookAction => Scoring'
  <1> SUFFICES ASSUME Control, Words, Scoring, HookAction, game = "score" PROVE Scoring'
    BY DEF Scoring, HookAction, Handler, mainvars, Scroll, ScrollLow, Score, ScoreLabel,
           Word, WordHigh, Count
  <1>1. /\ hook = "score" /\ hpc \in Hooking
        /\ UNCHANGED <<main, turn, score, hook, mtie>>
    BY ScoreActions DEF Score, ScoreLabel, Handler, Hooking, mainvars
  <1>2. Stored'
    BY <1>1 DEF Scoring, Stored, Counted
  <1>3. WonShown'
    BY <1>1 DEF Scoring, WonShown, Hooking
  <1>4. CASE Score
    <2>1. hpc' = "hook0" /\ Field' = Field
      BY <1>4 DEF Score, Handler, Field
    <2>2. dout'[2] = Filled(<<Field, score[Field]>>)
      BY <1>4 DEF Score, Words
    <2>3. score[Field] \in 1 .. turn
      BY <1>1, FieldLabel DEF Scoring, Stored, Counted
    <2>4. LabelShown'
      BY <1>1, <2>1, <2>2, <2>3 DEF LabelShown
    <2> QED BY <1>2, <1>3, <2>4 DEF Scoring
  <1>5. CASE ScoreLabel
    <2>1. hpc = "hook0" /\ hpc' = "mret"
      BY <1>5 DEF ScoreLabel, Handler
    <2>2. dout'[1] = Labelled(Field) /\ dout'[2] = dout[2]
      BY <1>5 DEF ScoreLabel, Words
    <2>3. LabelShown'
      BY <1>1, <2>1, <2>2, FieldLabel DEF Scoring, LabelShown
    <2> QED BY <1>2, <1>3, <2>3 DEF Scoring
  <1> QED BY <1>4, <1>5, ScoreActions

\* What was shown with its label still is when a turn begins.
LEMMA LabelKept ==
  ASSUME LabelShown, turn \in Nat, turn' \in {turn, turn + 1},
         hpc = "off", hpc' = "off", dout' = dout, main \notin {"label", "key", "end"}
  PROVE  LabelShown'
  <1>1. ASSUME NEW f \in Fields, dout[1] = Labelled(f)
        PROVE  \E n \in 1 .. turn' : dout[2] = Filled(<<f, n>>)
    <2> PICK n \in 1 .. turn : dout[2] = Filled(<<f, n>>)
      BY <1>1 DEF LabelShown
    <2>1. n \in 1 .. turn'
      OBVIOUS
    <2> QED BY <2>1
  <1> QED BY <1>1 DEF LabelShown

LEMMA ScoreProgram == Control /\ Words /\ Scoring /\ Program => Scoring'
  <1> SUFFICES ASSUME Control, Words, Scoring, Program, game' = "score" PROVE Scoring'
    BY DEF Scoring
  <1>0. game = "score"
    BY DEF Program, ClearDisplay, SetMessage, StoreHit, StoreAnd, StoreOr, SetMtie, SetMie,
           Won, Over, ShowNumber, ShowLabel, Finish, SetHook, SwitchOff, ShowOff,
           ShowOffHigh, SwitchOn, Quit
  <1>1. /\ Stored /\ LabelShown /\ WonShown
        /\ turn \in Nat /\ MaxTurns \in Nat
        /\ turn <= MaxTurns \/ main \in {"number", "label", "key", "end"}
    BY <1>0, TimerAssumption DEF Scoring, Control
  <1>2. CASE \/ ClearDisplay \/ StoreHit \/ StoreAnd \/ StoreOr \/ SetMtie
             \/ SetMie \/ Won \/ Over
    <2>1. /\ hpc = "off" /\ hpc' = "off" /\ dout' = dout
          /\ main \in {"start", "turn", "and", "or", "mtie", "mie", "won"}
          /\ turn' \in {turn, turn + 1}
      BY <1>2 DEF ClearDisplay, StoreHit, StoreAnd, StoreOr, SetMtie, SetMie, Won, Over,
                  Main, hvars
    <2>2. LabelShown'
      BY <1>1, <2>1, LabelKept
    <2>3. WonShown'
      <3>1. CASE Won
        BY <1>1, <2>1, <3>1 DEF Won, Main, WonShown
      <3>2. CASE Over
        BY <1>1, <3>2 DEF Over, Main, WonShown
      <3>3. CASE SetMie
        BY <1>0, <3>3 DEF SetMie, Main, WonShown
      <3>4. CASE ClearDisplay \/ StoreHit \/ StoreAnd \/ StoreOr \/ SetMtie
        BY <1>0, <3>4 DEF ClearDisplay, StoreHit, StoreAnd, StoreOr, SetMtie, Main, WonShown
      <3> QED BY <1>2, <3>1, <3>2, <3>3, <3>4
    <2>4. Stored'
      <3> USE DEF Stored, Counted, Fields, Main
      <3>1. CASE StoreHit
        BY <1>1, <3>1 DEF StoreHit
      <3>2. CASE StoreAnd
        BY <1>1, <3>2 DEF StoreAnd
      <3>3. CASE StoreOr
        BY <1>1, <3>3 DEF StoreOr
      <3>4. CASE ClearDisplay \/ SetMtie \/ Won
        BY <1>0, <1>1, <3>4 DEF ClearDisplay, SetMtie, Won
      <3>5. CASE SetMie
        BY <1>0, <1>1, <3>5 DEF SetMie
      <3>6. CASE Over
        BY <1>1, <3>6 DEF Over
      <3> QED BY <1>2, <3>1, <3>2, <3>3, <3>4, <3>5, <3>6
    <2> QED BY <2>2, <2>3, <2>4 DEF Scoring
  <1>3. CASE ShowNumber \/ ShowLabel \/ Finish
    <2>1. /\ main' \in {"label", "key", "end"} /\ UNCHANGED <<turn, score, hook>>
          /\ main \in {"number", "label", "key"}
          /\ hpc' = hpc /\ Result' = Result /\ (mtie' => mtie)
      BY <1>3 DEF ShowNumber, ShowLabel, Finish, Main, hvars, Result
    <2>2. Stored'
      BY <1>1, <2>1 DEF Stored, Counted
    <2>3. LabelShown'
      BY <2>1 DEF LabelShown
    <2>4. WonShown'
      <3> SUFFICES ASSUME turn <= MaxTurns
                   PROVE  /\ ~mtie' /\ hpc' = "off"
                          /\ main' = "label" => dout'[2] = Result[2]
                          /\ main' \in {"key", "end"} => dout' = Result
        BY <2>1 DEF WonShown
      <3>1. ~mtie' /\ hpc' = "off"
        <4>1. ~mtie /\ hpc = "off"
          BY <1>1, <2>1 DEF WonShown
        <4> QED BY <2>1, <4>1
      <3>2. CASE ShowNumber
        BY <3>1, <3>2 DEF ShowNumber, Main, Words
      <3>3. CASE ShowLabel
        <4>1. dout[2] = Result[2]
          BY <1>1, <3>3 DEF ShowLabel, Main, WonShown
        <4>2. dout' = <<Result[1], Result[2]>>
          BY <3>3, <4>1 DEF ShowLabel, Words
        <4>3. Result = <<Result[1], Result[2]>>
          BY DEF Result
        <4> QED BY <3>1, <3>3, <4>2, <4>3 DEF ShowLabel, Main
      <3>4. CASE Finish
        BY <1>1, <3>1, <3>4 DEF Finish, Main, WonShown
      <3> QED BY <1>3, <3>2, <3>3, <3>4
    <2> QED BY <2>2, <2>3, <2>4 DEF Scoring
  <1> QED BY <1>0, <1>2, <1>3, ScoreActions

-----------------------------------------------------------------------------
(* The words of program5.c, the counter of test_rv32_5.c *)

\* A string of the display is a pair of words, and none of them labels a count.
LEMMA StringWords ==
  ASSUME NEW s \in {"apple", "banana", "cherry", "date", "timeroff"}
  PROVE  /\ GPIO_STR8(s) = <<GPIO_STR8(s)[1], GPIO_STR8(s)[2]>>
         /\ GPIO_STR8(s)[1][0][1] \notin Fields
  <1>1. GPIO_STR8(s) = <<GPIO_STR8(s)[1], GPIO_STR8(s)[2]>>
    <2>1. GPIO_STR8(s) = [w \in 1 .. 2 |-> GPIO_STR8(s)[w]]
      BY DEF GPIO_STR8
    <2>2. \A f : f = [w \in 1 .. 2 |-> f[w]] => f = <<f[1], f[2]>>
      OBVIOUS
    <2> QED BY <2>1, <2>2
  <1>2. /\ 0 \in 0 .. PerWord - 1 /\ 0 \in 0 .. 2 * PerWord - 1
        /\ 2 * PerWord - 1 \in 0 .. 2 * PerWord - 1
    BY TimerAssumption
  <1>3. GPIO_STR8(s)[1][0] = convert_char_seg7(padded(s)[2 * PerWord - 1])
    BY <1>2, TimerAssumption DEF GPIO_STR8
  <1>4. padded(s)[2 * PerWord - 1] \in {<<s, 2 * PerWord - 1>>, <<"nul", 0>>}
    BY <1>2 DEF padded
  <1>5. GPIO_STR8(s)[1][0] \in {<<s, 2 * PerWord - 1>>, <<"nul", 0>>, <<"blank", 0>>}
    BY <1>3, <1>4 DEF convert_char_seg7
  <1>6. GPIO_STR8(s)[1][0][1] \in {s, "nul", "blank"}
    BY <1>5
  <1> QED BY <1>1, <1>6 DEF Fields

LEMMA ListedWord ==
  ASSUME NEW c \in 0 .. 3
  PROVE  string_list[c + 1] \in {"apple", "banana", "cherry", "date"}
  BY DEF string_list

LEMMA WordActions ==
  ASSUME Control, game = "words"
  PROVE  /\ Program => \/ SetHook \/ SetMtie \/ SetMie \/ SwitchOff \/ ShowOff
                       \/ ShowOffHigh \/ SwitchOn \/ Quit
         /\ HookAction => Word \/ WordHigh
  <1>1. ASSUME Program
        PROVE  \/ SetHook \/ SetMtie \/ SetMie \/ SwitchOff \/ ShowOff
               \/ ShowOffHigh \/ SwitchOn \/ Quit
    BY <1>1 DEF Program, Control, ClearDisplay, SetMessage, StoreHit, StoreAnd, StoreOr,
                Won, Over, ShowNumber, ShowLabel, Finish, Main
  <1>2. ASSUME HookAction PROVE Word \/ WordHigh
    BY <1>2 DEF HookAction, Control, Handler, Hooking, Scroll, ScrollLow, Score, ScoreLabel, Count
  <1> QED BY <1>1, <1>2

LEMMA WordQuiet == Control /\ Wording /\ Quiet => Wording'
  <1> SUFFICES ASSUME Control, Wording, Quiet, game = "words" PROVE Wording'
    BY DEF Wording, Quiet, mainvars
  <1>1. /\ UNCHANGED <<dout, mode, counter, mtie, main>>
        /\ hpc' = "hook0" <=> hpc = "hook0"
    BY DEF Quiet, Running, mainvars
  <1>2. hpc' # "off" /\ hpc = "off" => mtie /\ mie
    BY DEF Quiet
  <1>3. hpc = "off" /\ hpc' = "off" => mie' = mie
    BY DEF Quiet, Running, Hooking
  <1>4. main \in {"start", "mtie", "mie"} => hpc' = "off" /\ ~mie'
    BY <1>2, <1>3 DEF Wording
  <1>5. hpc' # "off" => main = "on"
    BY <1>2 DEF Wording
  <1> QED BY <1>1, <1>4, <1>5 DEF Wording

LEMMA WordHook == Control /\ Words /\ Wording /\ HookAction => Wording'
  <1> SUFFICES ASSUME Control, Words, Wording, HookAction, game = "words" PROVE Wording'
    BY DEF Wording, HookAction, Handler, mainvars, Scroll, ScrollLow, Score, ScoreLabel,
           Word, WordHigh, Count
  <1>1. /\ hpc \in Hooking /\ hpc' \in {"hook0", "mret"} /\ main = "on"
        /\ UNCHANGED <<main, mtie>>
    BY WordActions DEF Word, WordHigh, Handler, Hooking, mainvars, Wording
  <1>2. CASE Word
    <2>1. hpc' = "hook0" /\ mode' = 1 /\ counter' = NextWord
      BY <1>2 DEF Word, Handler
    <2>2. NextWord \in 0 .. 3
      BY DEF Wording, NextWord, string_list
    <2>3. dout'[1] = GPIO_STR8(string_list[counter' + 1])[1]
      BY <1>2, <2>1 DEF Word, Words
    <2> QED BY <1>1, <2>1, <2>2, <2>3 DEF Wording
  <1>3. CASE WordHigh
    <2>1. hpc = "hook0" /\ hpc' = "mret" /\ mode' = mode /\ counter' = counter
      BY <1>3 DEF WordHigh, Handler
    <2>2. dout' = <<dout[1], GPIO_STR8(string_list[counter + 1])[2]>>
      BY <1>3 DEF WordHigh, Words
    <2>3. dout' = GPIO_STR8(string_list[counter + 1])
      <3>1. string_list[counter + 1] \in {"apple", "banana", "cherry", "date"}
        BY ListedWord DEF Wording
      <3> QED BY <2>1, <2>2, <3>1, StringWords DEF Wording
    <2> QED BY <1>1, <2>1, <2>3 DEF Wording
  <1> QED BY <1>2, <1>3, WordActions

LEMMA WordProgram == Control /\ Words /\ Wording /\ Program => Wording'
  <1> SUFFICES ASSUME Control, Words, Wording, Program, game' = "words" PROVE Wording'
    BY DEF Wording
  <1>0. game = "words"
    BY DEF Program, ClearDisplay, SetMessage, StoreHit, StoreAnd, StoreOr, SetMtie, SetMie,
           Won, Over, ShowNumber, ShowLabel, Finish, SetHook, SwitchOff, ShowOff,
           ShowOffHigh, SwitchOn, Quit
  <1> DEFINE Off == GPIO_STR8("timeroff")
  <1>1. Off = <<Off[1], Off[2]>>
    BY StringWords
  <1> HIDE DEF Off
  <1>2. CASE SetHook \/ SetMtie
    BY <1>0, <1>2 DEF SetHook, SetMtie, Main, hvars, Wording
  <1>3. CASE SetMie
    BY <1>0, <1>3 DEF SetMie, Main, hvars, Wording
  <1>4. CASE SwitchOff
    BY <1>0, <1>4 DEF SwitchOff, Main, hvars, Wording
  <1>5. CASE SwitchOn
    <2>1. dout = Off
      BY <1>0, <1>1, <1>5 DEF SwitchOn, Main, Wording, Words, Off
    <2> QED BY <1>0, <1>5, <2>1 DEF SwitchOn, Main, hvars, Wording, Off
  <1>6. CASE ShowOff
    <2>1. dout'[1] = Off[1] /\ mode' = 1
      BY <1>6 DEF ShowOff, Words, Off
    <2> QED BY <1>0, <1>6, <2>1 DEF ShowOff, Main, hvars, Wording, Off
  <1>7. CASE ShowOffHigh
    <2>1. dout'[1] = dout[1] /\ dout'[2] = Off[2]
      BY <1>7 DEF ShowOffHigh, Words, Off
    <2> QED BY <1>0, <1>7, <2>1 DEF ShowOffHigh, Main, hvars, Wording, Off
  <1>8. CASE Quit
    <2>1. main = "off" => dout = Off
      BY <1>0, <1>1, <1>8 DEF Wording, Words, Off
    <2> QED BY <1>0, <1>8, <2>1 DEF Quit, Main, hvars, Wording, Off
  <1> QED BY <1>0, <1>2, <1>3, <1>4, <1>5, <1>6, <1>7, <1>8, WordActions

LEMMA CountStep ==
  Control /\ Counting /\ (QuietAction \/ HookAction \/ Program) => Counting'
  <1> SUFFICES ASSUME Control, Counting, QuietAction \/ HookAction \/ Program,
                      game' = "count"
               PROVE  Counting'
    BY DEF Counting
  <1>1. CASE QuietAction
    BY <1>1, QuietSteps DEF Quiet, Counting, mainvars
  <1>2. CASE HookAction
    <2>1. game = "count"
      BY <1>2 DEF HookAction, Handler, mainvars, Scroll, ScrollLow, Score, ScoreLabel,
                  Word, WordHigh, Count
    <2>2. Count
      BY <1>2, <2>1 DEF HookAction, Control, Handler, Hooking, Scroll, ScrollLow, Score,
                        ScoreLabel, Word, WordHigh
    <2> QED BY <2>2 DEF Count, Counting
  <1>3. CASE Program
    <2>1. game = "count"
      BY <1>3 DEF Program, ClearDisplay, SetMessage, StoreHit, StoreAnd, StoreOr, SetMtie,
             SetMie, Won, Over, ShowNumber, ShowLabel, Finish, SetHook, SwitchOff, ShowOff,
             ShowOffHigh, SwitchOn, Quit
    <2>2. SetHook \/ SetMtie \/ SetMie \/ SwitchOff \/ SwitchOn
      BY <1>3, <2>1 DEF Program, Control, ClearDisplay, SetMessage, StoreHit, StoreAnd,
             StoreOr, Won, Over, ShowNumber, ShowLabel, Finish, ShowOff, ShowOffHigh, Quit, Main
    <2> QED BY <2>1, <2>2 DEF SetHook, SetMtie, SetMie, SwitchOff, SwitchOn, Main, hvars,
                              Counting
  <1> QED BY <1>1, <1>2, <1>3

-----------------------------------------------------------------------------
(* All steps *)

LEMMA WordsStep ==
  ASSUME Control, Words, Scrolling, Wording,
         QuietAction \/ HookAction \/ Program
  PROVE  Words'
  <1>1. CASE QuietAction
    BY <1>1, QuietSteps DEF Quiet, Words, mainvars
  <1>2. CASE HookAction
    <2>1. CASE Scroll
      BY <2>1 DEF Scroll, Words
    <2>2. CASE ScrollLow
      <3>1. dout' = <<N[2], dout[2]>> /\ game' = game
        BY <2>2 DEF ScrollLow, Words, Handler, mainvars
      <3>2. game = "scroll"
        BY <2>2 DEF ScrollLow, Control
      <3>3. N[2][0][1] \in {"upper", "lower"}
        BY <2>2, <3>2, TimerAssumption DEF ScrollLow, Scrolling
      <3> QED BY <3>1, <3>3 DEF Words, Fields
    <2>3. CASE Score \/ ScoreLabel
      BY <2>3 DEF Score, ScoreLabel, Words, Control, Handler, mainvars
    <2>4. CASE Word
      <3>1. game = "words"
        BY <2>4 DEF Word, Control
      <3>2. NextWord \in 0 .. 3
        BY <3>1 DEF Wording, NextWord, string_list
      <3>3. string_list[NextWord + 1] \in {"apple", "banana", "cherry", "date"}
        BY <3>2, ListedWord
      <3>4. GPIO_STR8(string_list[NextWord + 1])[1][0][1] \notin Fields
        BY <3>3, StringWords
      <3>5. /\ dout' = <<GPIO_STR8(string_list[NextWord + 1])[1], dout[2]>>
            /\ game' = game
        BY <2>4 DEF Word, Words, Handler, mainvars
      <3> QED BY <3>4, <3>5 DEF Words
    <2>5. CASE WordHigh
      <3> PICK w : w = GPIO_STR8(string_list[counter + 1])[2]
        OBVIOUS
      <3>1. dout' = <<dout[1], w>> /\ game' = game
        BY <2>5 DEF WordHigh, Words, Handler, mainvars
      <3> QED BY <3>1 DEF Words
    <2>6. CASE Count
      BY <2>6 DEF Count, Words, Handler, mainvars
    <2> QED BY <1>2, <2>1, <2>2, <2>3, <2>4, <2>5, <2>6 DEF HookAction
  <1>3. CASE Program
    <2>1. CASE ShowNumber \/ ShowLabel
      <3>1. game' = "score"
        BY <2>1 DEF ShowNumber, ShowLabel, Main, Control
      <3>2. dout' = <<dout'[1], dout'[2]>>
        BY <2>1 DEF ShowNumber, ShowLabel, Words
      <3> QED BY <3>1, <3>2 DEF Words
    <2>2. CASE ShowOff
      <3>1. dout' = <<GPIO_STR8("timeroff")[1], dout[2]>>
        BY <2>2 DEF ShowOff, Words
      <3> QED BY <3>1, StringWords DEF Words
    <2>3. CASE ShowOffHigh
      <3>1. dout' = <<dout[1], GPIO_STR8("timeroff")[2]>> /\ game' = game
        BY <2>3 DEF ShowOffHigh, Words
      <3> QED BY <3>1 DEF Words
    <2>4. ASSUME ~(ShowNumber \/ ShowLabel \/ ShowOff \/ ShowOffHigh)
          PROVE  UNCHANGED <<dout, game>>
      BY <1>3, <2>4 DEF Program, ClearDisplay, SetMessage, StoreHit, StoreAnd, StoreOr,
             SetMtie, SetMie, Won, Over, Finish, SetHook, SwitchOff, SwitchOn, Quit
    <2> QED BY <2>1, <2>2, <2>3, <2>4 DEF Words
  <1> QED BY <1>1, <1>2, <1>3

LEMMA InitDisplay == Init => Displaying
  <1> SUFFICES ASSUME Init PROVE Displaying
    OBVIOUS
  <1> USE TimerAssumption DEF Init
  <1>1. Control
    <2>1. game \in {"scroll", "score", "words", "count"} /\ 0 \in 0 .. MaxTurns + 1
          /\ 0 <= MaxTurns
      OBVIOUS
    <2>2. /\ main = "start" /\ hook = "none" /\ hpc = "off" /\ turn = 0 /\ mode = 0
          /\ counter = 0 /\ mtie = FALSE /\ mie = FALSE /\ stepped = FALSE
      OBVIOUS
    <2> HIDE DEF Init
    <2> QED BY <2>1, <2>2 DEF Control, Hooking
  <1>2. dout = <<Filled(<<"blank", 0>>), Filled(<<"blank", 0>>)>>
    OBVIOUS
  <1>3. dout[1][0] = <<"blank", 0>>
    BY <1>2 DEF Filled
  <1>4. Words
    BY <1>2, <1>3 DEF Words, Fields
  <1>5. Scrolling /\ Wording /\ Counting
    BY DEF Scrolling, Wording, Counting
  <1>6. \A f \in Fields : dout[1] # Labelled(f)
    <2> SUFFICES ASSUME NEW f \in Fields, dout[1] = Labelled(f) PROVE FALSE
      OBVIOUS
    <2>1. Labelled(f)[0] = <<f, 0>>
      BY DEF Labelled
    <2> QED BY <1>3, <2>1 DEF Fields
  <1>7. score \in [Fields -> Nat]
    BY DEF Fields
  <1>8. Scoring
    BY <1>6, <1>7 DEF Scoring, Stored, LabelShown, WonShown
  <1> QED BY <1>1, <1>4, <1>5, <1>8 DEF Displaying

LEMMA NextDisplay == Displaying /\ [Next]_vars => Displaying'
  <1> SUFFICES ASSUME Displaying, [Next]_vars PROVE Displaying'
    OBVIOUS
  <1> USE DEF Displaying
  <1>1. CASE QuietAction
    BY <1>1, QuietSteps, QuietControl, WordsStep, ScrollQuiet, ScoreQuiet, WordQuiet, CountStep
  <1>2. CASE HookAction
    BY <1>2, HookControl, WordsStep, ScrollHook, ScoreHook, WordHook, CountStep
  <1>3. CASE Program
    BY <1>3, ProgramControl, WordsStep, ScrollProgram, ScoreProgram, WordProgram, CountStep
  <1>4. CASE UNCHANGED vars
    <2>1. /\ UNCHANGED <<mtie, mie, stepped, data, dout, mode, game, main, turn, N, score, hook>>
          /\ UNCHANGED <<hpc, counter>>
      BY <1>4 DEF vars, mainvars, hvars
    <2>2. Control' /\ Words' /\ Counting'
      BY <2>1 DEF Control, Words, Counting
    <2>3. Scrolling'
      <3>1. Rotation' = Rotation
        BY <2>1, RotationStays
      <3> QED BY <2>1, <3>1 DEF Scrolling
    <2>4. Scoring'
      BY <2>1 DEF Scoring, Stored, Counted, LabelShown, WonShown, Field, Result
    <2>5. Wording'
      BY <2>1 DEF Wording
    <2> QED BY <2>2, <2>3, <2>4, <2>5
  <1> QED BY <1>1, <1>2, <1>3, <1>4 DEF Next, Handle, QuietAction, HookAction

LEMMA DisplayInvariance == Spec => []Displaying
  BY InitDisplay, NextDisplay, PTL DEF Spec

\* The digit that is refreshed is one of the two words', from one of three sources.
Refreshed ==
  mode \in {0, 1} /\ cur_digit_mode \in 0 .. 2 /\ digit_idx \in 0 .. 2 * PerWord - 1

LEMMA RefreshInvariance == Spec => []Refreshed
  <1>1. Init => Refreshed
    BY TimerAssumption DEF Init, Refreshed
  <1>2. Next => Gpio
    <2>1. Tick \/ Program => Gpio
      BY TickIdle, ProgramIdle DEF Idle
    <2>2. HookAction => Gpio
      BY HookSteps DEF Hook
    <2>3. Trap \/ ReadLo \/ ReadHi \/ WriteLo \/ WriteHi \/ Mret => Gpio
      BY DEF Trap, ReadLo, ReadHi, WriteLo, WriteHi, Mret, Clock
    <2> QED BY <2>1, <2>2, <2>3 DEF Next, Handle, HookAction
  <1>3. Refreshed /\ Gpio => cur_digit_mode' \in 0 .. 2 /\ digit_idx' \in 0 .. 2 * PerWord - 1
    BY TimerAssumption DEF Refreshed, Gpio, NextDigit
  <1>4. Displaying' => mode' \in {0, 1}
    BY DEF Displaying, Control
  <1>5. Refreshed /\ UNCHANGED vars => Refreshed'
    BY DEF Refreshed, vars, gpiovars
  <1>6. Refreshed /\ Displaying' /\ [Next]_vars => Refreshed'
    BY <1>2, <1>3, <1>4, <1>5 DEF Refreshed
  <1> QED BY <1>1, <1>6, DisplayInvariance, PTL DEF Spec

-----------------------------------------------------------------------------
\* Registers, counters and flags keep their types, for every width of the
\* halves, every interval and every length of the display.
THEOREM TypeCorrect == Spec => []TypeOK
  <1>1. TimeInv /\ Displaying /\ Refreshed => TypeOK
    BY DEF TimeInv, TimeType, Displaying, Control, Refreshed, TypeOK
  <1> QED BY <1>1, TimeInvariance, DisplayInvariance, RefreshInvariance, PTL

\* The display shows what the program means, for each of the four programs.
THEOREM DisplayCorrect == Spec => []DisplayShows
  <1>1. Displaying => MessageKept
    BY DEF Displaying, Control, Scrolling, Rotation, MessageKept
  <1>2. Displaying => LabelMatches
    <2> SUFFICES ASSUME Displaying, hpc = "off", main \notin {"label", "key", "end"},
                        NEW f \in Fields, dout[1] = Labelled(f)
                 PROVE  \E n \in 1 .. turn : dout[2] = Filled(<<f, n>>)
      BY DEF LabelMatches, Fields
    <2>1. Labelled(f)[0] = <<f, 0>>
      BY TimerAssumption DEF Labelled
    <2>2. game = "score"
      BY <2>1 DEF Displaying, Words
    <2> QED BY <2>2 DEF Displaying, Scoring, LabelShown
  <1>3. Displaying => ResultStays
    BY DEF Displaying, Scoring, WonShown, ResultStays
  <1>4. Displaying => WordsWhole
    <2> SUFFICES ASSUME Displaying, game = "words", mode = 1, hpc = "off",
                        main \notin {"off0", "off1"}
                 PROVE  \/ dout = GPIO_STR8("timeroff")
                        \/ main \in {"on", "end"} /\ dout = GPIO_STR8(string_list[counter + 1])
      BY DEF WordsWhole
    <2>1. CASE main = "off"
      <3>1. dout = <<GPIO_STR8("timeroff")[1], GPIO_STR8("timeroff")[2]>>
        BY <2>1 DEF Displaying, Words, Wording
      <3> QED BY <3>1, StringWords
    <2>2. CASE main \in {"on", "end"}
      BY <2>2 DEF Displaying, Wording
    <2> QED BY <2>1, <2>2 DEF Displaying, Control, Wording
  <1>5. Displaying => CountShown
    BY DEF Displaying, Counting, CountShown
  <1> QED BY <1>1, <1>2, <1>3, <1>4, <1>5, DisplayInvariance, PTL DEF DisplayShows
=============================================================================
