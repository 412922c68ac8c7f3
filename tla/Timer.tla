------------------------------- MODULE Timer -------------------------------
(***************************************************************************)
(* The timer interrupt, from the counter to the display: mtime and         *)
(* mtimecmp of SYSCTRL (rv32_io.cpp), which the 32-bit core reads and      *)
(* writes in halves, mhandler and the two hooks (io.c, main.c), main       *)
(* setting them up, and the seven-segment digits that GPIO_AXI4L scans     *)
(* (rv32_io.h).  A step is one clock; the processor makes one access or    *)
(* register step in a clock, or none, and never two in a row: an           *)
(* instruction takes at least four clocks.  Every clock refreshes a digit  *)
(* (every 8192 clocks in the code, for as long as a digit is active), and  *)
(* a store to the GPIO takes effect with the step that makes it.           *)
(***************************************************************************)
EXTENDS Integers, Sequences, FiniteSets

CONSTANTS
  Half,       \* mtime_l and mtime_h count to Half - 1; 2^32 in the code
  Divide,     \* clocks per tick of mtime; 16 in the code
  Interval,   \* mtimer_interval
  PerWord,    \* digits per word of the display; 4 in the code
  Games,      \* which displays main may drive: "scroll" and "score" in main.c,
              \* "words" in program5.c, "count" in test_rv32_5.c
  MaxTurns,   \* bound: turns of Hit_and_Blow_2
  MaxTime     \* bound: ticks

ASSUME TimerAssumption ==
  /\ Half \in Nat \ {0, 1} /\ Divide \in Nat \ {0} /\ PerWord \in Nat \ {0}
  /\ Interval \in 1 .. Half /\ MaxTime \in Nat
  /\ MaxTime + Half + Interval < Half * Half   \* mtimecmp never passes 2^64
  /\ MaxTurns \in Nat /\ Games \subseteq {"scroll", "score", "words", "count"}

VARIABLES
  \* SYSCTRL: mtime and mtimecmp as halves, divider, mtip
  lo, hi, cmplo, cmphi, divider, mtip,
  \* CSR: mip.mtip, mie.mtie, mstatus.mie;  the last clock had a processor step
  mip, mtie, mie, stepped,
  \* GPIO: data, dout_7seg as two words of digits, digit_mode, cur_digit_mode,
  \* digit_idx, digit
  data, dout, mode, cur_digit_mode, digit_idx, digit,
  \* main: which display, control point, turn, N1 and N0, the score, the hook
  game, main, turn, N, score, hook,
  \* handler: control point, the halves read, counter
  hpc, rlo, rhi, counter,
  \* history: ticks since the handler last read mtime, a carry came between its
  \* two reads, it has run
  since, torn, armed

sysvars == <<lo, hi, divider, mtip, mip>>
gpiovars == <<cur_digit_mode, digit_idx, digit>>
mainvars == <<game, main, turn, N, score, hook>>
hvars == <<hpc, rlo, rhi, counter>>
vars == <<sysvars, cmplo, cmphi, mtie, mie, stepped, data, dout, mode,
          gpiovars, mainvars, hvars, since, torn, armed>>

Time == hi * Half + lo
Deadline == cmphi * Half + cmplo

\* A word of the display: PerWord patterns, digit 0 first.
Filled(x) == [i \in 0 .. PerWord - 1 |-> x]
Labelled(x) == [i \in 0 .. PerWord - 1 |-> <<x, i>>]

Init ==
  /\ lo = 0 /\ hi = 0 /\ cmplo = 0 /\ cmphi = 0 /\ divider = 0 /\ mtip = FALSE
  /\ mip = FALSE /\ mtie = FALSE /\ mie = FALSE /\ stepped = FALSE
  /\ dout = <<Filled(<<"blank", 0>>), Filled(<<"blank", 0>>)>> /\ mode = 0 /\ data = 0
  /\ cur_digit_mode = 0 /\ digit_idx = 0 /\ digit = <<"blank", 0>>
  /\ game \in Games /\ main = "start" /\ turn = 0
  /\ N = <<Filled(<<"blank", 0>>), Filled(<<"blank", 0>>)>>
  /\ score = [hit |-> 0, and |-> 0, or |-> 0] /\ hook = "none"
  /\ hpc = "off" /\ rlo = 0 /\ rhi = 0 /\ counter = 0
  /\ since = 0 /\ torn = FALSE /\ armed = FALSE

-----------------------------------------------------------------------------
(* One clock of the hardware *)

\* SYSCTRL::fsm: the comparison sees mtime and mtimecmp as they were before this
\* clock's access.
Due == hi > cmphi \/ (hi = cmphi /\ lo >= cmplo)

Ticks == divider = 0 /\ Time < MaxTime

\* Mutation of incr_timer: the lower half does not wrap.
incr_timerNoWrap ==
  /\ lo' = lo + 1
  /\ hi' = IF lo = Half - 1 THEN (hi + 1) % Half ELSE hi

incr_timer ==
  /\ lo' = (lo + 1) % Half
  /\ hi' = IF lo = Half - 1 THEN (hi + 1) % Half ELSE hi

Sysctrl(read) ==
  /\ mtip' = Due /\ mip' = Due
  /\ divider' = (divider + 1) % Divide
  /\ IF Ticks THEN incr_timer ELSE UNCHANGED <<lo, hi>>
  /\ LET s == IF read THEN 0 ELSE since
     IN since' = IF Ticks /\ s < Interval THEN s + 1 ELSE s

\* GPIO_AXI4L::update_refresh: the next digit, from data in hexadecimal, from the
\* register that the debugger shows, or from the two pattern words.
hex2seg7(v) == <<"hex", v>>
Pattern(shown, i) ==
  CASE shown = 0 -> hex2seg7((data \div 16 ^ i) % 16)
    [] shown = 2 -> <<"register", i>>
    [] OTHER     -> dout[1 + i \div PerWord][i % PerWord]

\* Mutation of NextDigit: the last digit is left out.
NextDigitShort == (digit_idx + 1) % (2 * PerWord - 1)

NextDigit == (digit_idx + 1) % (2 * PerWord)
\* A core at wfi, or held by the debugger, has one of its registers shown unless
\* switch 6 is up.
Gpio == /\ \E wfi, sw6 \in BOOLEAN : cur_digit_mode' = IF wfi /\ ~sw6 THEN 2 ELSE mode
        /\ digit_idx' = NextDigit
        /\ digit' = Pattern(cur_digit_mode', NextDigit)

Clock == Sysctrl(FALSE) /\ Gpio

\* The processor executes an instruction that touches nothing shared.
Tick == /\ Clock /\ stepped' = FALSE
        /\ UNCHANGED <<cmplo, cmphi, mtie, mie, data, dout, mode, mainvars, hvars,
                       torn, armed>>

-----------------------------------------------------------------------------
(* The handler: mhandler, case 0x7, in the order of main.dump *)

Interrupt == mip /\ mtie /\ mie

Step == ~stepped /\ stepped' = TRUE
Handler(a, b) == Step /\ hpc = a /\ hpc' = b /\ UNCHANGED mainvars

Trap ==
  /\ Handler("off", "readlo") /\ Interrupt /\ mie' = FALSE
  /\ Clock
  /\ UNCHANGED <<cmplo, cmphi, mtie, data, dout, mode, rlo, rhi, counter, torn, armed>>

\* lw of mtime_l, then of mtime_h.
ReadLo ==
  /\ Handler("readlo", "readhi")
  /\ rlo' = lo /\ torn' = FALSE
  /\ Sysctrl(TRUE) /\ Gpio
  /\ UNCHANGED <<cmplo, cmphi, mtie, mie, data, dout, mode, rhi, counter, armed>>

ReadHi ==
  /\ Handler("readhi", "writelo")
  /\ rhi' = hi /\ torn' = (lo < rlo)
  /\ Clock
  /\ UNCHANGED <<cmplo, cmphi, mtie, mie, data, dout, mode, rlo, counter, armed>>

\* Mutation of Next64: the carry into the upper half is forgotten.
Next64NoCarry == <<rhi, (rlo + Interval) % Half>>

\* mtime + mtimer_interval in 64 bits, as upper and lower half.
Next64 == <<(rhi + (rlo + Interval) \div Half) % Half, (rlo + Interval) % Half>>

WriteLo ==
  /\ Handler("writelo", "writehi")
  /\ cmplo' = Next64[2]
  /\ Clock /\ armed' = FALSE
  /\ UNCHANGED <<cmphi, mtie, mie, data, dout, mode, rlo, rhi, counter, torn>>

WriteHi ==
  /\ Handler("writehi", IF hook = "none" THEN "mret" ELSE "hook")
  /\ cmphi' = Next64[1]
  /\ Clock /\ armed' = TRUE
  /\ UNCHANGED <<cmplo, mtie, mie, data, dout, mode, rlo, rhi, counter, torn>>

\* Mutation of Rotated: the lower word takes its new digit from the new N1.
RotatedInPlace ==
  LET down == N[2][PerWord - 1]
      new == [i \in 0 .. PerWord - 1 |-> IF i = 0 THEN down ELSE N[1][i - 1]]
  IN <<new, [i \in 0 .. PerWord - 1 |->
               IF i = 0 THEN new[PerWord - 1] ELSE N[2][i - 1]]>>

\* N1 and N0 rotated by one digit; the lower word is the second.
Rotated ==
  LET up == N[1][PerWord - 1]
      down == N[2][PerWord - 1]
  IN <<[i \in 0 .. PerWord - 1 |-> IF i = 0 THEN down ELSE N[1][i - 1]],
       [i \in 0 .. PerWord - 1 |-> IF i = 0 THEN up ELSE N[2][i - 1]]>>

\* timer_handler: rotate, then write dout7SEG[1] and dout7SEG[0].
Scroll ==
  /\ hook = "scroll" /\ Step /\ hpc = "hook" /\ hpc' = "hook0"
  /\ N' = Rotated /\ dout' = [dout EXCEPT ![2] = Rotated[1]] /\ mode' = 1
  /\ Clock
  /\ UNCHANGED <<cmplo, cmphi, mtie, mie, data, game, main, turn, score, hook, rlo,
                 rhi, counter, torn, armed>>
ScrollLow ==
  /\ hook = "scroll" /\ Handler("hook0", "mret")
  /\ dout' = [dout EXCEPT ![1] = N[2]]
  /\ Clock
  /\ UNCHANGED <<cmplo, cmphi, mtie, mie, data, mode, rlo, rhi, counter, torn, armed>>

\* Hit_and_Blow_2_timer_handler: a number and its label, in turns of three.
Field == CASE counter = 0 -> "hit" [] counter = 1 -> "and" [] OTHER -> "or"

Score ==
  /\ hook = "score" /\ Handler("hook", "hook0")
  /\ dout' = [dout EXCEPT ![2] = Filled(<<Field, score[Field]>>)] /\ mode' = 1
  /\ Clock
  /\ UNCHANGED <<cmplo, cmphi, mtie, mie, data, rlo, rhi, counter, torn, armed>>
ScoreLabel ==
  /\ hook = "score" /\ Handler("hook0", "mret")
  /\ dout' = [dout EXCEPT ![1] = Labelled(Field)]
  /\ counter' = (counter + 1) % 3
  /\ Clock
  /\ UNCHANGED <<cmplo, cmphi, mtie, mie, data, mode, rlo, rhi, torn, armed>>

\* The strings of program5.c by their numbers of letters, of which the display shows
\* the last at its lowest digit; what strncpy fills up with nul lights nothing.
string_list == <<"apple", "banana", "cherry", "date">>
Letters == [apple |-> 5, banana |-> 6, cherry |-> 6, date |-> 4, timeroff |-> 8]
padded(s) == [i \in 0 .. 2 * PerWord - 1 |-> IF i < Letters[s] THEN <<s, i>> ELSE <<"nul", 0>>]
convert_char_seg7(ch) == IF ch = <<"nul", 0>> THEN <<"blank", 0>> ELSE ch
GPIO_STR8(s) ==
  LET digits == [i \in 0 .. 2 * PerWord - 1 |-> convert_char_seg7(padded(s)[2 * PerWord - 1 - i])]
  IN [w \in 1 .. 2 |-> [i \in 0 .. PerWord - 1 |-> digits[(w - 1) * PerWord + i]]]

\* timer_handler of program5.c: the next word, lower half first.
NextWord == (counter + 1) % Len(string_list)
Word ==
  /\ hook = "words" /\ Handler("hook", "hook0")
  /\ counter' = NextWord
  /\ dout' = [dout EXCEPT ![1] = GPIO_STR8(string_list[NextWord + 1])[1]] /\ mode' = 1
  /\ Clock
  /\ UNCHANGED <<cmplo, cmphi, mtie, mie, data, rlo, rhi, torn, armed>>
WordHigh ==
  /\ hook = "words" /\ Handler("hook0", "mret")
  /\ dout' = [dout EXCEPT ![2] = GPIO_STR8(string_list[counter + 1])[2]]
  /\ Clock
  /\ UNCHANGED <<cmplo, cmphi, mtie, mie, data, mode, rlo, rhi, counter, torn, armed>>

\* timer_handler of test_rv32_5.c.
Count ==
  /\ hook = "count" /\ Handler("hook", "mret")
  /\ counter' = counter + 1 /\ data' = counter + 1 /\ mode' = 0
  /\ Clock
  /\ UNCHANGED <<cmplo, cmphi, mtie, mie, dout, rlo, rhi, torn, armed>>

Mret ==
  /\ Handler("mret", "off") /\ mie' = TRUE
  /\ Clock
  /\ UNCHANGED <<cmplo, cmphi, mtie, data, dout, mode, rlo, rhi, counter, torn, armed>>

-----------------------------------------------------------------------------
(* main *)

Main(a, b) == Step /\ hpc = "off" /\ ~Interrupt /\ main = a /\ main' = b /\ UNCHANGED hvars

Enabling == <<cmplo, cmphi, torn, armed>>

\* gpio->data = 0 at the start of main and of a game.
ClearDisplay ==
  /\ game \in {"scroll", "score"}
  /\ Main("start", IF game = "scroll" THEN "message" ELSE "turn")
  /\ mode' = 0 /\ data' = 0
  /\ Clock
  /\ UNCHANGED <<Enabling, mtie, mie, dout, game, turn, N, score, hook>>

\* The result of a game: N1 and N0, the interval, the hook.
Message == <<Labelled("upper"), Labelled("lower")>>
SetMessage ==
  /\ Main("message", "mtie")
  /\ N' = Message /\ hook' = "scroll"
  /\ Clock
  /\ UNCHANGED <<Enabling, mtie, mie, data, dout, mode, game, turn, score>>

\* A turn of Hit_and_Blow_2 with its three counts, stored one by one; the timer
\* may be running since the turn before.  A count is the turn it is of.
StoreHit ==
  /\ game = "score" /\ turn < MaxTurns
  /\ Main("turn", "and")
  /\ turn' = turn + 1 /\ score' = [score EXCEPT !.hit = turn + 1]
  /\ Clock
  /\ UNCHANGED <<Enabling, mtie, mie, data, dout, mode, game, N, hook>>
StoreAnd ==
  /\ Main("and", "or") /\ score' = [score EXCEPT !.and = turn]
  /\ Clock
  /\ UNCHANGED <<Enabling, mtie, mie, data, dout, mode, game, turn, N, hook>>
StoreOr ==
  /\ Main("or", "mtie") /\ score' = [score EXCEPT !.or = turn] /\ hook' = "score"
  /\ Clock
  /\ UNCHANGED <<Enabling, mtie, mie, data, dout, mode, game, turn, N>>

\* program5.c and test_rv32_5.c start with the interval and the hook.
SetHook ==
  /\ game \in {"words", "count"}
  /\ Main("start", "mtie") /\ hook' = game
  /\ Clock
  /\ UNCHANGED <<Enabling, mtie, mie, data, dout, mode, game, turn, N, score>>

\* enable_timer_interrupt.
SetMtie ==
  /\ Main("mtie", "mie") /\ mtie' = TRUE
  /\ Clock
  /\ UNCHANGED <<Enabling, mie, data, dout, mode, game, turn, N, score, hook>>
SetMie ==
  /\ \E next \in CASE game = "scroll" -> {"key"} [] game = "score" -> {"turn", "won"}
                   [] OTHER -> {"on"} : Main("mie", next)
  /\ mie' = TRUE
  /\ Clock
  /\ UNCHANGED <<Enabling, mtie, data, dout, mode, game, turn, N, score, hook>>

\* hit == 16: csrc mie.
Won ==
  /\ Main("won", "number") /\ mtie' = FALSE
  /\ Clock
  /\ UNCHANGED <<Enabling, mie, data, dout, mode, game, turn, N, score, hook>>

\* turn > 30: the loop is left with the timer on, and 31 is returned.
Over ==
  /\ game = "score" /\ turn = MaxTurns
  /\ Main("turn", "number") /\ turn' = turn + 1
  /\ Clock
  /\ UNCHANGED <<Enabling, mtie, mie, data, dout, mode, game, N, score, hook>>

\* main writes the number of turns and "turn", or "turn" and "over".
Result == IF turn > MaxTurns THEN <<Labelled("over"), Labelled("turn")>>
          ELSE <<Labelled("turn"), Filled(<<"turns", turn>>)>>
ShowNumber ==
  /\ Main("number", "label")
  /\ dout' = [dout EXCEPT ![2] = Result[2]] /\ mode' = 1
  /\ Clock
  /\ UNCHANGED <<Enabling, mtie, mie, data, game, turn, N, score, hook>>
ShowLabel ==
  /\ Main("label", "key")
  /\ dout' = [dout EXCEPT ![1] = Result[1]]
  /\ Clock
  /\ UNCHANGED <<Enabling, mtie, mie, data, mode, game, turn, N, score, hook>>

\* A key has been pressed: csrc mie, and main returns to entry.S.
Finish ==
  /\ Main("key", "end") /\ mtie' = FALSE
  /\ Clock
  /\ UNCHANGED <<Enabling, mie, data, dout, mode, game, turn, N, score, hook>>

\* A key toggles the timer; program5.c then writes "timeroff" over the word.
SwitchOff ==
  /\ Main("on", IF game = "words" THEN "off0" ELSE "off") /\ mtie' = FALSE
  /\ Clock
  /\ UNCHANGED <<Enabling, mie, data, dout, mode, game, turn, N, score, hook>>
ShowOff ==
  /\ Main("off0", "off1")
  /\ dout' = [dout EXCEPT ![1] = GPIO_STR8("timeroff")[1]] /\ mode' = 1
  /\ Clock
  /\ UNCHANGED <<Enabling, mtie, mie, data, game, turn, N, score, hook>>
ShowOffHigh ==
  /\ Main("off1", "off")
  /\ dout' = [dout EXCEPT ![2] = GPIO_STR8("timeroff")[2]]
  /\ Clock
  /\ UNCHANGED <<Enabling, mtie, mie, data, mode, game, turn, N, score, hook>>
SwitchOn ==
  /\ Main("off", "on") /\ mtie' = TRUE
  /\ Clock
  /\ UNCHANGED <<Enabling, mie, data, dout, mode, game, turn, N, score, hook>>

\* Ctrl-Z ends program5.c with the timer off; test_rv32_5.c goes on for ever.
Quit ==
  /\ game = "words" /\ (Main("on", "end") \/ Main("off", "end")) /\ mtie' = FALSE
  /\ Clock
  /\ UNCHANGED <<Enabling, mie, data, dout, mode, game, turn, N, score, hook>>

Handle == \/ Trap \/ ReadLo \/ ReadHi \/ WriteLo \/ WriteHi \/ Scroll \/ ScrollLow
          \/ Score \/ ScoreLabel \/ Word \/ WordHigh \/ Count \/ Mret
Program == \/ ClearDisplay \/ SetMessage \/ StoreHit \/ StoreAnd \/ StoreOr \/ SetMtie
           \/ SetMie \/ Won \/ Over \/ ShowNumber \/ ShowLabel \/ Finish
           \/ SetHook \/ SwitchOff \/ ShowOff \/ ShowOffHigh \/ SwitchOn \/ Quit

Next == Tick \/ Handle \/ Program
Spec == Init /\ [][Next]_vars

\* The clock ticks and the processor executes the handler; main may wait.
FairSpec == Spec /\ WF_vars(Next) /\ WF_vars(Handle)

-----------------------------------------------------------------------------
\* Type correctness.
TypeOK ==
  /\ {lo, hi, cmplo, cmphi, rlo, rhi} \subseteq 0 .. Half - 1
  /\ divider \in 0 .. Divide - 1 /\ digit_idx \in 0 .. 2 * PerWord - 1
  /\ mode \in {0, 1} /\ cur_digit_mode \in 0 .. 2 /\ counter \in Nat /\ turn \in 0 .. MaxTurns + 1
  /\ {mtip, mip, mtie, mie, stepped, torn, armed} \subseteq BOOLEAN
  /\ since \in 0 .. Interval

\* The hook comes on time.  Never early: between two readings of mtime by the handler
\* the interval passes, although mtimecmp is in the past between its two stores and mip
\* follows it clocks later.  And the next interrupt is due within the interval, unless
\* the lower half of mtime ran over between the two loads: then it is late by up to
\* 2^32 ticks.
NeverEarly == [][hpc = "readlo" /\ hpc' = "readhi" /\ armed => since >= Interval]_vars
LateOnlyByCarry ==
  armed /\ hpc = "off" => Deadline <= Time + Interval + IF torn THEN Half ELSE 0
HookOnTime == NeverEarly /\ []LateOnlyByCarry

\* The display shows what the program means.  While a result scrolls, N1 and N0
\* are the message rotated, and the display holds them whenever the hook is not
\* between its two stores.  In a game the count shown is the one its label names,
\* whatever main stores while the hook runs.  The result of a game won stays: no
\* hook of the turns before runs after it.  (That of a game lost by its turns does
\* not stay: the timer is on.)  program5.c shows whole words, the one its counter
\* names or "timeroff", and nothing else once it is off and until it is on again.
Ring(n) == [i \in 0 .. 2 * PerWord - 1 |->
              IF i < PerWord THEN n[2][i] ELSE n[1][i - PerWord]]
MessageKept ==
  game = "scroll" /\ hook = "scroll" =>
    /\ \E r \in 0 .. 2 * PerWord - 1 :
         \A i \in 0 .. 2 * PerWord - 1 :
           Ring(N)[(i + r) % (2 * PerWord)] = Ring(Message)[i]
    /\ mode = 1 /\ hpc # "hook0" => dout = <<N[2], N[1]>>
LabelMatches ==
  hpc = "off" /\ main \notin {"label", "key", "end"} =>
    \A f \in {"hit", "and", "or"} :
      dout[1] = Labelled(f) => \E n \in 1 .. turn : dout[2] = Filled(<<f, n>>)
ResultStays ==
  main \in {"key", "end"} /\ game = "score" /\ turn <= MaxTurns => dout = Result
WordsWhole ==
  game = "words" /\ mode = 1 /\ hpc = "off" =>
    \/ main \in {"off0", "off1"}
    \/ dout = GPIO_STR8("timeroff")
    \/ main \in {"on", "end"} /\ dout = GPIO_STR8(string_list[counter + 1])
CountShown == game = "count" /\ hpc = "off" => mode = 0 /\ data = counter
DisplayShows == MessageKept /\ LabelMatches /\ ResultStays /\ WordsWhole /\ CountShown

\* At the end, when main has returned to entry.S and its wfi, every digit is lit with its
\* own pattern: that of what main has left, or of the debugger's register in the clocks
\* in which that is shown.
EveryDigitLit ==
  \A i \in 0 .. 2 * PerWord - 1 :
    main = "end" ~> digit_idx = i /\ digit = Pattern(cur_digit_mode, i)
=============================================================================
