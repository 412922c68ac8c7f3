------------------------------- MODULE Printf -------------------------------
(***************************************************************************)
(* What printf of the firmware writes (printf.c), and atoi, which the      *)
(* programs read numbers with.  Text is a sequence of characters; a piece  *)
(* of text nobody looks into counts as one character.  The argument of %x  *)
(* is not negative in any program, none is longer than a word, and %f and  *)
(* %p are left out.                                                        *)
(***************************************************************************)
EXTENDS Integers, Sequences, SequencesExt

HexDigits == <<"0", "1", "2", "3", "4", "5", "6", "7", "8", "9", "a", "b", "c", "d", "e", "f">>
DigitOf(n) == HexDigits[n + 1]
IsDigit(ch, base) == \E i \in 1 .. base : HexDigits[i] = ch
ValueOf(ch) == (CHOOSE i \in 1 .. 16 : HexDigits[i] = ch) - 1

\* while (--width > 0) io_putch(pad)
Padding(pad, width) == [i \in 1 .. (IF width > 1 THEN width - 1 ELSE 0) |-> pad]

RECURSIVE puthex(_, _, _), putdec(_, _, _, _)
puthex(num, pad, width) ==
  Append(IF num >= 16 THEN puthex(num \div 16, pad, width - 1) ELSE Padding(pad, width),
         DigitOf(num % 16))

putdec(num, sign, pad, width) ==
  Append(IF num >= 10 THEN putdec(num \div 10, sign, pad, width - 1)
         ELSE Padding(pad, width) \o (IF sign /\ pad = " " THEN <<"-">> ELSE <<>>),
         DigitOf(num % 10))

\* %d: the sign stands before zeros, but after spaces.
Decimal(num, pad, width) ==
  IF num >= 0 THEN putdec(num, FALSE, pad, width)
  ELSE (IF pad = "0" THEN <<"-">> ELSE <<>>) \o putdec(-num, TRUE, pad, width - 1)

\* A character of the format: text, %, a zero after it, the width, a conversion.
Converted(st, ch) ==
  LET arg == Head(st.args)
      done(text) == [st EXCEPT !.fmt = FALSE, !.out = @ \o text, !.args = Tail(@)]
  IN CASE ch = "d" -> done(Decimal(arg, st.pad, st.width))
       [] ch = "x" -> done(puthex(arg, st.pad, st.width))
       [] ch = "c" -> done(<<arg>>)
       [] ch = "s" -> done(arg)
       [] ch = "0" /\ st.first -> [st EXCEPT !.pad = "0", !.first = FALSE]
       [] OTHER -> [st EXCEPT !.width = @ * 10 + ValueOf(ch), !.first = FALSE]
Taken(st, ch) ==
  IF st.fmt THEN Converted(st, ch)
  ELSE IF ch = "%" THEN [st EXCEPT !.fmt = TRUE, !.first = TRUE, !.pad = " ", !.width = 0]
  ELSE [st EXCEPT !.out = Append(@, ch)]
printf(s, args) ==
  FoldLeft(Taken, [fmt |-> FALSE, first |-> FALSE, pad |-> " ", width |-> 0,
                   out |-> <<>>, args |-> args], s).out

\* The number a text begins with.
atoi(s) ==
  LET signed == s # <<>> /\ s[1] = "-"
      from == IF signed THEN 2 ELSE 1
      upto == {n \in from - 1 .. Len(s) : \A i \in from .. n : IsDigit(s[i], 10)}
      n == CHOOSE n \in upto : \A k \in upto : k <= n
      abs == FoldLeft(LAMBDA v, ch : 10 * v + ValueOf(ch), 0, SubSeq(s, from, n))
  IN IF signed THEN -abs ELSE abs
=============================================================================
