----------------------------- MODULE LineInput -----------------------------
(***************************************************************************)
(* Reading a line in place, character by character: store_input of the     *)
(* games (main.c, mancala.c, mancala copy.c), that of connection.c, where  *)
(* two terminals read each other's lines in turn, and store_int of the     *)
(* calculators program2.c and addprogram.c, which read A and B in turn and *)
(* print what they have read and what comes of it.  main's menu reads its  *)
(* choice by store_input, too, into a buffer of one character.             *)
(***************************************************************************)
EXTENDS Printf

CONSTANTS
  BufSize,  \* BUF_SIZE: 40, 9 in the calculators
  Variants, \* "games", "connection", "program2", "addprogram"
  MaxTyped  \* bound: characters typed before a line ends

VARIABLES board, turn, pc, result

\* board: the buffer, the position in it, the characters typed for this line, the line
\* handed over by the last step; for a calculator its A, and what it has printed since
\* the last character; spilt, whether something behind the buffer was written.  turn is
\* the parity of the lines read: the terminal, or which number is read.  The buffer of
\* the calculators is not initialized, and what lies behind the menu's is not in the
\* source: any character stands for that.
Games == {"1", "2", "3", "4", "5", "6"}
Typed(variant) == IF variant = "menu" THEN Games \cup {"7"} ELSE {"7", "-"}
Chars == Games \cup {"7", "-", "newline", "backspace", "terminate"}
Room(variant) == IF variant = "menu" THEN 1 ELSE BufSize
Cells == 0 .. BufSize - 1

\* Text up to the terminating nul.
Text(store, n) ==
  LET end == CHOOSE i \in 0 .. n : (i = n \/ store[i] = "nul") /\ \A j \in 0 .. i - 1 : store[j] # "nul"
  IN [i \in 1 .. end |-> store[i - 1]]

\* main clears the buffer of the games and of the chat before each line.
Cleared(variant, store) ==
  [i \in Cells |-> IF variant \in {"games", "connection"} THEN "nul"
                   ELSE IF i >= Room(variant) THEN "7" ELSE store[i]]

StartWith(v, store) ==
  /\ board' = [variant |-> v, store |-> Cleared(v, store), pos |-> 0, typed |-> <<>>,
               line |-> <<>>, a |-> 0, out |-> <<>>, spilt |-> FALSE]
  /\ turn' = 0 /\ pc' = "line"
Start == \E v \in Variants : StartWith(v, [i \in Cells |-> "7"])
StartMenu == StartWith("menu", [i \in Cells |-> "nul"])

HasEditing == board.variant # "addprogram"

\* The games step back and clear; the others clear where they are and step back.
Erased == IF board.variant \in {"games", "menu"} /\ board.pos # 0 THEN board.pos - 1 ELSE board.pos
Backspace ==
  /\ pc = "line" /\ HasEditing /\ Len(board.typed) < MaxTyped
  /\ board' = [board EXCEPT !.typed = Append(@, "backspace"), !.out = <<>>, !.line = <<>>,
                 !.store[Erased] = IF board.pos = 0 THEN @ ELSE "nul",
                 !.pos = IF @ = 0 THEN 0 ELSE @ - 1]
  /\ UNCHANGED <<turn, pc, result>>

\* Ctrl-Z: what is there is the line, and the program ends.
Terminate ==
  /\ pc = "line" /\ HasEditing /\ board.variant # "menu"
  /\ LET s == [board.store EXCEPT ![board.pos] = "nul"]
     IN board' = [board EXCEPT !.store = s, !.line = Text(s, BufSize)]
  /\ pc' = "shown" /\ result' = 0 /\ UNCHANGED turn

\* The menu does not ask how the line ended: its character names a game, or the line
\* is asked for again.
Chosen(s, last) ==
  /\ board' = [board EXCEPT !.store = Cleared("menu", s), !.pos = 0, !.typed = <<>>,
                 !.line = Text(s, BufSize), !.spilt = @ \/ last >= Room("menu")]
  /\ pc' = IF s[0] \in Games THEN "chosen" ELSE "line"
  /\ turn' = 1 - turn /\ UNCHANGED result
TerminateMenu ==
  /\ pc = "line" /\ board.variant = "menu"
  /\ Chosen([board.store EXCEPT ![board.pos] = "nul"], board.pos)

\* Mutation of Ends: the buffer is used to its last cell.
EndsLate(ch) == ch = "newline" \/ board.pos + 1 = BufSize

Ends(ch) == ch = "newline" \/ board.pos + 1 = BufSize - 1
Store(ch) ==
  /\ pc = "line" /\ ch \in Typed(board.variant) /\ ~Ends(ch) /\ Len(board.typed) < MaxTyped
  /\ board' = [board EXCEPT !.store[board.pos] = ch, !.pos = @ + 1,
                 !.typed = Append(@, ch), !.out = <<>>, !.line = <<>>,
                 !.spilt = @ \/ board.pos >= Room(board.variant)]
  /\ UNCHANGED <<turn, pc, result>>

Abs(n) == IF n < 0 THEN -n ELSE n

\* C's remainder has the sign of the dividend.
Mod(a, b) == IF a < 0 THEN -(-a % Abs(b)) ELSE a % Abs(b)

\* A calculator prints each number, and after B the results; the quotient that
\* program2 prints with %f is left out.
Results(a, b) ==
  IF b = 0 THEN <<"Error">>
  ELSE IF board.variant = "program2" THEN printf(<<"Mod result: ", "%", "d">>, <<Mod(a, b)>>)
  ELSE printf(<<"result / : ", "%", "d", "mod result : ", "%", "d">>, <<a + b, a - b>>)
Printed(text) ==
  IF board.variant \notin {"program2", "addprogram"} THEN <<>>
  ELSE LET n == atoi(text)
       IN IF turn = 0 THEN printf(<<"a: ", "%", "d">>, <<n>>)
          ELSE printf(<<"b: ", "%", "d">>, <<n>>) \o Results(board.a, n)
Number(text) == IF board.variant \in {"program2", "addprogram"} /\ turn = 0 THEN atoi(text) ELSE 0

Completes(ch) == pc = "line" /\ ch \in Typed(board.variant) \cup {"newline"} /\ Ends(ch)
StoreLast(ch) ==
  /\ Completes(ch) /\ board.variant # "menu"
  /\ LET s == [board.store EXCEPT ![board.pos] = ch, ![board.pos + 1] = "nul"]
         text == Text(s, BufSize)
     IN board' = [board EXCEPT !.store = Cleared(board.variant, s), !.pos = 0, !.typed = <<>>,
                               !.line = text, !.a = Number(text), !.out = Printed(text)]
  /\ turn' = 1 - turn /\ UNCHANGED <<pc, result>>

StoreLastMenu(ch) ==
  /\ Completes(ch) /\ board.variant = "menu"
  /\ Chosen([board.store EXCEPT ![board.pos] = ch, ![board.pos + 1] = "nul"], board.pos + 1)

\* What was behind the menu's character may have been needed.
Lost == /\ pc \in {"line", "chosen"} /\ board.spilt
        /\ pc' = "lost" /\ UNCHANGED <<board, turn, result>>

Next == \/ Backspace \/ Terminate \/ TerminateMenu \/ Lost
        \/ \E ch \in Chars : Store(ch) \/ StoreLast(ch) \/ StoreLastMenu(ch)

-----------------------------------------------------------------------------
TypeOK == pc = "line" =>
  /\ board.variant \in Variants \cup {"menu"} /\ turn \in {0, 1}
  /\ board.store \in [Cells -> Chars \cup {"nul"}] /\ board.pos \in 0 .. BufSize - 2

\* A line is handed over as it was typed: a backspace takes back the last character
\* that is left, whatever the buffer held before, and Ctrl-Z hands over the rest.  The
\* game the menu starts is the one its line begins with, whatever follows.
Edited(typed) ==
  FoldLeft(LAMBDA s, ch : IF ch # "backspace" THEN Append(s, ch)
                          ELSE IF s = <<>> THEN s ELSE Front(s), <<>>, typed)
TurnRule ==
  pc = "line" =>
    /\ pc' = "shown" => board'.line = Edited(board.typed)
    /\ turn' # turn =>
         LET n == Len(board'.line)
         IN \/ /\ n > 0 /\ Front(board'.line) = Edited(board.typed)
               /\ board'.line[n] = "newline" \/ n = BufSize - 1
            \/ board.variant = "menu" /\ board'.line = Edited(board.typed)
    /\ pc' = "chosen" => board'.store[0] = Head(Edited(board.typed))

\* What a calculator prints says the numbers that were typed, their remainder, or
\* their sum and difference, each as a numeral: digits without a leading zero, after
\* a minus if it is negative.
Says(text, n) ==
  LET digits == IF n < 0 THEN Tail(text) ELSE text
  IN /\ atoi(text) = n /\ (n < 0 => Head(text) = "-")
     /\ \A i \in 1 .. Len(digits) : IsDigit(digits[i], 10)
     /\ digits # <<>> /\ (digits[1] = "0" => Len(digits) = 1)
Numerals(out) ==
  FoldLeft(LAMBDA acc, ch : IF ch = "-" \/ IsDigit(ch, 10)
                            THEN Append(Front(acc), Append(Last(acc), ch)) ELSE Append(acc, <<>>),
           <<>>, out)
SumRule ==
  pc = "line" /\ turn' # turn /\ board.variant \in {"program2", "addprogram"} =>
    LET told == Numerals(board'.out)
        n == atoi(board'.line)
        a == board.a
        rest == atoi(told[2])
    IN /\ Says(told[1], n)
       /\ turn = 0 => board'.a = n
       /\ turn = 1 /\ n # 0 =>
            IF board.variant = "program2"
            THEN /\ Says(told[2], rest) /\ Abs(rest) < Abs(n) /\ rest * a >= 0
                 /\ (a - rest) % Abs(n) = 0
            ELSE Says(told[2], a + n) /\ Says(told[3], a - n)

\* The reader can always take a character that ends the line, and the nul after it,
\* except in the menu, whose buffer is too short for them (main.c:17, 35).
CanRead ==
  pc = "line" => /\ Len(Edited(board.typed)) = board.pos
                 /\ board.variant # "menu" => board.pos + 1 < Room(board.variant) /\ ~board.spilt
=============================================================================
