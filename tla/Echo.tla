-------------------------------- MODULE Echo --------------------------------
(***************************************************************************)
(* The first test programs.  test_rv32_1 prints a sum of squares, in       *)
(* decimal and hexadecimal, and test_rv32_1b the same sum from the         *)
(* multiplier.  test_rv32_2, 3 and 4 echo what is typed: on one terminal,  *)
(* line by line on two that are polled, and on two whose characters an     *)
(* interrupt brings into rings at any time.                                *)
(***************************************************************************)
EXTENDS Printf, FiniteSetsExt

CONSTANTS
  BufSize,  \* BUF_SIZE: 5 in test_rv32_2, 40 in test_rv32_3
  RingSize, \* MAX_UART_BUF_SIZE
  Arrivals  \* bound: characters that arrive on a port

VARIABLES board, turn, pc, result

Squared == <<2, 3, 5, 7, 11, 13>>
Sum == MapThenSumSet(LAMBDA i : Squared[i] * Squared[i], 1 .. Len(Squared))
StartSum == /\ board' = [out |-> printf(<<"sum = ", "%", "d", "(0x", "%", "x", ")">>, <<Sum, Sum>>)]
            /\ turn' = 0 /\ pc' = "shown"

\* For each port: characters to be read (in the ring, or in the UART, which does not
\* fill up within the bound), the ring's newlines and flag, and what was echoed;
\* "break" is a newline that nobody typed.  History: what has arrived.  line is read
\* and not echoed.  turn is the port.  The LEDs, which show the last characters, are
\* left out.
Chars == {"a", "newline", "terminate"}
Ports == {0, 1}
Running == {"poll", "head", "getch", "echo"}
Buffered == board.variant = 4
Start == \E v \in {2, 3, 4} :
  /\ board' = [variant |-> v, line |-> <<>>, rx |-> [p \in Ports |-> <<>>],
               num_new_lines |-> [p \in Ports |-> 0], terminate_code |-> [p \in Ports |-> FALSE],
               out |-> [p \in Ports |-> <<>>], arrived |-> [p \in Ports |-> <<>>]]
  /\ turn' = 0 /\ pc' = IF v = 2 THEN "getch" ELSE "poll"

\* A character comes into the UART, or into the ring while that has room.
Arrive(p, ch) ==
  /\ pc \in Running /\ Len(board.arrived[p]) < Arrivals
  /\ board.variant = 2 => p = 0
  /\ Buffered => Len(board.rx[p]) < RingSize
  /\ board' = [board EXCEPT !.rx[p] = Append(@, ch), !.arrived[p] = Append(@, ch),
                 !.num_new_lines[p] = IF ch = "newline" THEN @ + 1 ELSE @,
                 !.terminate_code[p] = @ \/ ch = "terminate"]
  /\ UNCHANGED <<turn, pc, result>>

\* A ring is looked at once it has a line, Ctrl-Z, or no room; a UART at once.
Ready(p) ==
  IF Buffered THEN \/ board.num_new_lines[p] # 0 \/ board.terminate_code[p]
                   \/ Len(board.rx[p]) = RingSize
  ELSE board.rx[p] # <<>>
Look ==
  /\ pc = "poll"
  /\ IF Ready(turn) THEN pc' = (IF Buffered THEN "head" ELSE "getch") /\ UNCHANGED turn
     ELSE turn' = 1 - turn /\ UNCHANGED pc
  /\ UNCHANGED <<board, result>>
Heading ==
  /\ pc = "head" /\ pc' = "getch" /\ UNCHANGED <<turn, result>>
  /\ board' = [board EXCEPT !.out[turn] = IF board.num_new_lines[turn] = 0 THEN Append(@, "break") ELSE @]

\* io_getch; each character goes out as it comes.
GetEcho ==
  /\ pc = "getch" /\ Buffered /\ board.rx[turn] # <<>> /\ Head(board.rx[turn]) # "terminate"
  /\ LET ch == Head(board.rx[turn])
     IN board' = [board EXCEPT !.rx[turn] = Tail(@), !.line = <<ch>>, !.out[turn] = Append(@, ch)]
  /\ pc' = "echo" /\ UNCHANGED <<turn, result>>

consume_new_line(n) == n - 1
EchoOn ==
  /\ pc = "echo" /\ board.line # <<"newline">> /\ board.rx[turn] # <<>>
  /\ board' = [board EXCEPT !.line = <<>>] /\ pc' = "getch" /\ UNCHANGED <<turn, result>>
EchoEnd ==
  /\ pc = "echo" /\ (board.line = <<"newline">> \/ board.rx[turn] = <<>>)
  /\ board' = IF board.line = <<"newline">>
              THEN [board EXCEPT !.line = <<>>, !.num_new_lines[turn] = consume_new_line(@)]
              ELSE [board EXCEPT !.line = <<>>, !.out[turn] = Append(@, "break")]
  /\ pc' = "poll" /\ turn' = 0 /\ UNCHANGED result

\* The others echo a line when it is complete or the buffer is full.
Full(line) == Len(line) = BufSize - 1
GetLine ==
  /\ pc = "getch" /\ ~Buffered /\ board.rx[turn] # <<>> /\ Head(board.rx[turn]) # "terminate"
  /\ LET line == Append(board.line, Head(board.rx[turn]))
         ended == Last(line) = "newline"
     IN IF ended \/ Full(line)
        THEN /\ board' = [board EXCEPT !.rx[turn] = Tail(@), !.line = <<>>,
                            !.out[turn] = IF ended THEN @ \o line
                                          ELSE @ \o <<"break">> \o line \o <<"break">>]
             /\ pc' = IF board.variant = 2 THEN "getch" ELSE "poll"
             /\ turn' = 0
        ELSE board' = [board EXCEPT !.rx[turn] = Tail(@), !.line = line] /\ UNCHANGED <<turn, pc>>
  /\ UNCHANGED result

\* Ctrl-Z: what there is goes out, and every terminal is told.
Terminate ==
  /\ pc = "getch" /\ board.rx[turn] # <<>> /\ Head(board.rx[turn]) = "terminate"
  /\ LET told == IF board.variant = 2 THEN {0} ELSE Ports
         line(p) == IF p = turn THEN board.line ELSE <<>>
     IN board' = [board EXCEPT !.rx[turn] = Tail(@),
                    !.out = [p \in Ports |-> IF p \in told THEN @[p] \o line(p) \o <<"terminate">> ELSE @[p]]]
  /\ pc' = "shown" /\ result' = turn /\ UNCHANGED turn

Next == \/ \E p \in Ports, ch \in Chars : Arrive(p, ch)
        \/ Look \/ Heading \/ GetEcho \/ EchoOn \/ EchoEnd \/ GetLine \/ Terminate

-----------------------------------------------------------------------------
TypeOK == pc \in Running =>
  /\ turn \in Ports /\ board.variant \in {2, 3, 4} /\ Len(board.line) < BufSize
  /\ \A p \in Ports : Len(board.rx[p]) <= Arrivals /\ board.num_new_lines[p] \in 0 .. Arrivals

\* Each terminal gets back what was typed on it, in order, and nothing of the other
\* one, newlines aside that the program puts in: around a piece that a full buffer has
\* cut off, and before one that Ctrl-Z follows.
Taken0(p) == SubSeq(board.arrived[p], 1, Len(board.arrived[p]) - Len(board.rx[p]))
Typed(p) == SelectSeq(board.out[p], LAMBDA ch : ch # "break")
Unread(p) == IF p = turn /\ ~Buffered THEN board.line ELSE <<>>
LinesEchoed ==
  "variant" \in DOMAIN board =>
    \A p \in Ports :
      /\ pc \in Running => Typed(p) \o Unread(p) = Taken0(p)
      /\ pc \notin Running => Typed(p) = Taken0(p) \o
           (IF p # result /\ board.variant # 2 THEN <<"terminate">> ELSE <<>>)

\* With rings (test_rv32_4), the program never waits inside a line of one terminal while
\* the other has a line; without (test_rv32_3), it does.
NeverWaits == pc = "getch" /\ Buffered => board.rx[turn] # <<>>

\* The sum is told in both bases.
SumSeen ==
  "out" \in DOMAIN board /\ "variant" \notin DOMAIN board =>
    LET hex == SubSeq(board.out, 6, 8)
    IN /\ atoi(SubSeq(board.out, 2, 4)) = 377 /\ board.out[5] = "(0x" /\ board.out[9] = ")"
       /\ FoldLeft(LAMBDA v, ch : 16 * v + ValueOf(ch), 0, hex) = 377
=============================================================================
