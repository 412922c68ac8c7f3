------------------------------- MODULE Relay -------------------------------
(***************************************************************************)
(* The chat of two boards (program1-6.c): lines from the PC on port 0 go   *)
(* to the other board on port 1 and the other way round.  Characters come  *)
(* into both receive rings by interrupt at any time; the program polls     *)
(* port 0, then port 1, and stays with a port until its line is complete.  *)
(***************************************************************************)
EXTENDS Integers, Sequences, SequencesExt

CONSTANTS
  LineBufSize, \* LINE_BUF_SIZE, 128 in the code
  Arrivals     \* bound: characters that arrive on a port

VARIABLES board, turn, pc, result

\* board: for each port the ring (it does not fill up within the bound) and its
\* count of newlines, the line read, and what was sent out of the other port.
\* History: all that has arrived.  turn is the port looked at.
Chars == {"a", "newline", "terminate"}
Other(p) == 1 - p
Ports == {0, 1}

Start == /\ board' = [rx |-> [p \in Ports |-> <<>>], num_new_lines |-> [p \in Ports |-> 0],
                      line |-> <<>>, sent |-> [p \in Ports |-> <<>>],
                      arrived |-> [p \in Ports |-> <<>>]]
         /\ turn' = 0 /\ pc' = "relay"

Arrive(p, ch) ==
  /\ pc \in {"relay", "getch"} /\ Len(board.arrived[p]) < Arrivals
  /\ board' = [board EXCEPT !.rx[p] = Append(@, ch), !.arrived[p] = Append(@, ch),
                 !.num_new_lines[p] = @ + (IF ch = "newline" THEN 1 ELSE 0)]
  /\ UNCHANGED <<turn, pc, result>>

\* Neither a line nor a character: the other port.
Look ==
  /\ pc = "relay"
  /\ IF board.num_new_lines[turn] # 0 \/ board.rx[turn] # <<>>
     THEN pc' = "getch" /\ UNCHANGED turn
     ELSE turn' = Other(turn) /\ UNCHANGED pc
  /\ board' = [board EXCEPT !.line = <<>>]
  /\ UNCHANGED result

\* A character of a line; those the line has no room for are dropped.
Kept(ch) == IF Len(board.line) < LineBufSize - 1 THEN Append(board.line, ch) ELSE board.line
Getch ==
  /\ pc = "getch" /\ board.rx[turn] # <<>> /\ Head(board.rx[turn]) = "a"
  /\ board' = [board EXCEPT !.rx[turn] = Tail(@), !.line = Kept("a")]
  /\ UNCHANGED <<turn, pc, result>>

\* A newline: the line goes out, and one newline is consumed if any is counted.
GetNewline ==
  /\ pc = "getch" /\ board.rx[turn] # <<>> /\ Head(board.rx[turn]) = "newline"
  /\ board' = [board EXCEPT !.rx[turn] = Tail(@), !.line = <<>>,
                 !.sent[Other(turn)] = @ \o Kept("newline"),
                 !.num_new_lines[turn] = IF @ # 0 THEN @ - 1 ELSE @]
  /\ pc' = "relay" /\ turn' = Other(turn) /\ UNCHANGED result

\* Ctrl-Z: the line so far goes out; the other board is told if it came from here.
GetTerminate ==
  /\ pc = "getch" /\ board.rx[turn] # <<>> /\ Head(board.rx[turn]) = "terminate"
  /\ board' = [board EXCEPT !.rx[turn] = Tail(@),
                 !.sent[Other(turn)] = @ \o board.line \o (IF turn = 0 THEN <<"terminate">> ELSE <<>>)]
  /\ pc' = "shown" /\ result' = turn /\ UNCHANGED turn

Next == \/ \E p \in Ports, ch \in Chars : Arrive(p, ch)
        \/ Look \/ Getch \/ GetNewline \/ GetTerminate

-----------------------------------------------------------------------------
TypeOK == pc \in {"relay", "getch"} =>
  turn \in Ports /\ \A p \in Ports : Len(board.rx[p]) <= Arrivals /\ board.num_new_lines[p] \in 0 .. Arrivals

\* What a port has sent is what arrived on the other one, line by line: each line
\* without the characters it had no room for, in order, and nothing of a line that
\* is not complete.  The count of newlines is that of the ring.
Cut(s) == IF Len(s) < LineBufSize THEN s ELSE SubSeq(s, 1, LineBufSize - 1)
Relayed(s) ==
  FoldLeft(LAMBDA acc, ch : IF ch = "newline" THEN [out |-> acc.out \o Cut(Append(acc.line, ch)), line |-> <<>>]
                            ELSE [acc EXCEPT !.line = Append(@, ch)],
           [out |-> <<>>, line |-> <<>>], s)
Taken(p) == SubSeq(board.arrived[p], 1, Len(board.arrived[p]) - Len(board.rx[p]))
LinesRelayed ==
  pc \in {"relay", "getch"} =>
    \A p \in Ports :
      LET r == Relayed(Taken(p))
      IN /\ board.sent[Other(p)] = r.out
         /\ pc = "getch" /\ p = turn => board.line = Cut(r.line)
         /\ board.num_new_lines[p] = Len(SelectSeq(board.rx[p], LAMBDA ch : ch = "newline"))

\* A program that has ended was told to, and has told the other board if the PC
\* ended it.
Ended ==
  pc = "shown" =>
    /\ board.arrived[result] # <<>> /\ "terminate" \in {Taken(result)[i] : i \in 1 .. Len(Taken(result))}
    /\ result = 0 => board.sent[1] # <<>> /\ board.sent[1][Len(board.sent[1])] = "terminate"
=============================================================================
