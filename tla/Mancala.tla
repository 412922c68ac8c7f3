------------------------------ MODULE Mancala ------------------------------
(***************************************************************************)
(* Mancala of the games (main.c) and of the older programs (mancala.c,     *)
(* mancala copy.c, mancala_logic.c).  A step is one turn: a player chooses *)
(* a pit and its stones are sown.  A choice that is refused is asked for   *)
(* again and changes nothing.  The variables are those of all games: the   *)
(* table, whose turn it is, the control point, what the program returns.   *)
(***************************************************************************)
EXTENDS Printf, FiniteSets, FiniteSetsExt

CONSTANTS
  PitsPerSide, \* 6 in the code
  Stones,      \* stones in a pit at the start; 4 in the code
  Tables       \* which programs: "race" main.c, "short" mancala.c, "stores" the others

VARIABLES board, turn, pc, result

PITS == 2 * PitsPerSide + 2
Side(p) == {(p - 1) * (PitsPerSide + 1) + k : k \in 1 .. PitsPerSide}
Goal(p) == p * (PitsPerSide + 1)
Left(b, p) == MapThenSumSet(LAMBDA i : b[i], Side(p))

\* init_board; that of mancala.c leaves player 1 one stone, before the goal.
init_board(table) ==
  [i \in 1 .. PITS |->
     IF i \in {Goal(1), Goal(2)} THEN 0
     ELSE IF table = "short" /\ i \in Side(1) THEN (IF i = PitsPerSide THEN 1 ELSE 0)
     ELSE Stones]

\* Mutation of is_game_over: only player 1's side is looked at.
is_game_overOne(b) == Left(b, 1) = 0

is_game_over(b) == Left(b, 1) = 0 \/ Left(b, 2) = 0

\* Mutation of Follow: the opponent's goal is not passed over.
FollowAll(p, pos) == (pos % PITS) + 1

\* Sowing, one stone at a time; the opponent's goal is passed over.
Follow(p, pos) ==
  LET q == (pos % PITS) + 1 IN IF q = Goal(3 - p) THEN (q % PITS) + 1 ELSE q
Sown(b, p, pit) ==
  LET sow[n \in 0 .. b[pit]] ==
        IF n = 0 THEN [pits |-> [b EXCEPT ![pit] = 0], pos |-> pit]
        ELSE LET s == sow[n - 1]
                 q == Follow(p, s.pos)
             IN [pits |-> [s.pits EXCEPT ![q] = @ + 1], pos |-> q]
  IN sow[b[pit]]

\* The end of main.c: whose side is empty, player 1's first.  The other programs
\* collect what is left and compare the goals.
Emptied(b) == IF Left(b, 1) = 0 THEN 1 ELSE IF Left(b, 2) = 0 THEN 2 ELSE 0
Collected(b) ==
  [i \in 1 .. PITS |-> IF i = Goal(1) THEN b[i] + Left(b, 1)
                       ELSE IF i = Goal(2) THEN b[i] + Left(b, 2) ELSE 0]
Compared(b) == LET c == Collected(b)
               IN IF c[Goal(1)] > c[Goal(2)] THEN 1 ELSE IF c[Goal(2)] > c[Goal(1)] THEN 2 ELSE 0
\* print_board: what a player is shown, row by row; a hole is " %2d ".
Shown(n) == printf(<<" ", "%", "2", "d", " ">>, <<n>>)
print_board(b, perspective) ==
  LET row(idx(_)) == [i \in 1 .. PitsPerSide |-> Shown(b[idx(i - 1)])]
  IN IF perspective = 1
     THEN [top |-> row(LAMBDA i : PITS - 1 - i), bottom |-> row(LAMBDA i : i + 1),
           left |-> Shown(b[Goal(2)]), right |-> Shown(b[Goal(1)])]
     ELSE [top |-> row(LAMBDA i : PitsPerSide - i), bottom |-> row(LAMBDA i : Goal(1) + i + 1),
           left |-> Shown(b[Goal(1)]), right |-> Shown(b[Goal(2)])]
Screens(b) == [p \in {1, 2} |-> print_board(b, p)]

End(b) ==
  /\ pc' = "shown"
  /\ board' = [board EXCEPT !.pits = IF board.table = "stores" THEN Collected(b) ELSE b]
  /\ result' = IF board.table = "stores" THEN Compared(b) ELSE Emptied(b)
  /\ UNCHANGED turn

Start(table) == /\ board' = [table |-> table, pits |-> init_board(table),
                              screens |-> Screens(init_board(table))]
                /\ turn' = 1 /\ pc' = "mancala"

\* A player chooses by number; both are shown the board before the next choice.
Pit(p, choice) == IF p = 1 THEN choice ELSE choice + Goal(1)
Choose(choice) ==
  LET pit == Pit(turn, choice)
      s == Sown(board.pits, turn, pit)
  IN /\ pc = "mancala" /\ board.pits[pit] > 0
     /\ IF is_game_over(s.pits) THEN End(s.pits)
        ELSE /\ board' = [board EXCEPT !.pits = s.pits, !.screens = Screens(s.pits)]
             /\ turn' = IF s.pos = Goal(turn) THEN turn ELSE 3 - turn
             /\ UNCHANGED <<pc, result>>

\* Ctrl-Z.  mancala copy.c asks on until the choice is one it accepts, and then ends
\* without it; mancala_logic.c has no Ctrl-Z.
Terminate == pc = "mancala" /\ End(board.pits)

Next == Terminate \/ \E choice \in 1 .. PitsPerSide : Choose(choice)

-----------------------------------------------------------------------------
TypeOK == /\ board.table \in Tables /\ turn \in {1, 2}
          /\ board.pits \in [1 .. PITS -> 0 .. 2 * PitsPerSide * Stones]

\* The rule of a turn: the stones of a pit of the player go round over all holes
\* but the opponent's goal, one each; the player whose last stone falls into his
\* goal moves again.  Distance is along that round, from the pit chosen.
Round == PITS - 1
Place(p, hole) == IF p = 1 THEN hole ELSE IF hole > Goal(1) THEN hole - Goal(1) ELSE hole + Goal(1)
Distance(p, pit, hole) == ((Place(p, hole) - Place(p, pit) - 1) % Round) + 1
Share(n, d) == IF n >= d THEN (n - d) \div Round + 1 ELSE 0
After(p, pit) ==
  [h \in 1 .. PITS |->
     IF h = Goal(3 - p) THEN board.pits[h]
     ELSE (IF h = pit THEN 0 ELSE board.pits[h]) + Share(board.pits[pit], Distance(p, pit, h))]
TurnRule ==
  pc = "mancala" =>
    \E pit \in Side(turn) :
      /\ board.pits[pit] > 0
      /\ pc' = "mancala" =>
           /\ board'.pits = After(turn, pit)
           /\ turn' = turn <=> board.pits[pit] % Round = Distance(turn, pit, Goal(turn)) % Round
      /\ pc' = "shown" /\ board.table # "stores" =>
           board'.pits \in {board.pits, After(turn, pit)}

\* A player sees his pits below, by their numbers from left to right, and the others
\* as the stones go round: his goal at the right, the opponent's pits from right to
\* left, the opponent's goal at the left; each with as many stones as are in it.
SeenRound(p) ==
  LET s == board.screens[p] IN s.bottom \o <<s.right>> \o Reverse(s.top) \o <<s.left>>
ShowsHole(text, n) ==
  LET plain == SelectSeq(text, LAMBDA ch : ch # " ")
  IN Len(text) = 4 /\ atoi(plain) = n /\ \A i \in 1 .. Len(plain) : IsDigit(plain[i], 10)
BoardSeen ==
  pc = "mancala" =>
    \A p \in {1, 2} : /\ Len(SeenRound(p)) = PITS
                      /\ \A h \in 1 .. PITS : ShowsHole(SeenRound(p)[Place(p, h)], board.pits[h])
                      /\ \A k \in 1 .. PitsPerSide : Place(p, Pit(p, k)) = k

\* Nobody is asked for a pit without having one to choose.
CanChoose == pc = "mancala" => \E pit \in Side(turn) : board.pits[pit] > 0

\* No stone gets lost; the winner is the player who has emptied his side, player 1 if
\* both have, or, in the older programs, has more stones.
Winners == IF Left(board.pits, 1) = 0 THEN {1} ELSE {p \in {2} : Left(board.pits, p) = 0}
Total == MapThenSumSet(LAMBDA i : board.pits[i], 1 .. PITS)
Won ==
  /\ board.table # "short" => Total = 2 * PitsPerSide * Stones
  /\ pc \in {"shown", "told"} /\ board.table # "stores" /\ result # 0 =>
       /\ Left(board.pits, result) = 0
       /\ result = 2 => Left(board.pits, 1) > 0
  /\ pc = "shown" /\ board.table = "stores" =>
       board.pits[Goal(1)] > board.pits[Goal(2)] <=> result = 1
=============================================================================
