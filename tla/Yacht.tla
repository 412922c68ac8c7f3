------------------------------- MODULE Yacht -------------------------------
(***************************************************************************)
(* Yacht (main.c).  A step is a player's turn: five dice are thrown, the   *)
(* name of a role is read (recv_choice) and scored, and the dice of the    *)
(* next player are thrown.  recv_choice reads up to a newline or 15        *)
(* characters: what a longer line has left is the player's next choice.    *)
(* The ring's count of newlines goes down with every choice.               *)
(***************************************************************************)
EXTENDS Integers, Sequences, FiniteSets, FiniteSetsExt

CONSTANTS
  ROUNDS,  \* 5 in the code
  Rolls(_) \* throws of a turn: dice in ascending order, which plays no part

VARIABLES board, turn, pc, result

Roles == {"Aces", "Deuces", "Treys", "Fours", "Fives", "Sixes", "Choice",
          "Four-of-a-kind", "Full-house", "S.Straight", "B.Straight", "Yacht"}

\* A line, as the choice made and what is left in the ring: Nothing, or a choice.
Nothing == "nothing"
Named == Roles \cup {"other"}
Lines == [choice : Named, rest : {Nothing}]
         \cup [choice : {"other"}, rest : {"other", "Yacht"}]

\* yacht_score, from the number of dice that show each value.
cnt(dice, v) == Cardinality({i \in 1 .. 5 : dice[i] = v})
sum(dice) == MapThenSumSet(LAMBDA i : dice[i], 1 .. 5)
maxc(dice) == Max({cnt(dice, v) : v \in 1 .. 6})
pairs(dice) == Cardinality({v \in 1 .. 6 : cnt(dice, v) = 2})
Upper == <<"Aces", "Deuces", "Treys", "Fours", "Fives", "Sixes">>
Run(dice, s, n) == \A v \in s .. s + n - 1 : cnt(dice, v) > 0

yacht_score(dice, role) ==
  CASE \E v \in 1 .. 6 : Upper[v] = role -> LET v == CHOOSE v \in 1 .. 6 : Upper[v] = role IN v * cnt(dice, v)
    [] role = "Choice" -> sum(dice)
    [] role = "Four-of-a-kind" /\ maxc(dice) >= 4 -> sum(dice)
    [] role = "Full-house" /\ maxc(dice) = 3 /\ pairs(dice) = 1 -> sum(dice)
    [] role = "S.Straight" /\ (\E s \in 1 .. 3 : Run(dice, s, 4)) -> 15
    [] role = "B.Straight" /\ (\E s \in 1 .. 2 : Run(dice, s, 5)) -> 30
    [] role = "Yacht" /\ maxc(dice) = 5 -> 50
    [] OTHER -> 0

\* turn counts the turns of both players.
Player == IF turn % 2 = 1 THEN 1 ELSE 2

Start == /\ \E d \in Rolls(1) : board' = [dice |-> d, total |-> <<0, 0>>, choice |-> Nothing,
                                       rest |-> <<Nothing, Nothing>>,
                                       num_new_lines |-> <<0, 0>>, cut |-> <<0, 0>>]
         /\ turn' = 1 /\ pc' = "yacht"

\* recv_choice: the line is what the ring holds, or what is typed now; its newline was
\* counted when it came.  History: cut, the choices that a full buffer ended.
recv_choice(l) ==
  \/ board.rest[Player] = Nothing /\ l \in Lines
  \/ board.rest[Player] # Nothing /\ l = [choice |-> board.rest[Player], rest |-> Nothing]

consume_new_line(n) == n - 1
Counted == board.num_new_lines[Player] + IF board.rest[Player] = Nothing THEN 1 ELSE 0
Score(l, next) ==
  board' = [dice |-> next, choice |-> l.choice,
            rest |-> [board.rest EXCEPT ![Player] = l.rest],
            num_new_lines |-> [board.num_new_lines EXCEPT ![Player] = consume_new_line(Counted)],
            cut |-> [board.cut EXCEPT ![Player] = @ + IF l.rest = Nothing THEN 0 ELSE 1],
            total |-> [board.total EXCEPT ![Player] = @ + yacht_score(board.dice, l.choice)]]

Turn(l) ==
  /\ pc = "yacht" /\ turn < 2 * ROUNDS /\ recv_choice(l)
  /\ \E d \in Rolls(turn + 1) : Score(l, d)
  /\ turn' = turn + 1 /\ UNCHANGED <<pc, result>>

LastTurn(l) ==
  /\ pc = "yacht" /\ turn = 2 * ROUNDS /\ recv_choice(l)
  /\ Score(l, board.dice)
  /\ pc' = "shown" /\ turn' = turn
  /\ result' = IF board'.total[1] > board'.total[2] THEN 1
               ELSE IF board'.total[1] < board'.total[2] THEN 2 ELSE 0

AllLines == Lines \cup [choice : Named, rest : {Nothing}]
Next == \E l \in AllLines : Turn(l) \/ LastTurn(l)

-----------------------------------------------------------------------------
TypeOK == pc = "yacht" =>
  /\ turn \in 1 .. 2 * ROUNDS /\ board.dice \in Rolls(turn)
  /\ \A p \in {1, 2} : board.total[p] \in 0 .. 50 * ROUNDS
                       /\ board.rest[p] \in {Nothing} \cup Named

\* The rule of a turn: the player, and nobody else, gets the points of the role he
\* chose on the dice he saw: the dice of one value, all five if four are alike or
\* three and two, 15 for four and 30 for five in a row, 50 for five alike.  The ring's
\* count is the newlines in the ring, less one for every choice a full buffer ended:
\* such a choice consumes a newline it has not read.
Show(n) == {i \in 1 .. 5 : board.dice[i] = n}
Alike(n) == \E I \in SUBSET (1 .. 5) :
              Cardinality(I) = n /\ Cardinality({board.dice[i] : i \in I}) = 1
Faces == {board.dice[i] : i \in 1 .. 5}
InARow(n) == \E s \in 1 .. 6 : s + n - 1 <= 6 /\ s .. s + n - 1 \subseteq Faces
AllDice == MapThenSumSet(LAMBDA i : board.dice[i], 1 .. 5)
Value(role) ==
  CASE role = "Four-of-a-kind" -> IF Alike(4) THEN AllDice ELSE 0
    [] role = "Full-house" -> IF Cardinality(Faces) = 2 /\ ~Alike(4) THEN AllDice ELSE 0
    [] role = "S.Straight" -> IF InARow(4) THEN 15 ELSE 0
    [] role = "B.Straight" -> IF InARow(5) THEN 30 ELSE 0
    [] role = "Yacht" -> IF Alike(5) THEN 50 ELSE 0
    [] role = "Choice" -> AllDice
    [] role = "other" -> 0
    [] OTHER -> MapThenSumSet(LAMBDA v : IF Upper[v] = role THEN v * Cardinality(Show(v)) ELSE 0, 1 .. 6)
TurnRule ==
  pc = "yacht" =>
    /\ board'.total[Player] - board.total[Player] = Value(board'.choice)
    /\ board'.total[3 - Player] = board.total[3 - Player]
    /\ board.rest[Player] # Nothing => board'.choice = board.rest[Player]
    /\ board'.num_new_lines[Player] + board'.cut[Player]
         = IF board'.rest[Player] = Nothing THEN 0 ELSE 1

\* Who has more points wins; the turns were as many for both.
Winners == {p \in {1, 2} : board.total[p] > board.total[3 - p]}
Won == pc \in {"shown", "told"} => turn = 2 * ROUNDS
=============================================================================
