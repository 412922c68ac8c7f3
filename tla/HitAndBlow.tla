----------------------------- MODULE HitAndBlow -----------------------------
(***************************************************************************)
(* Hit_and_Blow and Hit_and_Blow_2 (main.c).  In the first, two players    *)
(* guess a sequence of digits in turn; a step is a guess (one with another *)
(* character in it, "data" among them, is asked for again).  In the second *)
(* one player types the bits of a number; a step is a character.           *)
(***************************************************************************)
EXTENDS Integers, Sequences, FiniteSets

CONSTANTS
  question_size, \* digits of the answer
  Digits,        \* digits there are; 10 in the code
  max_turn,      \* turns of Hit_and_Blow
  Bits,          \* bits of the answer of Hit_and_Blow_2; 16 in the code
  BitTurns       \* turns of Hit_and_Blow_2; 30 in the code

VARIABLES board, turn, pc, result

Digit == 0 .. Digits - 1
Guesses == [1 .. question_size -> Digit]

-----------------------------------------------------------------------------
(* Hit_and_Blow *)

\* seikai: digits are drawn until the new one differs from those before.
seikai == {s \in Guesses : \A i \in 1 .. question_size : \A j \in 1 .. i - 1 : s[i] # s[j]}

StartBlow == /\ \E s \in seikai : board' = [answer |-> s, data |-> <<>>]
             /\ turn' = 0 /\ pc' = "blow"

\* The two loops over positions.
hit(s, g) == Cardinality({<<i, j>> \in (1 .. question_size) \X (1 .. question_size) : g[i] = s[j] /\ i = j})
brow(s, g) == Cardinality({<<i, j>> \in (1 .. question_size) \X (1 .. question_size) : g[i] = s[j] /\ i # j})

\* Turn t is player t % 2 + 1's, who sits at terminal t % 2.
Guess(g) ==
  /\ pc = "blow" /\ turn < max_turn
  /\ turn' = turn + 1
  /\ LET h == hit(board.answer, g)
     IN /\ board' = [board EXCEPT !.data = Append(@, [guess |-> g, hit |-> h, brow |-> brow(board.answer, g)])]
        /\ IF h = question_size THEN pc' = "shown" /\ result' = (IF turn' % 2 = 1 THEN 2 ELSE 1)
           ELSE UNCHANGED <<pc, result>>

BlowOver ==
  /\ pc = "blow" /\ turn = max_turn
  /\ turn' = turn + 1 /\ pc' = "shown" /\ result' = 0
  /\ UNCHANGED board

-----------------------------------------------------------------------------
(* Hit_and_Blow_2 *)

\* sw holds the bits of the turn so far; hit, and, or are the counts.  History:
\* typed, the last characters; 2 is any that is no bit.
NewTurn(b) == [b EXCEPT !.sw = <<>>, !.hit = 0, !.and = 0, !.or = 0]
StartBits ==
  /\ \E a \in [1 .. Bits -> {0, 1}] :
       board' = [answer |-> a, sw |-> <<>>, hit |-> 0, and |-> 0, or |-> 0,
                 data |-> <<>>, typed |-> <<>>]
  /\ turn' = 1 /\ pc' = "bits"

Last(b, c) == [b EXCEPT !.typed = IF Len(@) < Bits THEN Append(@, c) ELSE Append(Tail(@), c)]

\* A bit; the last one of a turn ends it.
TypeBit(v) ==
  LET i == Len(board.sw) + 1
      a == board.answer[i]
      b == [Last(board, v) EXCEPT
              !.sw = Append(@, v), !.hit = @ + (IF v = a THEN 1 ELSE 0),
              !.and = @ + (IF v = 1 /\ a = 1 THEN 1 ELSE 0),
              !.or = @ + (IF v = 1 \/ a = 1 THEN 1 ELSE 0)]
      done == [NewTurn(b) EXCEPT
                 !.data = Append(@, [sw |-> b.sw, hit |-> b.hit, and |-> b.and, or |-> b.or])]
  IN /\ pc = "bits"
     /\ IF i < Bits THEN board' = b /\ UNCHANGED <<turn, pc, result>>
        ELSE /\ board' = done
             /\ IF b.hit = Bits THEN pc' = "shown" /\ result' = turn /\ UNCHANGED turn
                ELSE IF turn = BitTurns
                THEN pc' = "shown" /\ result' = turn + 1 /\ turn' = turn + 1
                ELSE turn' = turn + 1 /\ UNCHANGED <<pc, result>>

\* Mutation of Again: the counts are kept.
AgainCounted == /\ board' = [Last(board, 2) EXCEPT !.sw = <<>>]
                /\ pc' = "bits" /\ UNCHANGED <<turn, result>>

\* Any other character starts the turn again.
Again == /\ board' = Last(NewTurn(board), 2)
         /\ pc' = "bits" /\ UNCHANGED <<turn, result>>
TypeOther == pc = "bits" /\ Again

\* 'd' reads on, up to the first character that is not of "data\n", which is lost;
\* the whole word lists the turns.
DataState == <<"d", "da", "dat", "data">>
TypeD == /\ pc = "bits" /\ pc' = "d"
         /\ board' = Last(board, 2) /\ UNCHANGED <<turn, result>>
TypeData(k) ==
  /\ pc = DataState[k]
  /\ IF k < 4 THEN pc' = DataState[k + 1] /\ board' = Last(board, 2) /\ UNCHANGED <<turn, result>>
     ELSE Again
TypeNotData(k) == pc = DataState[k] /\ Again

Next ==
  \/ \E g \in Guesses : Guess(g)
  \/ BlowOver
  \/ (\E v \in {0, 1} : TypeBit(v))
  \/ TypeOther \/ TypeD
  \/ (\E k \in 1 .. 4 : TypeData(k) \/ TypeNotData(k))

-----------------------------------------------------------------------------
TypeOK ==
  /\ pc = "blow" => turn \in 0 .. max_turn /\ Len(board.data) = turn
  /\ pc \in {"bits", "d", "da", "dat", "data"} =>
       turn \in 1 .. BitTurns /\ Len(board.data) = turn - 1 /\ Len(board.sw) < Bits

\* A turn is answered by its rule: hits are positions that agree, hits and blows
\* together positions whose digit is anywhere in the answer, each position of the
\* guess once (a digit guessed twice counts at both); of the bits typed last, without
\* any other character among them, hits agree, "and" are ones of both, "or" of either.
BlowRule ==
  \A k \in 1 .. Len(board.data) :
    LET d == board.data[k]
        s == board.answer
        P == 1 .. question_size
    IN /\ d.hit = Cardinality({i \in P : d.guess[i] = s[i]})
       /\ d.hit + d.brow = Cardinality({i \in P : \E j \in P : d.guess[i] = s[j]})
BitsRule ==
  board.data # <<>> /\ board.sw = <<>> /\ (board.typed = <<>> \/ board.typed[Len(board.typed)] # 2) =>
    LET d == board.data[Len(board.data)]
        B == 1 .. Bits
        a == board.answer
    IN /\ d.sw = board.typed
       /\ d.hit = Cardinality({i \in B : d.sw[i] = a[i]})
       /\ d.and = Cardinality({i \in B : d.sw[i] = 1 /\ a[i] = 1})
       /\ d.or = Cardinality({i \in B : d.sw[i] = 1 \/ a[i] = 1})

\* Who has guessed the answer wins, player 2 the odd turns; the game ends then, or with
\* the turns.
Right == {k \in 1 .. Len(board.data) : board.data[k].guess = board.answer}
Winners == {IF k % 2 = 1 THEN 2 ELSE 1 : k \in Right}
BlowWon ==
  pc \in {"shown", "told"} =>
    Right = {Len(board.data)} \/ (Right = {} /\ Len(board.data) = max_turn)
BitsWon ==
  pc \in {"shown", "told"} =>
    LET right == {k \in 1 .. Len(board.data) : board.data[k].sw = board.answer}
    IN IF result > BitTurns THEN right = {} ELSE right = {result}
=============================================================================
