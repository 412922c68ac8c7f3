------------------------------- MODULE Speed -------------------------------
(***************************************************************************)
(* Speed (main.c): two players type the card that is shown.  Keys reach    *)
(* the receive rings by interrupt at any time; the game polls terminal 0,  *)
(* then terminal 1, and empties both rings after a round.                  *)
(***************************************************************************)
EXTENDS Integers, Sequences

CONSTANTS
  Cards,      \* ranks shown, of card_to_point; 13 in the code
  Rounds,     \* 10 in the code
  Keys        \* bound: keys typed in a game

VARIABLES board, turn, pc, result

\* board: rx, the rings, of keys: a card, or 0 for any other, each with
\* the time it was typed; card; scores; keys typed.  History: points, the cards of the
\* rounds that have ended, and first, who typed the card first in this round.  turn is
\* the round.
card_to_point(card) == card

Start == /\ \E c \in Cards :
              board' = [rx |-> <<<<>>, <<>>>>, card |-> c, scores |-> <<0, 0>>, keys |-> 0,
                        points |-> 0, first |-> 0]
         /\ turn' = 1 /\ pc' = "poll1"

Playing == pc \in {"poll1", "poll2", "clear1", "clear2"}

\* Three times the round, and more while the rings are being emptied.
Now == 3 * turn + IF pc = "clear1" THEN 1 ELSE IF pc = "clear2" THEN 2 ELSE 0

\* A key comes into the ring, which does not fill up within the bound.
Key(p, k) ==
  /\ Playing /\ board.keys < Keys
  /\ board' = [board EXCEPT !.keys = @ + 1,
                 !.rx[p] = Append(@, [key |-> k, at |-> Now]),
                 !.first = IF Now = 3 * turn /\ k = board.card /\ @ = 0 THEN p ELSE @]
  /\ UNCHANGED <<turn, pc, result>>

Polled == <<"poll1", "poll2">>
NextPoll(p) == IF p = 1 THEN "poll2" ELSE "poll1"

\* Terminal p has a key; one that is not the card, a newline among them, is passed over.
Read(p) ==
  /\ pc = Polled[p] /\ board.rx[p] # <<>>
  /\ LET right == Head(board.rx[p]).key = board.card
     IN /\ board' = [board EXCEPT !.rx[p] = Tail(@),
                       !.scores[p] = @ + (IF right THEN card_to_point(board.card) ELSE 0)]
        /\ pc' = IF right THEN "clear1" ELSE NextPoll(p)
  /\ UNCHANGED <<turn, result>>

\* Terminal p has none: the other one.
Poll(p) == /\ pc = Polled[p] /\ board.rx[p] = <<>>
           /\ pc' = NextPoll(p) /\ UNCHANGED <<board, turn, result>>

\* uart_clear_buf: key by key, until the ring is empty; terminal 0's, then the other.
Cleared == <<"clear1", "clear2">>
Clear(p) ==
  /\ pc = Cleared[p] /\ board.rx[p] # <<>>
  /\ board' = [board EXCEPT !.rx[p] = Tail(@)] /\ UNCHANGED <<turn, pc, result>>
ClearNext == /\ pc = "clear1" /\ board.rx[1] = <<>>
             /\ pc' = "clear2" /\ UNCHANGED <<board, turn, result>>

NewRound ==
  /\ pc = "clear2" /\ board.rx[2] = <<>> /\ turn < Rounds
  /\ turn' = turn + 1 /\ pc' = "poll1"
  /\ \E c \in Cards : board' = [board EXCEPT !.card = c, !.points = @ + board.card, !.first = 0]
  /\ UNCHANGED result

Finish ==
  /\ pc = "clear2" /\ board.rx[2] = <<>> /\ turn = Rounds
  /\ pc' = "shown" /\ UNCHANGED turn
  /\ board' = [board EXCEPT !.points = @ + board.card]
  /\ result' = IF board.scores[1] > board.scores[2] THEN 1
               ELSE IF board.scores[1] < board.scores[2] THEN 2 ELSE 0

Next ==
  \/ \E p \in {1, 2} : Read(p) \/ Poll(p) \/ Clear(p)
  \/ \E p \in {1, 2}, k \in Cards \cup {0} : Key(p, k)
  \/ ClearNext \/ NewRound \/ Finish

-----------------------------------------------------------------------------
TypeOK == Playing =>
  /\ turn \in 1 .. Rounds /\ board.card \in Cards /\ board.keys \in 0 .. Keys
  /\ \A p \in {1, 2} : Len(board.rx[p]) <= Keys

\* Only a player whose key is the card scores, its points and once in a round; player
\* 2 typed it in this round, player 1 at the earliest when terminal 0's ring had been
\* emptied and terminal 1's was being.  He need not be the one who typed the card first,
\* whom the game promises the points (main.c:606): a key is looked at when the polling
\* comes to it, terminal 0 before terminal 1 and one key of each at a time.  But the
\* card of the one who was first is still in his ring then, behind others or unseen.
TurnRule ==
  Playing /\ board'.scores # board.scores =>
    \E p \in {q \in {1, 2} : board.rx[q] # <<>>} :
      LET k == Head(board.rx[p])
      IN /\ k.key = board.card /\ k.at >= 3 * turn - (IF p = 1 THEN 1 ELSE 0)
         /\ board'.scores = [board.scores EXCEPT ![p] = @ + board.card]
         /\ board.scores[1] + board.scores[2] = board.points
         /\ board.first = 3 - p =>
              \E i \in 1 .. Len(board.rx[3 - p]) :
                board.rx[3 - p][i].key = board.card /\ board.rx[3 - p][i].at = 3 * turn

\* The card of every round has gone to one player; who has more points wins.
Winners == {p \in {1, 2} : board.scores[p] > board.scores[3 - p]}
Won == pc \in {"shown", "told"} => board.scores[1] + board.scores[2] = board.points
=============================================================================
