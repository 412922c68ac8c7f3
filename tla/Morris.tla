------------------------------- MODULE Morris -------------------------------
(***************************************************************************)
(* Nine_Mens_Morris (main.c).  A step is one turn: up to turn 18 a piece   *)
(* is placed, then one is moved along a line or, if none can move, the     *)
(* turn is passed; a mill removes a piece of the opponent, drawn at        *)
(* random.  Input that is refused is asked for again and changes nothing.  *)
(***************************************************************************)
EXTENDS Integers, Sequences, FiniteSets

CONSTANTS
  Openings    \* positions to play from, and how far: [one, two, turn, plies]

\* A point is <<lank, file>>; the array has 24 cells that are not '_'.
Points ==
  {<<r, f>> \in (0 .. 6) \X (0 .. 6) :
     \/ {r, f} \subseteq {0, 3, 6} \/ {r, f} \subseteq {1, 3, 5} \/ {r, f} \subseteq {2, 3, 4}} \ {<<3, 3>>}

VARIABLES board, turn, pc, result

\* board.at is BOARD: 0 is 'X', 1 and 2 the players.  board.end is the bound.
At(q) == board.at[q]
Player(t) == IF t % 2 = 1 THEN 1 ELSE 2
Pieces(b, p) == {q \in DOMAIN b : b[q] = p}

Start ==
  /\ \E o \in Openings :
       /\ board' = [at |-> [q \in Points |-> IF q \in o.one THEN 1 ELSE IF q \in o.two THEN 2 ELSE 0],
                    end |-> o.turn + o.plies]
       /\ turn' = o.turn
  /\ pc' = "morris"

\* The loop over i that finds a player's pieces with a free neighbour: two steps
\* of a line per i, in the four orientations of the board.
Steps(i) ==
  LET k == IF i < 6 THEN i \div 2 ELSE i - 6
      k2 == IF i < 6 THEN i \div 2 + (i % 2) * (3 - i \div 2) ELSE 3
      dis == IF i < 6 THEN 0 ELSE 1
      dis2 == IF i < 6 THEN 3 - i \div 2 ELSE 0
  IN { <<<<k, k2>>, <<k + dis, k2 + dis2>>>>, <<<<k2, k>>, <<k2 + dis2, k + dis>>>>,
       <<<<6 - k, 6 - k2>>, <<6 - k - dis, 6 - k2 - dis2>>>>,
       <<<<6 - k2, 6 - k>>, <<6 - k2 - dis2, 6 - k - dis>>>> }

pass_flag(p) == ~\E i \in 0 .. 7 : \E s \in Steps(i) : {At(s[1]), At(s[2])} = {p, 0}

\* Whether two points are neighbours: on one rank or file, at a distance that
\* depends on which.
adjacent_flag(from, to) ==
  \E d \in {1, 2} :
    LET o == 3 - d
        j == to[d]
        low == IF from[o] < to[o] THEN from[o] ELSE to[o]
        high == IF from[o] < to[o] THEN to[o] ELSE from[o]
    IN /\ from[d] = to[d]
       /\ d = 2 => from[1] # to[1]
       /\ \/ j \in {0, 6} /\ high = low + 3 /\ low \in {0, 3}
          \/ j \in {1, 5} /\ high = low + 2 /\ low \in {1, 3}
          \/ j \in {2, 4} /\ high = low + 1 /\ low \in {2, 3}
          \/ j = 3 /\ high = low + 1 /\ low # 3

\* The loop over the lines: the line i of a rank or a file, and whether a point
\* on rank or file j is on it.
Swap(q) == <<q[2], q[1]>>
RankLine(i) ==
  LET k == IF i = 3 THEN 1 ELSE IF i = 7 THEN 5 ELSE 3
      dis == IF i \in {3, 7} THEN 1 ELSE IF i < 3 THEN 3 - i ELSE i - 3
      j == IF i = 7 THEN 3 ELSE i
  IN {<<j, k - dis>>, <<j, k>>, <<j, k + dis>>}
FileLine(i) == {Swap(q) : q \in RankLine(i)}
Through(i, q) ==
  LET j == IF i = 7 THEN 3 ELSE i
  IN /\ q[1] = j
     /\ \/ j \in {0, 6} /\ q[2] % 3 = 0
        \/ j \in {1, 5} /\ q[2] % 2 = 1
        \/ j \in {2, 4} /\ q[2] \in 2 .. 4
        \/ i = 3 /\ q[2] <= 2
        \/ i = 7 /\ q[2] >= 4
Filled(b, line, p) == \A q \in line : b[q] = p

mills(b, p, q) ==
  \E i \in 0 .. 7 : \/ Filled(b, RankLine(i), p) /\ Through(i, q)
                    \/ Filled(b, FileLine(i), p) /\ Through(i, Swap(q))

\* COPY: the opponent's pieces that are in no mill; all of them if there are none.
Loose(b, p) ==
  Pieces(b, p) \ UNION {l \in {RankLine(i) : i \in 0 .. 7} \cup {FileLine(i) : i \in 0 .. 7} : Filled(b, l, p)}
Removable(b, p) == IF Loose(b, p) = {} THEN Pieces(b, p) ELSE Loose(b, p)

\* The end of a turn that has brought a piece to q.
Arrive(b, p, q) ==
  /\ turn' = turn + 1
  /\ IF mills(b, p, q)
     THEN \E gone \in Removable(b, 3 - p) : board' = [board EXCEPT !.at = [b EXCEPT ![gone] = 0]]
     ELSE board' = [board EXCEPT !.at = b]
  /\ UNCHANGED <<pc, result>>

Turn == pc = "morris" /\ turn < board.end
p1 == Player(turn + 1)

\* turn counts up at the head of the loop.
Loses == turn + 1 > 18 /\ Cardinality(Pieces(board.at, p1)) < 3

\* return 1 - turn % 2.
Lose ==
  /\ Turn /\ Loses
  /\ result' = 1 - ((turn + 1) % 2) /\ turn' = turn + 1 /\ pc' = "shown"
  /\ UNCHANGED board

Put(q) ==
  /\ Turn /\ turn + 1 < 19 /\ At(q) = 0
  /\ Arrive([board.at EXCEPT ![q] = p1], p1, q)

Pass ==
  /\ Turn /\ ~Loses /\ turn + 1 >= 19 /\ pass_flag(p1)
  /\ turn' = turn + 1
  /\ UNCHANGED <<board, pc, result>>

Move(from, to) ==
  /\ Turn /\ ~Loses /\ turn + 1 >= 19 /\ ~pass_flag(p1)
  /\ At(from) = p1 /\ At(to) = 0 /\ adjacent_flag(from, to)
  /\ Arrive([board.at EXCEPT ![from] = 0, ![to] = p1], p1, to)

Next == Lose \/ Pass \/ (\E q \in Points : Put(q)) \/ (\E q, r \in Points : Move(q, r))

-----------------------------------------------------------------------------
TypeOK == /\ board.at \in [Points -> 0 .. 2] /\ turn \in Nat
          /\ \A p \in {1, 2} : Cardinality(Pieces(board.at, p)) <= 9

\* The board as it is printed: 16 lines of three points, on a rank or a file, the
\* middle one in two halves.  Two points are neighbours if nothing is between.
Lines ==
  LET half(r, side) == {q \in Points : q[1] = r /\ (r # 3 \/ (q[2] < 3 <=> side))}
      ranks == {half(r, side) : r \in 0 .. 6, side \in BOOLEAN}
  IN ranks \cup {{Swap(q) : q \in l} : l \in ranks}
Neighbours(q, r) ==
  \E l \in Lines : {q, r} \subseteq l /\ q # r
    /\ ~\E m \in l \ {q, r} : \E d \in {1, 2} :
         (q[d] < m[d] /\ m[d] < r[d]) \/ (r[d] < m[d] /\ m[d] < q[d])

\* The rule of a turn: a piece is placed on a free point or moved to a free
\* neighbour, or none of the player's has one; iff this closes a line, one piece
\* of the opponent goes, one in a closed line only if all are.
Closed(b, p, q) == \E l \in Lines : q \in l /\ Filled(b, l, p)
Taken(b, p) ==
  {q \in Pieces(b, p) : Closed(b, p, q) => \A r \in Pieces(b, p) : Closed(b, p, r)}
Captures(b, p, q) ==
  IF Closed(b, p, q)
  THEN \E gone \in Taken(b, 3 - p) : board'.at = [b EXCEPT ![gone] = 0]
  ELSE board'.at = b
TurnRule ==
  pc = "morris" /\ pc' = "morris" =>
    LET free == Pieces(board.at, 0)
        own == Pieces(board.at, p1)
    IN IF turn < 18
       THEN \E q \in free : Captures([board.at EXCEPT ![q] = p1], p1, q)
       ELSE IF \A q \in own, r \in free : ~Neighbours(q, r)
       THEN board' = board
       ELSE \E q \in own, r \in free :
              Neighbours(q, r) /\ Captures([board.at EXCEPT ![q] = 0, ![r] = p1], p1, r)

\* A player can always place, move, or pass to one who can move; a closed line
\* always finds a piece to remove.
CanMove ==
  pc = "morris" =>
    /\ turn < 18 => Pieces(board.at, 0) # {}
    /\ turn >= 18 => ~(pass_flag(1) /\ pass_flag(2))
    /\ \A p \in {1, 2} : Removable(board.at, p) # {} \/ turn < 5

\* Who has left the opponent fewer than three pieces wins.
Winners == {p \in {1, 2} : Cardinality(Pieces(board.at, 3 - p)) < 3}
=============================================================================
