------------------------------ MODULE Programs ------------------------------
(***************************************************************************)
(* A board from its boot loader on: the program that was loaded (Loading)  *)
(* is the games (main.c: a menu, one game, its result, a key) or one of    *)
(* the smaller programs beside it.  The games share the variables board,   *)
(* turn, pc and result.  On the simulators the same programs start without *)
(* the boot loader, from what the host has installed.                      *)
(***************************************************************************)
EXTENDS Integers, Sequences, FiniteSets

CONSTANTS
  Base, WordBytes, MemBytes, Files, Main,                    \* Loading; Main is the games' file
  PitsPerSide, Stones, Tables,                               \* Mancala
  Openings,                                                  \* Morris
  question_size, Digits, max_turn, Bits, BitTurns,           \* HitAndBlow
  Cards, Rounds, Keys,                                       \* Speed
  ROUNDS, Rolls(_),                                            \* Yacht
  BufSize, Variants, MaxTyped,                               \* LineInput
  LineBufSize, Arrivals,                                     \* Relay, Echo
  RingSize                                                   \* Echo

ASSUME ProgramsAssumption ==
  /\ Base \in Nat \ {0, 1} /\ WordBytes \in Nat \ {0} /\ MemBytes % WordBytes = 0
  /\ Main \in Files
  /\ {PitsPerSide, Stones, question_size, Bits, Rounds, ROUNDS} \subseteq Nat \ {0}
  /\ {max_turn, BitTurns, Keys, MaxTyped, Arrivals} \subseteq Nat
  /\ Tables \subseteq {"race", "short", "stores"} /\ Digits >= question_size
  /\ Cards \subseteq 1 .. 13 /\ \A t \in 1 .. 2 * ROUNDS : Rolls(t) \subseteq [1 .. 5 -> 1 .. 6]
  /\ Variants \subseteq {"games", "connection", "program2", "addprogram"}
  /\ BufSize > 2 /\ LineBufSize > 1 /\ RingSize > 0

VARIABLES
  file, order, flag, sim, dump, bin, next, hit, boot, entry_point, sections_left,
  addr, words_left, wordcount, checksum, r_wordcount, mem,
  program, board, turn, pc, result,
  told    \* what main has announced

loadvars == <<file, order, flag, sim, dump, bin, next, hit, boot, entry_point,
              sections_left, addr, words_left, wordcount, checksum, r_wordcount, mem>>
gamevars == <<board, turn, pc, result>>
vars == <<loadvars, program, gamevars, told>>

Load == INSTANCE Loading
Mancala == INSTANCE Mancala
Morris == INSTANCE Morris
Blow == INSTANCE HitAndBlow
Speed == INSTANCE Speed
Yacht == INSTANCE Yacht
Line == INSTANCE LineInput
Relay == INSTANCE Relay
Echo == INSTANCE Echo

Init ==
  /\ Load!Init
  /\ program = "none" /\ board = <<>> /\ turn = 0 /\ pc = "off" /\ result = "none"
  /\ told = "none"

\* The host and the boot loader.
Boot == Load!Next /\ UNCHANGED <<program, gamevars, told>>

\* entry.S calls main.  What the other files hold is not modelled.
Enter ==
  /\ boot = "run" /\ file = Main /\ hit = 0 /\ pc = "off"
  /\ \/ program' = "main" /\ Line!StartMenu
     \/ program' = "mancala" /\ \E t \in Tables \ {"race"} : Mancala!Start(t)
     \/ program' = "line" /\ Line!Start
     \/ program' = "relay" /\ Relay!Start
     \/ program' = "echo" /\ (Echo!Start \/ Echo!StartSum)
  /\ UNCHANGED <<loadvars, result, told>>

\* The game whose number the menu has read.
Select ==
  /\ program = "main" /\ pc = "chosen"
  /\ CASE board.store[0] = "1" -> program' = "mancala" /\ Mancala!Start("race")
       [] board.store[0] = "2" -> program' = "yacht" /\ Yacht!Start
       [] board.store[0] = "3" -> program' = "speed" /\ Speed!Start
       [] board.store[0] = "4" -> program' = "morris" /\ Morris!Start
       [] board.store[0] = "5" -> program' = "blow" /\ Blow!StartBlow
       [] board.store[0] = "6" -> program' = "bits" /\ Blow!StartBits
  /\ UNCHANGED <<loadvars, result, told>>

Play ==
  /\ \/ program = "main" /\ Line!Next
     \/ program = "mancala" /\ Mancala!Next
     \/ program = "yacht" /\ Yacht!Next
     \/ program = "speed" /\ Speed!Next
     \/ program = "morris" /\ Morris!Next
     \/ program \in {"blow", "bits"} /\ Blow!Next
     \/ program = "line" /\ Line!Next
     \/ program = "relay" /\ Relay!Next
     \/ program = "echo" /\ Echo!Next
  /\ UNCHANGED <<loadvars, program, told>>

\* main tells both terminals what the game has returned; of the bits it shows the turn.
FromMenu == program \in {"yacht", "speed", "morris", "blow", "bits"}
            \/ (program = "mancala" /\ board.table = "race")
Announcement ==
  CASE program = "bits" -> IF result > BitTurns THEN "turn over" ELSE "turn"
    [] program # "bits" /\ result = 1 -> "Winner is 1."
    [] program # "bits" /\ result = 2 -> "Winner is 2."
    [] program # "bits" /\ result = 0 -> "draw."
    [] OTHER -> "error."
Announce ==
  /\ pc = "shown" /\ FromMenu
  /\ pc' = "told" /\ told' = Announcement
  /\ UNCHANGED <<loadvars, program, board, turn, result>>

\* A key ends main; the other programs just return.
Finish ==
  /\ pc = "told" \/ (pc = "shown" /\ ~FromMenu)
  /\ pc' = "ended" /\ UNCHANGED <<loadvars, program, board, turn, result, told>>

Next == Boot \/ Enter \/ Select \/ Play \/ Announce \/ Finish
Spec == Init /\ [][Next]_vars

-----------------------------------------------------------------------------
\* Type correctness.
TypeOK ==
  /\ pc = "off" => Load!TypeOK
  /\ CASE program = "mancala" -> Mancala!TypeOK
       [] program = "yacht" -> Yacht!TypeOK
       [] program = "speed" -> Speed!TypeOK
       [] program = "morris" -> Morris!TypeOK
       [] program \in {"blow", "bits"} -> Blow!TypeOK
       [] program \in {"main", "line"} -> Line!TypeOK
       [] program = "relay" -> Relay!TypeOK
       [] program = "echo" -> Echo!TypeOK
       [] OTHER -> board = <<>>
  /\ program \in {"none", "main", "mancala", "yacht", "speed", "morris", "blow", "bits", "line",
                 "relay", "echo"}
  /\ told \in {"none", "Winner is 1.", "Winner is 2.", "draw.", "error.", "turn over", "turn"}

\* The three memories a program runs from agree byte by byte: the simulator's, the dump
\* for the RTL and, once the boot loader has jumped, the board's memory, except for the
\* sections that begin in the middle of a memory word; of a file that is not read to its
\* end what was installed is what had been read.  A transfer with one disturbed word is
\* not run, unless that word was a number or a size of sections.
LoadedWhole == pc = "off" => Load!LoadedWhole

\* Every turn of a game keeps the rules of the game.  Mancala: the stones go round
\* one by one, past the opponent's goal, and a last stone in one's own goal gives
\* another turn.  Nine men's morris: a piece goes to a free neighbour, a closed line
\* takes a piece of the opponent.  Yacht: the points of the role on the dice shown, the
\* rest of a line that was too long being the next choice, and what recv_choice makes of
\* the count of newlines.  Speed: one player scores in a round, by a key typed in it, not
\* always the first one who typed the card.  A line read is the line typed and edited,
\* the menu starts the game it names, a calculator prints its numbers and results.
RulesKept ==
  [][CASE program = "mancala" -> Mancala!TurnRule
       [] program = "morris" -> Morris!TurnRule
       [] program = "yacht" -> Yacht!TurnRule
       [] program = "speed" -> Speed!TurnRule
       [] program \in {"main", "line"} -> Line!TurnRule /\ Line!SumRule
       [] OTHER -> TRUE]_vars

\* Nobody is asked for a move without having one; a closed line always finds a piece
\* to take; a line being read always has room for the character that ends it, except
\* in the menu of main.c; and where the echo goes through a ring (test_rv32_4.c; not in
\* test_rv32_3.c) that of one terminal never keeps the other one waiting.
NobodyStuck ==
  CASE program = "mancala" -> Mancala!CanChoose
    [] program = "morris" -> Morris!CanMove
    [] program \in {"main", "line"} -> Line!CanRead
    [] program = "echo" -> Echo!NeverWaits
    [] OTHER -> TRUE

\* Who has won by the rules of the game, the last board before everybody.
Winners ==
  CASE program = "mancala" -> Mancala!Winners
    [] program = "yacht" -> Yacht!Winners
    [] program = "speed" -> Speed!Winners
    [] program = "morris" -> Morris!Winners
    [] program = "blow" -> Blow!Winners

\* A winner who is announced has won, alone; a draw is announced if nobody has won, and
\* in nine men's morris when player 2 has: Nine_Mens_Morris then returns 0 (main.c:746),
\* which main takes for a draw (96).
AnnouncedRight ==
  /\ told = "Winner is 1." => Winners = {1}
  /\ told = "Winner is 2." => Winners = {2}
  /\ told = "draw." => Winners = {} \/ (program = "morris" /\ Winners = {2})
  /\ told # "error."

\* What the players are told: the board as each of them sees it, the counts of hits and
\* blows of every guess, the lines relayed and echoed, the sum of the first test
\* programs, and the winner main announces at the end, player 2's victory in nine men's
\* morris excepted, which is announced as a draw.
ResultIsRight ==
  /\ AnnouncedRight
  /\ CASE program = "mancala" -> Mancala!BoardSeen /\ Mancala!Won
       [] program = "yacht" -> Yacht!Won
       [] program = "speed" -> Speed!Won
       [] program = "blow" -> Blow!BlowRule /\ Blow!BlowWon
       [] program = "bits" -> Blow!BitsRule /\ Blow!BitsWon
       [] program = "relay" -> Relay!LinesRelayed /\ Relay!Ended
       [] program = "echo" -> Echo!LinesEchoed /\ Echo!SumSeen
       [] OTHER -> TRUE
=============================================================================
