SPECIFICATION Spec
CONSTANTS
  Base = 4
  WordBytes = 2
  MemBytes = 14
  Files <- MCFiles
  Main <- MCMain
  PitsPerSide = 3
  Stones = 2
  Tables = {"race", "short", "stores"}
  Openings <- MCOpenings
  question_size = 2
  Digits = 3
  max_turn = 2
  Bits = 3
  BitTurns = 2
  Cards = {1, 13}
  Rounds = 2
  Keys = 4
  ROUNDS = 2
  Rolls <- MCRolls
  BufSize = 4
  Variants = {"games", "connection", "program2", "addprogram"}
  MaxTyped = 4
  LineBufSize = 2
  Arrivals = 3
  RingSize = 2
INVARIANTS TypeOK LoadedWhole NobodyStuck ResultIsRight
PROPERTY RulesKept
CHECK_DEADLOCK FALSE
