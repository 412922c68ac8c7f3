SPECIFICATION FairSpec
CONSTANTS
  Half = 8
  Divide = 2
  Interval = 5
  PerWord = 4
  Games = {"scroll", "score", "words", "count"}
  MaxTurns = 2
  MaxTime = 20
INVARIANTS TypeOK DisplayShows
PROPERTIES HookOnTime EveryDigitLit
