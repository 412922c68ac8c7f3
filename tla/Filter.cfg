SPECIFICATION FairSpec
CONSTANTS
  MC = 2
  CountMod = 2
  None = None
  FH = 3
  FW = 3
  MaxWidth = 4
  PIPE_COUNT = 0
  Builds <- MCBuilds
  Sizes <- MCSizes
  Ops <- MCOps
  MaxOps = 3
  MaxIn = 11
INVARIANTS TypeOK StreamIsFiltered
PROPERTIES BurstsWhole EverythingEnds
