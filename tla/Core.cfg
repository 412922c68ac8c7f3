SPECIFICATION FairSpec
CONSTANTS
  LogWidth = 2
  MemWords = 2
  Regs = {0, 1, 2, 3}
  Mtvec = 13
  Words <- DeviceWords
  MaxIrq = 4
  Stepping = {1, 2, 4}
INVARIANTS TypeOK StepsExactly
PROPERTIES ImplementsIss MulIsProduct WaitEnds
CHECK_DEADLOCK FALSE
