SPECIFICATION Spec
CONSTANTS
  LogWidth = 2
  MemWords = 2
  Regs = {0, 1, 2, 3}
  Mtvec = 13
  Words <- DeviceWords
  MaxIrq = 4
  Stepping = {3}
INVARIANTS StepOverCalls
CHECK_DEADLOCK FALSE
