SPECIFICATION FairSpec
CONSTANTS
  Uarts = {0}
  BufSize = 2
  UBSize = 3
  EdgeDetect = TRUE
  Workloads <- BothWays
  None = None
PROPERTY GetchReturns
