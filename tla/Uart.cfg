SPECIFICATION FairSpec
CONSTANTS
  Uarts = {0}
  BufSize = 2
  UBSize = 3
  EdgeDetect = TRUE
  Workloads <- EachWayAndBoth
  None = None
INVARIANTS TypeOK RxInOrder TxInOrder
PROPERTIES GetchReturnsOneWay PutIsSent
