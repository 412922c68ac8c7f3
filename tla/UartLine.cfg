SPECIFICATION FairSpec
CONSTANTS
  BufSize = 2
  Commands <- Settings
  SlowPeriod = 3
  Payload <- TwoWords
  MaxWords = 3
INVARIANTS TypeOK ErrorMeansFull ParityCatches
PROPERTIES ImplementsWordLine EverythingArrives
