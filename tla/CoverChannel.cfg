CONSTANTS
  PrefixLen = 2
  CellSize = 3
  OutCap = 2
  WriterCap = 1
  PipeCap = 1
  InCap = 1
  ReadyCap = 1
  MaxLen = 2
  MaxMsgs = 3
SPECIFICATION FairSpec
INVARIANTS TypeOK StreamIsWhole
PROPERTIES ImplementsLossyFifo EveryMessageArrives
CHECK_DEADLOCK FALSE
