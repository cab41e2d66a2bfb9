CONSTANTS
  Transfer = {f, g}
  Stray = {g}
  Sizes = {0, 1}
  MaxUnprompted = 4
  Long = f
  LongChunks = 1
  Chunks <- MCChunks
  MaxInFlight = 2
  OutCap = 1
  FrontCap = 0
  StageCap = 1
  DecisionCap = 2
SPECIFICATION FairSpec
INVARIANTS NothingWithoutConsent
PROPERTIES SentIsSaved SlotsAreFreed
CHECK_DEADLOCK FALSE
