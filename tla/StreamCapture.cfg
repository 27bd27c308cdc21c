SPECIFICATION FairSpec
CONSTANTS
  MaxEvents = 4
  ChannelCapacity = 2
  OpenMayFail = TRUE
  WriteMayFail = TRUE
INVARIANT
  TypeOK
  SummaryMatchesFile
  EveryEventAccounted
  SummaryLossBounded
  UntruncatedIsComplete
  LinesInOrder
PROPERTY
  FinishReturnsWithFiles
CHECK_DEADLOCK FALSE
