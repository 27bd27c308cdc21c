SPECIFICATION FairSpec
CONSTANTS
  MaxEvents = 1
  ChannelCapacity = 1
  OpenMayFail = TRUE
  WriteMayFail = FALSE
PROPERTY
  FinishReturns
CHECK_DEADLOCK FALSE
