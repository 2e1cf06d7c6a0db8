SPECIFICATION FairSpec
CONSTANTS
  Altair = FALSE
  MaxSessions = 1
  MaxRequests = 2
  MaxOffs = 1
CHECK_DEADLOCK FALSE
PROPERTIES
  SimReported
  LoopReturns
