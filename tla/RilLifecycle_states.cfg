SPECIFICATION FairSpec
CONSTANTS
  Altair = FALSE
  MaxSessions = 2
  MaxRequests = 1
  MaxOffs = 0
CHECK_DEADLOCK FALSE
INVARIANTS
  TypeOK
  ClosedUnavailable
  RadioStateAgrees
PROPERTY
  Reopens
