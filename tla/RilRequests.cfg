SPECIFICATION Spec
CONSTANTS
  PppRetry = 2
  RepollMax = 2
  MaxClosed = 2
  Retransmit = 2
  MaxRounds = 3
INVARIANTS CompletedOnce ResponsesOwned ModemTracked
CHECK_DEADLOCK FALSE
