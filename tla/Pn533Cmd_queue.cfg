SPECIFICATION FairSpec
CONSTANTS
  Acked = TRUE
  MaxCommands = 4
  MaxChunks = 3
  MaxTxErrors = 1
  MaxAborts = 1
CHECK_DEADLOCK FALSE
INVARIANTS
  OneDriver
  InOrder
  ChainUnbroken
  WholeResponse
PROPERTY
  SyncReturns
