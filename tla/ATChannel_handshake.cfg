SPECIFICATION FairSpec
CONSTANTS
  None = None
  RilThread = RilThread
  SocketThread = SocketThread
  Callers <- RefCallers
  Shaker = RilThread
  GMutex = FALSE
  Retries = 2
  Apis = {"plain", "multiline"}
  UrcClasses = {"other"}
  MaxCalls = 2
  MaxOpens = 1
  MaxShakes = 1
  MaxUrcs = 0
  MaxStrays = 1
  MaxInter = 1
INVARIANTS
  ClosedWakesAll
  AnswerLag
PROPERTIES
  CommandsReturn
  HangupReported
CHECK_DEADLOCK FALSE
