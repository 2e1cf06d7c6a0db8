SPECIFICATION Spec
CONSTANTS
  None = None
  RilThread = RilThread
  SocketThread = SocketThread
  Callers <- AltairCallers
  Shaker = RilThread
  GMutex = TRUE
  Retries = 2
  Apis = {"plain", "numeric", "singleline", "sms", "multiline", "cmgr"}
  UrcClasses = {"digit", "prefix", "other"}
  MaxCalls = 2
  MaxOpens = 1
  MaxShakes = 0
  MaxUrcs = 1
  MaxStrays = 0
  MaxInter = 2
INVARIANTS
  WaiterOwnsResponse
  CompleteResponse
  PduAnswersPrompt
CHECK_DEADLOCK FALSE
