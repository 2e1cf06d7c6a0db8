SPECIFICATION Pn544Spec
CONSTANTS
  Threads = {"t1", "t2"}
  Files = {"f1", "f2"}
  MsgMax = 4
  Overhead = 2
  FwHeader = 2
  BufLen = 4
  MaxUnread = 2
  MaxFails = 1
INVARIANTS NoMessageStranded RegulatorsBalanced FramesFit
PROPERTY CallsProceed
CHECK_DEADLOCK FALSE
