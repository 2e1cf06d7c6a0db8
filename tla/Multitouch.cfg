SPECIFICATION Spec
CONSTANTS
  maxcontacts = 2
  Ids = {0, 1, 2}
  PacketSizes = {1, 2, 4}
INVARIANT ReportMatches
PROPERTY TracksFingers
CHECK_DEADLOCK TRUE
