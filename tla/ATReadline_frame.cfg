SPECIFICATION Spec
CONSTANTS
  MaxResponse = 4
  Alphabet <- Letters
  MaxStream = 8
  MaxSessions = 2
CHECK_DEADLOCK FALSE
INVARIANTS
  CursorInData
  EachByteOnce
  Framed
  NoLineHeldBack
