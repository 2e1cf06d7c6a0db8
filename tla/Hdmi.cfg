SPECIFICATION Spec
CONSTANTS
  Modes = {"vga", "hd"}
  DefaultMode = "hd"
  MaxPlugs = 3
  MaxSuspends = 2
INVARIANT ClocksBalanced
PROPERTY FollowsCable
CHECK_DEADLOCK FALSE
