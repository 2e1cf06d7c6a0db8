SPECIFICATION Spec
CONSTANTS
  Protocols = {{}, {"mifare"}, {"felica"}}
  MaxPolls = 3
  MaxQueue = 1
  MaxErrors = 1
INVARIANTS DivisionNeedsRace OneLoop LoopAlive PollStopsAfterTarget
CHECK_DEADLOCK FALSE
