SPECIFICATION StreamSpec
CONSTANTS
  Script <- MCScript
  Alien <- MCAlien
  MaxMsgSize = 7
  NumOutBufs = 2
  PartialWrites = FALSE
  MaxKAs = 1
  MaxFaults = 2
INVARIANTS HandedUpIsSent InputFits 
CHECK_DEADLOCK FALSE
