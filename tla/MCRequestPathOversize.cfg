CONSTANTS
  Messages <- MCRequest
  MaxMessages = 1
  Noise = {}
  BufSize = 13
  DynamicSize = 2
  DynamicRoom = 4
SPECIFICATION FairSpec
INVARIANT EofMeansPeerClosed
CHECK_DEADLOCK FALSE
