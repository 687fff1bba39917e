CONSTANTS
  Messages <- MCMessages
  MaxMessages = 2
  Noise = {7}
  BufSize = 25
  DynamicSize = 2
  DynamicRoom = 4
SPECIFICATION FairSpec
INVARIANTS BufferHoldsStream ReadTargetsFreeSpace DispatchedAsSent NothingWholeLeft ReadHasRoom
PROPERTY EveryMessageParsed
CHECK_DEADLOCK FALSE
