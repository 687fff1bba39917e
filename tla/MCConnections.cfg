CONSTANTS
  k1 = k1
  k2 = k2
  Conns = {k1, k2}
  BufCount = 3
  FileSlots = 1
  MaxQueue = 2
SPECIFICATION FairSpec
INVARIANTS BufferOwnership SlotOwnership OpsStayHome NoLeak
PROPERTY ClosedAfterEitherEnds
CHECK_DEADLOCK FALSE
