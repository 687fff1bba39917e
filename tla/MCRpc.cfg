CONSTANTS
  Count = 4
  Window = 3
  Size <- MCSize
  BufSize = 2
SPECIFICATION RpcFairSpec
INVARIANTS ResponseFindsEntry WindowHolds CompleteWhenDone QueueWithinWindow NobodyWaitsInVain
PROPERTIES ImplementsMuxClient EndsOrStuckOnFullWindow
CHECK_DEADLOCK FALSE
