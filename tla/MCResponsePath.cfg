CONSTANTS
  r1 = r1
  r2 = r2
  r3 = r3
  Requests = {r1, r2, r3}
  Size <- MCSize
  BufSize = 2
SPECIFICATION FairSpec
INVARIANTS NoLostWakeup StreamInOrder DrainedOnExit
PROPERTIES OpenPushIsSent CloseEndsWriter
CHECK_DEADLOCK FALSE
