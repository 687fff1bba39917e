CONSTANTS
  NThreads = 2
  Count = 2
  HeaderSize = 2
  PayloadLen = 2
  Micros = {1, 2, 4}
SPECIFICATION FairSpec
INVARIANTS InStep AnswerIsDue ReportIsComplete PercentilesAreRanks
PROPERTY MainEnds
CHECK_DEADLOCK FALSE
