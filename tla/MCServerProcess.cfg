CONSTANTS
  NThreads = 3
  MaxSignals = 2
SPECIFICATION FairSpec
INVARIANTS ThreadHasContext SignalWhileServingIsSafe
PROPERTY SigintEndsServer
CHECK_DEADLOCK FALSE
