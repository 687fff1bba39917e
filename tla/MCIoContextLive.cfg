CONSTANTS
  c1 = c1
  c2 = c2
  Coros = {c1, c2}
  Acceptors = {c1}
  Heedless = {c2}
  Entries = 1
  Null = Null
SPECIFICATION FairSpec
PROPERTIES ImplementsAsyncIo CompletionIsDelivered StopLeavesMainLoop DrainEndsUnlessFed
