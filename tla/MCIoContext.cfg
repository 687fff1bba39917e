CONSTANTS
  c1 = c1
  c2 = c2
  c3 = c3
  Coros = {c1, c2, c3}
  Acceptors = {c1}
  Heedless = {c2, c3}
  Entries = 2
  Null = Null
SPECIFICATION Spec
SYMMETRY Symmetry
INVARIANTS RequestAccounting NoStrayResume
PROPERTY AllocOnlyWhenAllInFlight
