CONSTANTS
  s1 = s1
  s2 = s2
  Services = {s1, s2}
  MaxLeases = 2
SPECIFICATION FairSpec
PROPERTY RegisteredIsKept
CHECK_DEADLOCK FALSE
