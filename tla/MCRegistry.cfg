CONSTANTS
  s1 = s1
  s2 = s2
  Services = {s1, s2}
  MaxLeases = 3
SPECIFICATION FairSpec
PROPERTY NothingStaysBehind
CHECK_DEADLOCK FALSE
