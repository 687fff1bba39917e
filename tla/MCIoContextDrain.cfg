CONSTANTS
  c1 = c1
  c2 = c2
  Coros = {c1, c2}
  Acceptors = {c1}
  Heedless = {}
  Entries = 3
  Null = Null
SPECIFICATION AcceptingSpec
INVARIANT DrainReleasesAll
