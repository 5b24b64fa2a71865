SPECIFICATION LifetimesSpec
CONSTANTS
  o1 = o1
  o2 = o2
  s1 = s1
  s2 = s2
  Objects <- MCObjects
  Sessions <- MCSessions
  MaxFd = 2
  MaxHandshakes = 2
SYMMETRY Symmetry
INVARIANTS
  ConnectionsKept
  ConnectionsReachable
  FreedOnce
  NothingElseLeaks
