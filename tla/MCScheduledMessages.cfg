CONSTANTS
  Messages = {m1, m2, m3}
  Sweeps = {s1, s2}
  Free = Free
  Limit = 2
  MaxCrashes = 1
SPECIFICATION FairSpec
CHECK_DEADLOCK FALSE
INVARIANTS
  ThreadIsTrue
PROPERTIES
  ImplementsOnceOnly
  DueIsDecided
