CONSTANTS
  a = a
  b = b
  Branches = {a, b}
  MaxDepth = 2
  MaxSteps = 5
  MaxTroubles = 2
SPECIFICATION FairSpec
INVARIANTS
  DoneMeansSaved
  BrokenByAFailure
  RunsAsItsBusiness
PROPERTIES
  ImplementsAllOrNothing
  EveryWorkEnds
CHECK_DEADLOCK FALSE
