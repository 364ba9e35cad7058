CONSTANTS
  Recipients = {r1, r2}
  MaxBatches = 2
  MaxSends = 1
  Attempts = 2
  Concurrency = 1
  MinAttempted = 1
  Origins = {"absent", "scheduled"}
  MaxCrashes = 0
  MaxFaults = 0
  MaxOptOuts = 0
SPECIFICATION FairSpec
CHECK_DEADLOCK FALSE
PROPERTIES
  EveryoneDecided
