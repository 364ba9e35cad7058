CONSTANTS
  Recipients = {r1, r2}
  MaxBatches = 2
  MaxSends = 1
  Attempts = 2
  Concurrency = 2
  MinAttempted = 1
  Origins = {"absent"}
  MaxCrashes = 0
  MaxFaults = 0
  MaxOptOuts = 0
SPECIFICATION Spec
SYMMETRY Symmetry
CHECK_DEADLOCK FALSE
PROPERTIES
  FinishNeverUnpauses
