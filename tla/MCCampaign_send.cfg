CONSTANTS
  Recipients = {r1, r2}
  MaxBatches = 1
  MaxSends = 1
  Attempts = 2
  Concurrency = 2
  MinAttempted = 1
  Origins = {"absent", "draft", "scheduled"}
  MaxCrashes = 1
  MaxFaults = 1
  MaxOptOuts = 1
SPECIFICATION Spec
SYMMETRY Symmetry
CHECK_DEADLOCK FALSE
INVARIANTS
  CompletedIsSettled
  StopOverrunBounded
  OneAfterOptOut
PROPERTIES
  ImplementsOnceOnly
