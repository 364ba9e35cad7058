CONSTANTS
  r = r
  c = c
  t = t
  e = e
  d1 = d1
  d2 = d2
  Messages = {r, c, t, e}
  Kind <- KindsOf
  Deliveries = {d1, d2}
  Contents <- Various
  MaxJobs = 3
  Attempts = 2
  MaxTroubles = 1
SPECIFICATION FairSpec
CHECK_DEADLOCK FALSE
INVARIANTS
  ReceiptsAddUp
  TestsAddUp
  EveryReportAccounted
  EchoesAreMirrored
PROPERTIES
  EveryJobEnds
