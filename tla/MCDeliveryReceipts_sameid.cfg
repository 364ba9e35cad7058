CONSTANTS
  r = r
  c = c
  t = t
  e = e
  d1 = d1
  d2 = d2
  Messages = {r}
  Kind <- OneReply
  Deliveries = {d1, d2}
  Contents <- Ladder
  MaxJobs = 2
  Attempts = 2
  MaxTroubles = 1
SPECIFICATION Spec
CHECK_DEADLOCK FALSE
INVARIANTS
  OnlyRepeatsAreDropped
