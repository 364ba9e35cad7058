CONSTANTS
  j1 = j1
  j2 = j2
  m1 = m1
  m2 = m2
  c1 = c1
  Jobs = {j1, j2}
  Messages = {m1, m2}
  Customers = {c1}
  Batch <- Overlapping
  From <- OneCustomer
  Inputs <- Various
  Attempts = 2
  MaxActs = 1
  MaxTroubles = 1
  Free = Free
  Orphan = Orphan
  Person = Person
SPECIFICATION FairSpec
CHECK_DEADLOCK FALSE
INVARIANTS
  HolderIsInside
  NobodyTalksOver
  AnsweredOnce
  AnsweredOnceInCalm
  HistoryIsWhole
  ConfirmedStopsAreKept
PROPERTIES
  ImplementsOnceOnly
  EveryDeliveryEnds
