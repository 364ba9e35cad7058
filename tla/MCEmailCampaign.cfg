SPECIFICATION Spec
CONSTANTS
  business = business
  staff = staff
  p1 = p1
  p2 = p2
  Campaigns = {business, staff}
  Contacts = {p1, p2}
  NoJob = NoJob
  NoRow = NoRow
  Address <- MCAddress
  ServedBy <- MCServedBy
  Cap = 1
  Attempts = 2
  MinAttempted = 1
  MaxDay = 1
  MaxEvents = 2
CHECK_DEADLOCK FALSE
INVARIANTS NotBeforeItsDay OnlyTheOneInHand NobodyForgotten
PROPERTY ImplementsOnceOnly
