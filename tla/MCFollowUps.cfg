CONSTANTS
  c = c
  t1 = t1
  t2 = t2
  p = p
  q = q
  write = write
  give = give
  s1 = s1
  s2 = s2
  Conversations = {c}
  Tasks = {t1, t2}
  People = {p, q}
  Nobody = Nobody
  Rules = {write, give}
  Action <- ActionOf
  Assignee <- AssigneeOf
  Turn <- TurnOfPair
  WaitingAtStart = {c}
  OpenAtStart = {t1}
  Sweeps = {s1, s2}
  NoSweep = NoSweep
  Loud <- LoudOnes
  Limit = 1
  MaxEvents = 2
  MaxTroubles = 1
SPECIFICATION FairSpec
CHECK_DEADLOCK FALSE
INVARIANTS
  NeverActsTwice
  ClaimsAreKept
  AcceptanceIsOfThisTime
  ToldOnce
PROPERTIES
  FindingsFollowFacts
  StandingFindingsAreActedOn
