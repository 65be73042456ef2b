SPECIFICATION FairSpec
CONSTANTS
  m1 = m1
  m2 = m2
  c1 = c1
  c2 = c2
  c3 = c3
  Maps = {m1}
  Calls = {c1, c2}
  NoMap = NoMap
  NoJob = NoJob
  MaxFaults = 2
CHECK_DEADLOCK FALSE
INVARIANTS DeletionIsTrue GoneIsNotServed
PROPERTIES DeletedLeaves
