SPECIFICATION FairSpec
CONSTANTS
  r1 = r1
  s1 = s1
  s2 = s2
  Robots = {r1}
  Sessions = {s1, s2}
  NoSession = NoSession
  NoRobot = NoRobot
  Transient = {r1}
  Timed = TRUE
  MaxRestarts = 2
VIEW LockView
INVARIANTS
  ActiveOwnsEntry
  RowsFollowHub
PROPERTIES
  ImplementsRobotLock
  PersistedEndIsFinal
  NoAbandonedLock
