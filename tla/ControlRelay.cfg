SPECIFICATION MCSpec
CONSTANTS
  s1 = s1
  s2 = s2
  Sessions = {s1, s2}
  c1 = c1
  c2 = c2
  Conns = {c1, c2}
  t1 = t1
  Tabs = {t1}
  TabOf <- OneTab
  NoConn = NoConn
  MaxLinks = 1
INVARIANTS
  StopIsLastWord
  MotionHasOwner
PROPERTIES
  EndsAreFinished
  HandlersLeave
CHECK_DEADLOCK FALSE
