SPECIFICATION LiveSpec
CONSTANTS
  k1 = k1
  k2 = k2
  r1 = r1
  r2 = r2
  Conns = {k1, k2}
  Requests = {r1, r2}
  NoConn = NoConn
  MaxRestarts = 1
CHECK_DEADLOCK FALSE
INVARIANTS
  AtMostOnce
PROPERTIES
  CallReturns
