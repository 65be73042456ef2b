CONSTANTS
  Segments = 1
  Faults = {}
  MaxThreads = 2
SPECIFICATION Spec
INVARIANT CancelEndsMission
CHECK_DEADLOCK FALSE
