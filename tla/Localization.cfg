SPECIFICATION LocalizationSpec
CONSTANTS
  MaxLoads = 2
  MaxCalls = 2
  MaxGoals = 1
  MaxFaults = 1
  MaxTurns = 1
  FaultKinds <- EveryFault
INVARIANTS EvidenceFitsMap OneMotionOwner
PROPERTY ReadyIsUnique
CHECK_DEADLOCK FALSE
