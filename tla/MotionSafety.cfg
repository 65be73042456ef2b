SPECIFICATION SafetyFairSpec
CONSTANTS
  front = front
  left = left
  Travel <- OneTravel
  Turns <- OneTurn
  Commands <- Velocities
  Masks <- MaskValues
  Hard = {estop}
  Soft = {range}
  Required = {estop}
  CommandLimit = 0
  BypassLimit = 1
  ScanLimit = 1
  SourceLimit = 1
  Hold = 2
CHECK_DEADLOCK FALSE
INVARIANTS ClearBeforeMotion
PROPERTIES InterlockReleases BypassLapses
