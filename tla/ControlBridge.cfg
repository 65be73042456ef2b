SPECIFICATION Spec
CONSTANTS
  ahead = ahead
  back = back
  Directions = {ahead}
  Choices = {TRUE, FALSE}
  Joystick = TRUE
  Still = Still
  NoCommand = NoCommand
  StopRepeats = 1
  QueueLimit = 2
  Ttl = 0
  Watchdog = 0
  ObstacleWatchdog = 0
  Dwell = 0
  MaxBoots = 2
  MaxSeq = 2
  MaxStops = 1
CHECK_DEADLOCK FALSE
INVARIANTS
  LatchedMeansStill
  ObstaclesStopWeb
  MotionIsRecent
PROPERTIES
  CommandEndsInZero
