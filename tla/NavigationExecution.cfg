CONSTANTS
  Segments = 2
  Faults = {"localization", "crash"}
  MaxThreads = 2
SPECIFICATION Spec
INVARIANTS StoppedFollowsNothing DrivingIsRevocable
PROPERTIES SegmentsAreDriven PlanningIsLeft
CHECK_DEADLOCK FALSE
