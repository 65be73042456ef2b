SPECIFICATION FairSpec
CONSTANTS
  g1 = g1
  g2 = g2
  a = a
  f = f
  None = None
  Goals = {g1, g2}
  Places = {a, f}
  Open = {f}
  Confirmed = 1
  MaxCommands = 2
  MaxChanges = 2
  MaxFaults = 1
INVARIANTS MissionIsOne TracksAreReal
PROPERTIES RevokedChoiceIsNotDriven OldObstaclesAreAvoided PlanningIsAnswered
CHECK_DEADLOCK FALSE
