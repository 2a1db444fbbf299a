SPECIFICATION FairSpec
CONSTANTS
  p1 = p1  p2 = p2  p3 = p3
  g1 = g1  g2 = g2  g3 = g3
  None = None  NoTask = NoTask  NoRound = NoRound
  Nodes = {0, 1, 2, 3}
  Pids = {p1, p2, p3}
  Cgroups = {g1, g2, g3}
  Group <- Groups
  Segments = {1, 2}
  Owner <- Owners
  Length <- Lengths
  OomScore <- Scores
  Total = 12
  StartFree = 2
  StopFree = 3
  MinMove = 2
  Chunk = 1
  ChanCap = 2
  Scenarios <- AllScenarios
INVARIANTS TypeOK
PROPERTIES RelievesNoFurther PagesComeToRest NoNeglect
CHECK_DEADLOCK FALSE
