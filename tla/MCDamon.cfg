SPECIFICATION FairSpec
CONSTANTS
  c1 = c1  c2 = c2
  p1 = p1  p2 = p2
  None = None  Unknown = Unknown
  Clients = {c1, c2}
  Pids = {p1, p2}
  KdamondPids = {1, 2, 3, 4, 5, 6, 7}
  MaxTracked = 2
  Scenarios <- AllScenarios
INVARIANTS TypeOK RightProcess
PROPERTIES CallsReturnUnlessJammed TrackedIsHeard
CHECK_DEADLOCK FALSE
