SPECIFICATION ScenarioSpec
CONSTANTS
  c1 = c1  c2 = c2
  p1 = p1  p2 = p2
  s1 = s1  s2 = s2
  None = None
  Clients = {c1, c2}
  Pids = {p1, p2}
  Ops <- WatcherAndPolicy
  Samplers = {s1, s2}
  RegionCount <- TwoRegions
INVARIANTS OneSampler
PROPERTIES CallsReturnUnlessJammed TrackedIsCounted
CHECK_DEADLOCK FALSE
