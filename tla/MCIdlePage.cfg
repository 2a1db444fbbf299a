SPECIFICATION FairSpec
CONSTANTS
  c1 = c1  c2 = c2
  p1 = p1  p2 = p2
  None = None  Sampler = Sampler
  Clients = {c1, c2}
  Pids = {p1, p2}
  Pages = {1, 2, 3, 4}
  Owner <- Owners
  Region <- Regions
  Word <- Words
  Tails = {}
  MaxCount = 1
  Readahead = 1
  Scenarios <- AllScenarios
INVARIANTS RemovedStaysAway
PROPERTIES LostOnlyMeanwhile CallsReturnUnlessJammed
CHECK_DEADLOCK FALSE
