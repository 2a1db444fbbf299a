SPECIFICATION Spec
CONSTANTS
  t1 = t1  t2 = t2
  Cold = Cold
  Pids = {1, 2}
  AllPages = {0, 1, 2, 3}
  Trackers <- TwoTrackers
  Regions <- Apart
  MaxCount = 4
  MaxTime = 1
  HeatMax = 3
  Cooled <- Halved
INVARIANTS TypeOK
PROPERTIES SquashingKeepsAccesses ImplementsPageHeat
