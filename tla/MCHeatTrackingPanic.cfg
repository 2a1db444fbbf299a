SPECIFICATION Spec
CONSTANTS
  t1 = t1  t2 = t2
  Cold = Cold
  Pids = {1}
  AllPages = {0, 1, 2, 3}
  Trackers <- OneTracker
  Regions <- Changing
  MaxCount = 4
  MaxTime = 1
  HeatMax = 3
  Cooled <- Halved
INVARIANTS FlatteningKeepsOrder
CHECK_DEADLOCK FALSE
