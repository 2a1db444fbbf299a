SPECIFICATION FairSpec
CONSTANTS
  p1 = p1  p2 = p2
  l1 = l1
  None = None
  Pids = {p1, p2}
  Pages <- ThreePages
  Word <- OneWord
  Files <- AllPages
  Loops = {l1}
  Modes = {FALSE, TRUE}
INVARIANTS KeptOrHandedOver StopReachesWaiters
PROPERTIES OnlyNeighboursMaskAccess IdleIsDemoted
CHECK_DEADLOCK FALSE
