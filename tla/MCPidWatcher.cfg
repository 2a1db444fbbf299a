SPECIFICATION FairSpec
CONSTANTS
  c1 = c1
  l1 = l1  l2 = l2
  p1 = p1  p2 = p2
  None = None
  Clients = {c1}
  Loops = {l1}
  Pids = {p1, p2}
  Staying = {p1}
  Ops = {"listen", "start", "stop", "poll"}
  Configs <- AllConfigs
INVARIANTS KnownUpstream
PROPERTIES ListenerMissesNothing CallsReturnUnlessJammed StayingIsTracked
CHECK_DEADLOCK FALSE
