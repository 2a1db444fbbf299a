SPECIFICATION FairSpec
CONSTANTS
  c1 = c1  c2 = c2
  t1 = t1  t2 = t2
  h1 = h1  h2 = h2
  None = None
  Clients = {c1, c2}
  Ops <- NoStopOps
  Tasks = {t1, t2}
  PageCount <- TwoSizes
  Rates = {0, 2}
  DefaultRate = 1
  ChanCap = 1
  Handlers = {h1}
  WaitIds = {1}
  WaitSets <- PromptWaits
INVARIANTS QuietStatusIsTrue
PROPERTIES EveryTaskEnds WaitIsAnswered
CHECK_DEADLOCK FALSE
