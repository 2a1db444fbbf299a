SPECIFICATION Spec
CONSTANTS
  c1 = c1  c2 = c2
  t1 = t1  t2 = t2
  h1 = h1  h2 = h2
  None = None
  Clients = {c1, c2}
  Ops <- AllOps
  Tasks = {t1, t2}
  PageCount <- TwoSizes
  Rates = {0}
  DefaultRate = 1
  ChanCap = 2
  Handlers = {h1, h2}
  WaitIds = {1}
  WaitSets <- PromptWaits
SYMMETRY HandlerSymmetry
INVARIANTS HandlerBalance TaskAccounting
PROPERTIES KeepsTaskPromise
CHECK_DEADLOCK FALSE
