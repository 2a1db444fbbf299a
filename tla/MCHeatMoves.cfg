SPECIFICATION FairSpec
CONSTANTS
  p1 = p1  p2 = p2
  Pids = {p1, p2}
  AllPages = {1, 2, 3}
  Nodes = {0, 1}
  Swap = Swap
  Absent = Absent
  Undefined = Undefined
  NoTask = NoTask
  MaxUsed = 5
  Scenarios <- AllScenarios
INVARIANTS TypeOK
PROPERTIES NotesHaveAReason AccountsFollowTheBook MoverComesToRest ServedUnlessClassIsFull
