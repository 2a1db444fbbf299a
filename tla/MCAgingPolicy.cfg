SPECIFICATION ScenarioSpec
CONSTANTS
  SwapNode = SwapNode  IdleNode = IdleNode  ActiveNode = ActiveNode
  Target = SwapNode
  Policies = {"age", "ratio"}
  Pids = {1}
  Ranges <- AllRanges
  MaxCount = 1
  Deltas = {1, 3}
  MaxAge = 4
  Interval = 1
  LastRoundsBits = 64
  SwapOut = 3
  IdleDuration = 2
  ActiveDuration = 1
  Percent = 50
  MinPages = 1
INVARIANTS NoTugOfWar
PROPERTIES  GoneLeavesTheBook StopReturnsUnlessCaught
CHECK_DEADLOCK FALSE
