SPECIFICATION ServerFairSpec
CONSTANTS
  Callers = {"c1"}
  Peers = {"p1"}
  Asks <- MCAsks
  Pipeline <- MCPipeline
  Handlers <- MCHandlers
  MaxFaults = 1
INVARIANTS OwnParameters DoneOnce
PROPERTIES CauseIsExit ServeEnds
CHECK_DEADLOCK FALSE
