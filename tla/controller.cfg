SPECIFICATION CtrlFairSpec
CONSTANTS
  InitMode = FALSE
  Env = {"cancel", "consume"}
  Requests = {"stop", "signal", "emptySpec"}
  EventCap <- MCEventCap
INVARIANTS RunnerClosedFirst CanceledFromOutside
PROPERTY CloseEnds
CHECK_DEADLOCK FALSE
