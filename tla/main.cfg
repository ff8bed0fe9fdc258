SPECIFICATION MainFairSpec
CONSTANTS
  InitMode = FALSE
  Env = {"cancel", "consume"}
  Requests = {"signal", "emptySpec"}
  EventCap <- MCEventCap
PROPERTIES OrderlyExit MainExits
CHECK_DEADLOCK FALSE
