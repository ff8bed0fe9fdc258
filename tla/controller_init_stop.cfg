SPECIFICATION CtrlSpec
CONSTANTS
  InitMode = TRUE
  Env = {"cancel", "consume"}
  Requests = {"stop"}
  EventCap <- MCEventCap
INVARIANT NoSurvivor
CHECK_DEADLOCK FALSE
