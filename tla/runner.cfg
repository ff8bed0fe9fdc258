SPECIFICATION FairSpec
CONSTANTS
  InitMode = FALSE
  Env = {"cancel", "fault", "output", "consume"}
  EventCap <- MCEventCap
INVARIANTS NoSurvivor NoEventLost
PROPERTIES ExitReported CloseReturns NothingLeaks
CHECK_DEADLOCK FALSE
