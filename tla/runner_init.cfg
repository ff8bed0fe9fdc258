SPECIFICATION FairSpec
CONSTANTS
  InitMode = TRUE
  Env = {"fault"}
  EventCap <- MCEventCap
PROPERTY RunnerEnds
CHECK_DEADLOCK FALSE
