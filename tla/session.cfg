SPECIFICATION SessionFairSpec
CONSTANTS
  Plans <- MCPlans
  Chunks = 2
  Keys = {1}
  MaxEvents = 2
  MaxTrouble = 2
INVARIANTS InputInOrder TtyRestored
PROPERTIES InputToLiveSession SessionEnds
CHECK_DEADLOCK FALSE
