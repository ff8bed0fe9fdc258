SPECIFICATION StuckDrainSpec
CONSTANTS
  MaxBytes = 2
  Replay = 1
  Output = 9
  Chunks <- MCChunks
INVARIANT DrainedInFull
PROPERTIES StreamSpec ProducerFreed NoLostWakeUp
CHECK_DEADLOCK FALSE
