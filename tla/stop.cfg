CONSTANTS
    Kinds <- MCKinds
    HasToken = TRUE
    MaxWedge = 1
SPECIFICATION StopFairSpec
CHECK_DEADLOCK FALSE
INVARIANTS StrangerSafe StoppedTakesAll
PROPERTY NobodyWaits
