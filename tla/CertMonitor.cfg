SPECIFICATION FairSpec
CONSTANTS
    MaxGeneration = 3
INVARIANTS
    KeepsLastGood
PROPERTIES
    ServesLatest
    StopEnds
CHECK_DEADLOCK FALSE
