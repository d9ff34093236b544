SPECIFICATION FairSpec
CONSTANTS
    MaxLines = 3
    MaxRotations = 2
INVARIANTS
    InOrderOnce
    NothingLeftBehind
    ConsoleComplete
PROPERTIES
    CatchesUp
    RecoversFromOvertaking
    CancelEnds
CHECK_DEADLOCK FALSE
