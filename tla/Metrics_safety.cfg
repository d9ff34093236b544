SPECIFICATION FairSpec
CONSTANTS
    Scrapers = {s1}
    MaxPublished = 3
    MaxConnects = 2
INVARIANTS
    StopNeverBlocks
    ResponsePaired
    EveryDeltaCountedOnce
PROPERTIES
    ProcessingStops
CHECK_DEADLOCK FALSE
