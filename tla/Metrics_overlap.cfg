SPECIFICATION Spec
CONSTANTS
    Scrapers = {s1, s2}
    MaxPublished = 3
    MaxConnects = 1
INVARIANT EveryDeltaCountedOnce
CHECK_DEADLOCK FALSE
