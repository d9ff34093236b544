SPECIFICATION FairSpec
CONSTANTS
    Runs = {r1, r2}
    Timeout = 2
PROPERTY GraceEnds
