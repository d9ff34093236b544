SPECIFICATION FairSpec
CONSTANTS
    Containers = {c1, c2}
    QMName <- PlainName
    MQ_MULTI_INSTANCE = TRUE
    SimpleAuth = TRUE
    CheckLogPages = TRUE
    MaxDisruptions = 4
INVARIANTS
    StorageWhole
    OthersKeepRunning
PROPERTY Settles
CHECK_DEADLOCK FALSE
