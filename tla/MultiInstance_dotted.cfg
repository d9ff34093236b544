SPECIFICATION Spec
CONSTANTS
    Containers = {c1, c2}
    QMName <- DottedName
    MQ_MULTI_INSTANCE = TRUE
    SimpleAuth = TRUE
    CheckLogPages = TRUE
    MaxDisruptions = 3
INVARIANT StandbyFindsData
