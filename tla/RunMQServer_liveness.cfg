SPECIFICATION FairSpec
CONSTANTS
    Orphans = {o1}
    Background = {"metrics"}
    MaxStops = 2
PROPERTIES
    StopLeadsToExit
    StartupEnds
    ZombiesReaped
