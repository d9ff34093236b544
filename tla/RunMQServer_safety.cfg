SPECIFICATION Spec
CONSTANTS
    Orphans = {o1, o2}
    Background = {"web", "metrics"}
    MaxStops = 2
SYMMETRY AdoptedSymmetry
INVARIANTS
    NoStopDuringStartup
    StartupCommandsKept
    StoppedMeansEnded
    NoLostZombie
    ReadyMeansStarted
PROPERTY ImplementsService
