SPECIFICATION Spec
CONSTANTS
    Orphans = {o1}
    Background = {}
    MaxStops = 1
INVARIANT OwnCommandsKept
