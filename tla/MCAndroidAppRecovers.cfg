SPECIFICATION Spec
CONSTANTS
    Configs = {home, work}
    MaxStarts = 2
    MaxEvents = 3
SYMMETRY ConfigSymmetry
INVARIANT RecoversUntilStopped
CHECK_DEADLOCK FALSE
