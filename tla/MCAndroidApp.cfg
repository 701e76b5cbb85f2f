SPECIFICATION Spec
CONSTANTS
    Configs = {home, work}
    MaxStarts = 2
    MaxEvents = 3
SYMMETRY ConfigSymmetry
INVARIANTS TypeOK FdClosedOnce ServiceHonest StatsHonest
CHECK_DEADLOCK FALSE
