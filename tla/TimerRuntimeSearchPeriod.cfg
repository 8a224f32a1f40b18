CONSTANTS
    Spins = 2
    MaxTraps = 3
SPECIFICATION Spec
CHECK_DEADLOCK FALSE
INVARIANTS
    SearchRunsUnderPeriodicTimer
