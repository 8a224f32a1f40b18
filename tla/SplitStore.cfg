CONSTANTS
    Slots = 8
    Starts = {0, 5}
    Rounds = {2, 9}
    QueueSize = 24
SPECIFICATION Spec
CHECK_DEADLOCK FALSE
INVARIANTS
    CorrectCoreIsNeverAccused
    MissIsNotHidden
PROPERTIES
    VerdictIsReached
