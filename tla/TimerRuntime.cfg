CONSTANTS
    Spins = 3
    MaxTraps = 4
SPECIFICATION Spec
CHECK_DEADLOCK FALSE
INVARIANTS
    TypeOK
    NoRunRejectedForAFlag
    DiagnosisOfSilence
    PassIsOneInterrupt
    TimerOffIsOneInterrupt
PROPERTIES
    RunEnds
