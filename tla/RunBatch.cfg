CONSTANTS
    N = 2
    Jobs = 2
    MaxRuns = 2
    MaxStrays = 1
SPECIFICATION Spec
CHECK_DEADLOCK FALSE
INVARIANTS
    TypeOK
    NoStaleBinaryExecuted
    ExitZeroIsEvidence
    LedgerAgreesWithMetas
    NoWorkerOutlivesRun
PROPERTIES
    ImplementsContract
    RunComesBack
