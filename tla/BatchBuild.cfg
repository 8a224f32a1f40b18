CONSTANT MaxBuilds = 3
SPECIFICATION BuildSpec
CHECK_DEADLOCK FALSE
INVARIANTS
    TypeOK
    ManifestNeverMismatched
    ReturnedBuildIsComplete
    FailureLeavesNoOutputs
    NoStaleOutputAfterCleanup
PROPERTIES
    ImplementsPublication
    BuildIsOneStep
