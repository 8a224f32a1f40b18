CONSTANT MaxBuilds = 2
SPECIFICATION Spec
CHECK_DEADLOCK FALSE
INVARIANT FailedRebuildCleansStaleOutputs
