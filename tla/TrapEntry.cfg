SPECIFICATION Spec
CHECK_DEADLOCK FALSE
INVARIANTS
    ScratchIsOwned
    TrapIsTransparent
    WrongValueNeedsT1OrSkip
PROPERTIES
    MainEndsUnlessRefused
