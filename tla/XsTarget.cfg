CONSTANTS
    Calls = {1, 2}
    Environments <- EveryEnvironment
SPECIFICATION Spec
CHECK_DEADLOCK FALSE
CONSTRAINT OverlapWhenReady
INVARIANTS
    TypeOK
    StatusIsOwnFate
    NoEmulatorLeftBehind
    ReferenceOfSameCheckout
PROPERTIES
    EveryCallComesBack
    AdapterIsWorker
