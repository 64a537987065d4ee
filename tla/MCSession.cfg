SPECIFICATION AllSpec
CHECK_DEADLOCK FALSE
INVARIANTS
    CallbackOutlivesProcessing
    NothingIsOrphaned
    StopIsTruthful
    OwnerKeepsSession
PROPERTIES
    CallsReturn
    FailureIsShown
    ShutdownReturns
