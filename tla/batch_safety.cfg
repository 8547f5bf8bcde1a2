SPECIFICATION Spec
CONSTANTS
    Files = {f1, f2}
    FanOut = fanOut
    Timers = {t1}
    MaxDeliveries = 2
    MaxFailures = 2
SYMMETRY Interchangeable
INVARIANTS
    TypeOK
    CountMatchesFiles
    AtMostOneCompletion
    CompletionIsWhole
    NoCompletionAfterTimeoutMarker
    TimeoutLeavesFileOut
    AllReturnedIsMarked
    NoSilentTimeout
    TimeoutOverSomeIsFinal
PROPERTY ImplementsOutcome
CHECK_DEADLOCK FALSE
