\* Two files, one failure, and a clock that outlives every record.
CONSTANTS
    f1 = f1
    f2 = f2
    master = master
    Files = {f1, f2}
    Master = master
    Ttl = 2
    Stagger = 1
    MaxAge = 1
    EventAge = 1
    Timeouts = {1, 2, 3}
    Lag = 1
    Horizon = 4
    MaxFailures = 1
SPECIFICATION Spec
SYMMETRY Interchangeable
INVARIANTS
    TypeOK
    OnlyAMarkerStays
    NoAlertForJoined
    UnmatchedIsReported
    TimeoutFindsRecord
    EmissionModeHolds
PROPERTIES
    CallerLearnsTheTruth
    ImplementsJoin
CHECK_DEADLOCK FALSE
