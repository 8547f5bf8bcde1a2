SPECIFICATION FairSpec
CONSTANTS
    Files = {f1, f2}
    FanOut = fanOut
    Timers = {t1}
    MaxDeliveries = 2
    MaxFailures = 1
PROPERTIES
    ResolvedIsMarked
    MissingFileIsReported
CHECK_DEADLOCK FALSE
