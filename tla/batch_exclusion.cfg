SPECIFICATION Spec
CONSTANTS
    Files = {f1, f2}
    FanOut = fanOut
    Timers = {t1}
    MaxDeliveries = 1
    MaxFailures = 0
INVARIANT TimeoutExcludesCompletion
CHECK_DEADLOCK FALSE
