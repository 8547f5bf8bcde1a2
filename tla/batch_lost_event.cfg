SPECIFICATION FairSpec
CONSTANTS
    Files = {f1, f2}
    FanOut = fanOut
    Timers = {t1}
    MaxDeliveries = 2
    MaxFailures = 1
PROPERTY MarkedBatchIsPublished
CHECK_DEADLOCK FALSE
