\* Two files that share batches with the master, lagging reads and a failure.
CONSTANTS
    f1 = f1
    f2 = f2
    master = master
    Files = {f1, f2}
    Master = master
    StaleReads = TRUE
    MaxEvents = 1
    MaxDeliveries = 2
    MaxFailures = 1
SPECIFICATION FairSpec
INVARIANT NothingLeftUnjoined
PROPERTY EventuallyPublishedIfSeen
CHECK_DEADLOCK FALSE
