\* Eventually consistent reads, as the code makes them, and no failure.
CONSTANTS
    f1 = f1
    master = master
    Files = {f1}
    Master = master
    StaleReads = TRUE
    MaxEvents = 1
    MaxDeliveries = 1
    MaxFailures = 0
SPECIFICATION FairSpec
PROPERTY EventuallyPublished
CHECK_DEADLOCK FALSE
