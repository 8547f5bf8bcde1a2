\* Both operations and all modes, with lagging reads, a repeated AWS event, three failures.
CONSTANTS
    f1 = f1
    master = master
    Files = {f1}
    Master = master
    StaleReads = TRUE
    MaxEvents = 2
    MaxDeliveries = 2
    MaxFailures = 3
SPECIFICATION Spec
INVARIANTS
    TypeOK
    NoEventBeforeJoin
    NoFeedback
    PublishedOnce
    NothingLeftUnannounced
PROPERTY ImplementsJoin
CHECK_DEADLOCK FALSE
