\* A transfer whose files all complete within the hour, no failure.
CONSTANTS
    f1 = f1
    master = master
    Files = {f1}
    Master = master
    Ttl = 2
    Stagger = 1
    MaxAge = 1
    EventAge = 1
    Timeouts = {0}
    Lag = 1
    Horizon = 4
    MaxFailures = 0
SPECIFICATION Spec
INVARIANT JoinedTransferIsNoOrphan
CHECK_DEADLOCK FALSE
