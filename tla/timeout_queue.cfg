\* A target of two full hops and a shorter one; two failures of any kind.
CONSTANTS
    m1 = m1
    m2 = m2
    m3 = m3
    m4 = m4
    m5 = m5
    Messages = {m1, m2, m3, m4, m5}
    Target = 5
    MaxDelay = 2
    Visibility = 1
    MaxReceives = 2
    MaxDeliveries = 2
    Lag = 1
    MaxFailures = 2
    Horizon = 12
SPECIFICATION FairSpec
INVARIANTS
    TypeOK
    MarkedIsUnderWay
    FiresOnTime
    NoAmplification
PROPERTIES
    ImplementsCall
    EventuallyFires
CHECK_DEADLOCK FALSE
