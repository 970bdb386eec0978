CONSTANTS
    a = a
    b = b
    Series <- TwoSeries
    Content <- SomeContent
    MaxRecords = 3
    MaxTicks = 1
    MaxEvents = 1
SPECIFICATION FairSpec
PROPERTIES
    ShutdownEnds
    CollectorNeverGoesBack
INVARIANTS
    TypeOK
    CollectedTogether
    NoGaugeAfterSourceEnd
    CleanShutdownDeliversAll
CHECK_DEADLOCK FALSE
