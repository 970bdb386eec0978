CONSTANTS
    MaxRotation = 1
    MaxGeneration = 3
    MaxRecords = 2
    Faults = {"activity", "overflow", "invalidate", "cancel", "error", "lookup"}
    CoarseClock = FALSE
SPECIFICATION Spec
INVARIANTS
    TypeOK
    CaughtUpWhenQuiet
    DescriptorsAreOwned
    UncleanReportIsExact
CHECK_DEADLOCK FALSE
