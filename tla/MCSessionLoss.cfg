CONSTANTS
    MaxRotation = 1
    MaxGeneration = 4
    MaxRecords = 4
    Faults = {}
    CoarseClock = FALSE
SPECIFICATION Spec
INVARIANT LossIsReported
CHECK_DEADLOCK FALSE
