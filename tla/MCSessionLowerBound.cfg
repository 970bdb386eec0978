CONSTANTS
    MaxRotation = 1
    MaxGeneration = 3
    MaxRecords = 4
    Faults = {}
    CoarseClock = FALSE
SPECIFICATION Spec
INVARIANT ExportedIsLowerBound
CHECK_DEADLOCK FALSE
