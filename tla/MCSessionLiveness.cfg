CONSTANTS
    MaxRotation = 1
    MaxGeneration = 2
    MaxRecords = 2
    Faults = {"activity", "cancel"}
    CoarseClock = FALSE
SPECIFICATION FairSpec
PROPERTIES
    InitializationEnds
    CancelCloses
    RecordsAreApplied
CHECK_DEADLOCK FALSE
