CONSTANTS
    MaxRotation = 0
    MaxGeneration = 1
    MaxRecords = 1
    Faults = {"activity"}
    CoarseClock = FALSE
SPECIFICATION FairSpec
PROPERTY DrainEnds
CHECK_DEADLOCK FALSE
