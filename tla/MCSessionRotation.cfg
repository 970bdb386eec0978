CONSTANTS
    MaxRotation = 2
    MaxGeneration = 4
    MaxRecords = 3
    Faults = {}
    CoarseClock = TRUE
SPECIFICATION Spec
INVARIANTS
    QuietPassReadsOldestFirst
    CountsEachIncreaseOnce
CHECK_DEADLOCK FALSE
