CONSTANTS
    MaxRecordBytes = 2
    ReadBufferBytes = 3
    Alphabet <- AllBytes
    MaxFileBytes = 9
    MayCorrupt = FALSE
    MayTruncate = FALSE
    MayFail = TRUE
SPECIFICATION FairSpec
INVARIANTS
    BufferIsFileSlice
    DeliversFileRecords
PROPERTIES
    ImplementsRecordStream
    RecordsAreDelivered
CHECK_DEADLOCK FALSE
