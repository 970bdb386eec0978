CONSTANTS
    MaxRecordBytes = 3
    ReadBufferBytes = 2
    Alphabet <- AllBytes
    MaxFileBytes = 5
    MayCorrupt = TRUE
    MayTruncate = TRUE
    MayFail = TRUE
SPECIFICATION Spec
INVARIANTS
    TypeOK
    RejectsOnlyCorruptFiles
    CleanReturnIsCaughtUp
    RetainsAtMostOneObject
    TruncationAlarmIsReal
CHECK_DEADLOCK FALSE
