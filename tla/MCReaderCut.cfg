CONSTANTS
    MaxRecordBytes = 2
    ReadBufferBytes = 4
    Alphabet <- FramingBytes
    MaxFileBytes = 4
    MayCorrupt = FALSE
    MayTruncate = TRUE
    MayFail = FALSE
SPECIFICATION FairSpec
PROPERTY CutIsReported
CHECK_DEADLOCK FALSE
