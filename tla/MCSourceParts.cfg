CONSTANTS
    ClockTicks = 2
    NoIdentity = NoIdentity
    MaxTicks = 3
    MaxBoots = 2
    MaxLifetimes = 2
    BootOffsets = {4, 7}
    SourceRecords <- AllRecords
    MaxExact = 3
    Int64Limit = 4
    CardinalityLimit = 32
    MaxScalable = 20
    MaxRecords = 4
    Millisecond = 2
    PollInterval = 6
    MaxWaits = {1, 2, 3, 6, 7, 13, 16}
    Commands <- AllCommands
    Second = 8
    MinimumRecordBytes = 1
    MaximumRecordBytes = 64
SPECIFICATION Spec
INVARIANTS
    IdentityTellsLifetimes
    SamplesTheSource
    CreationIsCloseToStart
    ExportedIsExact
    GaugesAreCurrent
    NoSeriesDropped
    NoValueVanishes
    WaitIsPunctual
    ValidSettingsAreAccepted
PROPERTIES
    RecheckIsExact
    EndIsNoticed
CHECK_DEADLOCK FALSE
