CONSTANTS
    first = first
    second = second
    None = None
    Thread = {first, second}
    MayCall <- AnyCall
    MaxActivity = 1
SPECIFICATION FairSpec
INVARIANTS
    LocksFollowSteps
    SessionUsedOpen
    DescriptorsUsedOpen
PROPERTIES
    QuietAfterClose
    CallsReturn
