SPECIFICATION Spec
CONSTANTS
    MaxTimestamp = 2
    MaxEventId = 2
    PageSize = 1
INVARIANT NoneSkippedOrRepeated
CHECK_DEADLOCK FALSE
