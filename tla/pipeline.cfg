SPECIFICATION Spec
CONSTANTS
    N = 4
    Records <- MCRecords
    Runs <- MCRuns
    Partitions = {"day1", "day2"}
    PartitionOf <- MCPartitionOf
    Keys = {"a", "b"}
    BatchSize = 2
    CheckEvery = 2
    Num = 1
    Den = 2
    MaxTracked = 1
    DlqMax = 1
    Limits = {1, 9}
    MaxRuns = 2
    MaxFaults = 2
INVARIANT NothingDropped
INVARIANT CountsAddUp
INVARIANT DlqAccountsForAll
INVARIANT AbortsAtSample
CHECK_DEADLOCK FALSE
