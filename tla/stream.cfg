SPECIFICATION FairSpec
CONSTANTS
    N = 5
    Records <- MCRecords
    Runs <- MCRuns
    Partitions = {"day1", "day2"}
    PartitionOf <- MCPartitionOf
    Kind <- MCKind
    Keys = {"a", "b"}
    Key <- MCKey
    MaxBatch = 2
    MaxTracked = 1
    MaxFaults = 2
INVARIANT CommittedIsDurable
INVARIANT StatsAddUp
PROPERTY PublishedGrows
PROPERTY Implements
PROPERTY PolledSettles
