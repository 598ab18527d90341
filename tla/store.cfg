SPECIFICATION Spec
CONSTANTS
    Records = {1, 2, 3}
    Partitions = {"day1", "day2"}
    PartitionOf <- MCPartitionOf
    Runs = {1, 2}
    MaxWritten = 3
    MaxFaults = 2
INVARIANT AckedVisible
CHECK_DEADLOCK FALSE
