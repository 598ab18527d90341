SPECIFICATION Spec
CONSTANTS
    Runs = {1, 2, 4}
    Compactors = {c1}
    Compacted = 3
    Tmp = 0
    MaxFaults = 1
INVARIANT MergeKeepsRows
CHECK_DEADLOCK FALSE
