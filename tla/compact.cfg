SPECIFICATION FairSpec
CONSTANTS
    Runs = {1, 2, 4, 5}
    Compactors = {c1, c2}
    Compacted = 3
    Tmp = 0
    MaxFaults = 2
INVARIANT NoRowTwice
INVARIANT RowsKept
PROPERTY JobEnds
CHECK_DEADLOCK FALSE
