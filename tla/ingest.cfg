SPECIFICATION Spec
CONSTANTS
    FileLists <- MCFileLists
    MaxFileLines = 3
    SampleLines = 2
    Paths = {"ok", "missing", "outside"}
    Servers <- MCServers
    MaxPages = 4
    FetchAttempts = 2
    MaxRedirects = 1
    Tables <- MCTables
    Since = 1
    Until = 5
    RowLimit = 2
    BatchSize = 2
    MaxRetries = 2
    Requested = {1, 2}
    Cpus = 4
    MaxFaults = 3
INVARIANT ReadsInOrder
INVARIANT CursorSkipsNothing
INVARIANT FilesAccounted
INVARIANT AuditTrail
PROPERTY IngestEnds
CHECK_DEADLOCK FALSE
