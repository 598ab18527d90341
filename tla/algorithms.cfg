SPECIFICATION Spec
CONSTANTS
    MaxNodes = 3
    MaxDepth = 1
    MaxInValues = 2
    HoursPerDay = 2
    MonthDays <- MCMonthDays
    MaxPageSize = 8
    AbsoluteMaxRows = 8
    Rate = 2
    Cost = 3
    Capacity = 6
    MaxKeys = 2
    DayKeys = 3
    Window = 2
    FailedAuthThreshold = 2
    FailedAuthWindow = 2
    NotFoundThreshold = 1
    RequestRateThreshold = 2
    StuffingFloor = 2
    MaxFindings = 2
    Private = {3}
    SensitiveEndpoints = {5}
    SuspiciousAgents = {7}
    Threshold = 3
    TrailWindow = 3
    MinHistory = 5
    MinObserved = 3
    Traces <- MCTraces
    Spans <- MCSpans
    ViewFilters <- MCViewFilters
    Attempts <- MCAttempts
    Volumes = {1, 2, 10, 100, 1000, 10000}
    Levels = {0, 2, 5}
    SeriesLength = 8
    Trees <- MCTrees
    Filters <- MCFilters
    Rows <- MCRows
    Ranges <- MCRanges
    PageSizes = {0, 1, 2, 9}
    Keys = {k1, k2, k3}
    MaxFlattenDepth = 2
    MaxMetadataKeys = 4
    MaxResponseTime = 8000000
    ExtensionBonus = 15
    ParseWeight = 4
    ProbeLines = 3
    TrialLines = 4
    MaxMessage = 3
    MaxField = 5
    MaxName = 4
    MaxSegments = 3
    MaxValue = 2
    MaxMaskable = 4
    RequireMessage = TRUE
    MaxFuture = 5
    Documents <- MCDocuments
    Lines <- MCLines
    Samples <- MCSamples
    Extensions = {"", "log", "jsonl"}
    Parsings <- MCParsings
    MaxCalls = 4
    MaxGap = 2
INVARIANT SearchMeansQuery
INVARIANT PagesCoverRange
INVARIANT CleanupBounded
INVARIANT RateBounded
INVARIANT ViewsAgree
INVARIANT FindingsSound
INVARIANT AnomaliesFound
INVARIANT ParsedFaithfully
INVARIANT StoredTextClean
CHECK_DEADLOCK FALSE
