SPECIFICATION FairSpec
CONSTANTS
    Jobs = {1, 2, 3}
    Concurrency = 1
    MaxHistory = 1
    MaxRetries <- MCMaxRetries
INVARIANT CancelledNeverRuns
INVARIANT FinishedIsRecorded
INVARIANT LiveJobsTracked
INVARIANT JoinedMeansDone
INVARIANT WaitMeansFinished
PROPERTY TerminalIsFinal
PROPERTY EverySubmittedSettles
CHECK_DEADLOCK FALSE
