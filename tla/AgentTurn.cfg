SPECIFICATION TurnSpec
CONSTANTS
    Runs = {1, 2, 3}
    CollapseTail = 3
    SummaryTail = 2
    MinRegion = 3
    MaxFailures = 2
    Soft = 8
    Limit = 12
    Compressible <- MCCompressible
    MaxRetries = 1
    MaxLevel = 2
    RevCycle = 8
    MaxTurns = 3
    MaxAPIErrorRetries = 2
    MaxContextRetries = 2
    MaxOutputRetries = 1
    Interval = 2
    QueueSize = 2
    MaxMessages = 6
    MaxRows = 1
    BatchLimit = 2
    MaxTexts = 4
    MaxBatches = 3
    MaxUpsets = 1
    MaxTroubles = 1
INVARIANTS
    ToolResultsReachModel
    CurrentRequestKept
    OutputFromOneAttempt
    HistoryHasNoGap
PROPERTY RunsEnd
CHECK_DEADLOCK FALSE
