\* Bodies of both batch adapters, and one job's row under every outcome and
\* two versions of the gateway.
SPECIFICATION ResultsSpec
CONSTANTS
    MaxTextBytes = 9
    MaxTextUnits = 5
    MaxSegments = 2
    MaxReferences = 1
    MaxBody = 20
    MaxAttempts = 2
    MaxRetry = 3
    AdapterRetry = 2
    MaxRecord = 80
    Duration = 2
    Recognizable <- MCRecognized
    Ticks = {0, 1, 2, 3, 5, 6, 7, 8, 9, 11}
    TicksPerMs = 2
    Authoritative = 4
    Tolerance = 2
    Pause = 2
    Punctuation = 3
    Hard = 5
    MaxTokens = 4
INVARIANTS
    RowKeepsOutcome
    ResultFaithful
    SegmentsFaithful
