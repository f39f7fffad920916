CONSTANTS
    Message = {1, 2, 3, 4}
    Timestamp <- MCTimestamp
    MaxBuckets = 3
    MaxFailures = 0
    AlmostFullRecords = 2
    PromptCassandra = TRUE
    BatchMaxRecordCount = 1
    BatchMaxRetries = 1
    Lookback = 2
    MaxWait = 1
    MaxDisorder = 0
    MaxCrashes = 0
SPECIFICATION Spec
INVARIANTS ReadsAreComplete
CHECK_DEADLOCK FALSE
