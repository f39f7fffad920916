CONSTANTS
    Message = {1, 2}
    Timestamp <- MCTimestamp
    MaxBuckets = 3
    MaxFailures = 1
    AlmostFullRecords = 1
    PromptCassandra = FALSE
    BatchMaxRecordCount = 1
    BatchMaxRetries = 2
    Lookback = 2
    MaxWait = 2
    MaxDisorder = 2
    MaxCrashes = 1
SPECIFICATION Spec
INVARIANTS KeptAndFound RowsLeadToMessages
CHECK_DEADLOCK FALSE
