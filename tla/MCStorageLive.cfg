CONSTANTS
    Message = {1, 2}
    Timestamp <- MCTimestamp
    MaxBuckets = 3
    MaxFailures = 1
    AlmostFullRecords = 1
    PromptCassandra = TRUE
    BatchMaxRecordCount = 1
    BatchMaxRetries = 1
    Lookback = 2
    MaxWait = 2
    MaxDisorder = 2
    MaxCrashes = 0
SPECIFICATION FairSpec
PROPERTY EventuallyReadable
CHECK_DEADLOCK FALSE
