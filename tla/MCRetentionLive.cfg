CONSTANTS
    Stream = {"s1"}
    Bucket = {1, 2}
    StreamOf <- MCStreamOf
    DateCreate <- MCDateCreate
    StorageDays <- MCStorageDays
    GraceDays = 2
    AbortFractionPercent = 50
    AbortMinStreams = 2
    BucketDeleteLimit = 1
    RowDeleteLimit = 2
    RegistryMayBeWrong = FALSE
    Lateness = 0
    MaxTime = 3
    MaxWrites = 3
    MaxFailures = 0
    MaxChanges = 0
SPECIFICATION FairSpec
PROPERTY EventuallyPruned
