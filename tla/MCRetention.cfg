CONSTANTS
    Stream = {"s1", "s2"}
    Bucket = {1, 2, 3}
    StreamOf <- MCStreamOf
    DateCreate <- MCDateCreate
    StorageDays <- MCStorageDays
    GraceDays = 2
    AbortFractionPercent = 50
    AbortMinStreams = 2
    BucketDeleteLimit = 1
    RowDeleteLimit = 1
    RegistryMayBeWrong = TRUE
    Lateness = 1
    MaxTime = 3
    MaxWrites = 2
    MaxFailures = 1
    MaxChanges = 1
SPECIFICATION Spec
INVARIANT OnlyUnseenAreStranded
PROPERTY DeletesAreJustified
