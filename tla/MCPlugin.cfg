CONSTANTS
    \* SignedRequest
    Signers = {"u1"}
    Nonces = {"n1", "n2"}
    MAX_CLOCK_SKEW = 2
    SignedTimes <- MCSignedTimes
    MaxSigned = 2
    MaxVerifierRestarts = 1
    \* PomboGates
    Slots = {s1, s2}
    Accounts = {"u1"}
    GateOwner = "owner"
    StreamAdmins = {}
    ReadOnly = TRUE
    Conversation = TRUE
    GateKinds = {"missing", "null", "visible", "sealed"}
    Kinds = {"read", "purge", "stored", "ingest"}
    CACHE_TTL = 2
    DENIAL_TTL = 1
    SAVE_DELAY_MS = 1
    LastGateTime = 5
    MaxArrivals = 2
    MaxChainChanges = 1
    MaxGateFaults = 1
    \* StorageReads
    ReadTimes = {1, 2, 3}
    SequenceNumbers = {0, 1}
    Publishers = {"a"}
    BucketSizes = {3}
    MaxRows = 3
    MaxBuckets = 3
    BUCKET_LOOKBACK_MS = 1
    MAX_RESEND_LAST = 2
    MaxInt = 4
    \* CassandraWatchdog
    CheckInterval = 2
    MaxUnreachable = 3
    QueryTimeout = 1
    LastWatchTime = 11
    \* RetentionSchedule
    IntervalHours = 3
    StartupDelay = 1
    MaxTime = 10
    MaxClockChanges = 1
    MaxRestarts = 3
    \* ChainEventPoller
    Listeners = {"l1", "l2"}
    Providers = {p1, p2}
    NoProvider = NoProvider
    Kind <- MCKind
    Chains <- MCChains
    FromBlockThreshold = 1
    MaxBlocks = 2
    MaxPollSessions = 2
    MaxListens = 2
    MaxPollFaults = 1
    \* FailoverProvider
    Calls = {c1, c2}
    AttemptTimeout = 1
    CallTimeout = 2
    FAILURES_TO_SET_ASIDE = 2
    FIRST_COOLDOWN = 1
    MAX_COOLDOWN = 2
    LastFailoverTime = 2
    MaxPollRecords = 2
SYMMETRY PluginSymmetry
SPECIFICATION PluginSpec
INVARIANTS
    AcceptedOnce
    
    ReadsAreExact
    ExitsOnlyAndAlwaysAfterOutage
    ChainIsReached
PROPERTIES
    
    OnSchedule
CHECK_DEADLOCK FALSE
