CONSTANTS
    \* ConnectionManager
    Ends = {"a", "b"}
    Offerer = "a"
    MaxSockets = 3
    MaxSends = 3
    MaxSocketFaults = 2
    MaxDisconnects = 1
    MaxLockCalls = 2
    AllowIncomingPrivateConnections = TRUE
    \* Routing
    Topologies <- MCTopologies
    Source = 5
    Modes = {"route", "recursive"}
    Holders = {1}
    MAX_FAILED_HOPS = 2
    ROUTING_TABLE_MAX_SIZE = 5
    MaxLost = 1
    \* PeerDiscovery
    Peers = {4, 5}
    EntryPoint = 4
    Knows <- MCKnows
    IdSpace = 8
    NodesPerKBucket = 1
    MaxContactCount = 1
    RingPerSide = 1
    Parallelism = 2
    NoProgressLimit = 2
    QueryBatchSize = 2
    MaxSessions = 3
    MaxChurn = 1
    MaxLate = 1
    \* DhtStore
    StoreNodes = {1, 2, 3, 4}
    FirstUp = {3, 4}
    Executor = 3
    RedundancyFactor = 2
    MaxVersions = 1
    MaxStoreJoins = 2
    MaxStoreLosses = 1
    \* Webrtc
    MaxAttempts = 2
    Low = 1
    High = 3
    MaxWritten = 6
    \* AutoCertifier
    Address = {a1, a2}
    OneDay = 2
    MaxTimer = 3
    Lifetime = 6
    MaxRequestTime = 1
    MaxNow = 10
    MaxRequests = 3
    MaxExits = 1
    MaxCertifierFaults = 1
    \* Connectivity
    Ports = {1, 2}
    MaxEntryPoints = 2
    MaxConnectivityFaults = 2
SYMMETRY NetworkSymmetry
SPECIFICATION NetworkSpec
INVARIANTS
    ConnectionsServe
    RoutingConcludes
    StaysInTheLayer
    
    ConnectsAndSends
    StaysReachable
    AnnouncesWhatItServes
CHECK_DEADLOCK FALSE
