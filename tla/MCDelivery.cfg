CONSTANTS
    \* Rpc
    Call = {"q1", "q2", "n"}
    Notification = {"n"}
    MaxRpcFaults = 2
    \* Neighbors
    Nodes = {"a", "b", "c", "d"}
    TargetCount <- MCTarget
    Newcomer = "d"
    Hub = "a"
    MaxAttempts = 1
    MaxDisturbances = 1
    \* Delivery
    Chain <- MCChain
    Peer = {"p", "q"}
    FirstNeighbors = {"p"}
    MaxGapCount = 2
    MinPropagationTargets = 2
    MaxTasks = 2
    MaxReceived = 5
    MaxPeerChanges = 1
    \* Inspection
    Session = {"s1", "s2"}
    InspectMessage = {1, 2}
    MaxLostCalls = 1
    \* Plumtree
    PtNode = {"a", "b", "c", "d"}
    Publisher = "a"
    PtLinks = {{"a", "b"}, {"a", "c"}, {"b", "d"}, {"c", "d"}}
    MaxPaused = 3
    MaxLatest = 3
    MaxTimestamp = 3
    MaxLinkLosses = 1
    \* ProxyClient
    Proxy = {"x", "y"}
    Direction = {"publish", "subscribe"}
    MaxDefinitions = 2
    MaxProxyAttempts = 4
    MaxProxyFaults = 1
    \* GapFilling
    MsgCount = 5
    NoPrev = {}
    Strategies = {"full", "light"}
    MaxRequestsPerGap = 2
    MaxGaps = 2
    MaxStorageFaults = 1
SPECIFICATION MessagingSpec
INVARIANTS
    
    PassedOnOnce
    DeliveringPeerPasses
    
    
    GapsAreFilled
PROPERTY
    ImplementsCalls
CHECK_DEADLOCK FALSE
