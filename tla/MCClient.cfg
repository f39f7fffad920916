CONSTANTS
    \* StreamParts
    MaxDeliveries = 3
    MaxPartCalls = 4
    \* NodeFacade
    Caller = {"c1", "c2", "c3"}
    \* EncryptionKeys
    Reader = {r1, r2}
    MaxKeys = 3
    MaxMessages = 2
    MaxUpdates = 2
    MaxKeyFaults = 1
    \* Subscriptions
    Sub = {"a", "b", "c"}
    Raw = {"b"}
    ForContract = {"c"}
    MaxSessions = 3
    Message = {1, 2}
    Invalid = {1}
    \* Subscriptions: with a resend
    Published = 2
    MaxPublished = 4
    BufferSize = 1
    MaxResendFaults = 1
    \* Registries
    Write = {w1, w2}
    Read = {q1}
    MaxBlock = 3
    MaxPages = 2
    MaxRegistryFaults = 1
    \* Operator: its fleet
    Sponsorship = {"s1", "s2"}
    StreamOf <- MCStreamOf
    PartsOf <- MCPartsOf
    Node = {"me", "n"}
    Me = "me"
    Rank <- MCRank
    Redundancy = 1
    InitialStakeEvents <- MCStakeEvents
    MaxStakeChanges = 2
    MaxFleetChanges = 2
    MaxFleetFaults = 1
    \* Operator: its duties
    MaxInspections = 2
    Earner = {"e1", "e2"}
    MaxEarned = 2
    MinEarnings = 1
    MaxWithdraw = 1
    MaxAllowed = 1
    SafetyMargin = 1
    WriteInterval = 1
    \* Autostaker
    Ids <- MCIds
    Full = {"s2"}
    InitialStakes <- MCStakes
    InitialPayouts <- MCPayouts
    InitialFunds = {0, 3, 5}
    InitialQueues = {0, 2}
    MaxSponsorships = 2
    MinTransaction = 2
    MinStake = 2
    MaxNonce = 4
    MaxChanges = 1
    MaxSubmitFaults = 1
SYMMETRY ClientSymmetry
SPECIFICATION ClientSpec
INVARIANTS
    
    
    KeysReachReaders
    
    ResendThenRealtime
    
    ServesItsParts
    
    
CHECK_DEADLOCK FALSE
