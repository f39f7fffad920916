CONSTANTS
    s1 = s1
    s2 = s2
    Stream = {s1, s2}
    Element = {s1, s2}
    StreamParts <- MCStreamParts
    MaxBlock = 3
    MaxChangesPerBlock = 1
SPECIFICATION FairSpec
INVARIANT JoinedFollowsChain
PROPERTIES VersionsNeverGoBack EventuallyInSync
