SPECIFICATION Spec
CONSTANTS
    Servers <- MCServers
    Connections <- OneEach
    ServerOf <- OwnerOneEach
    Level <- MainThenFill
    Group <- NoGroups
    Optional <- NoneOptional
    RetryInterval = 1
    BelowLevels = 1
    NoServer <- MCNoServer
    NoConnection <- MCNoConnection
    Downloaders = {d1, d2}
    Editors = {"rpc"}
    ArticleRetries = 1
    Desired <- OneDesiresFill
    Reachable = {"main"}
    Unstable = {"main"}
    OutOfRetention = {}
    MaxEdits = 2
    MaxSuspends = 0
    MaxStops = 0
INVARIANTS TypeOK AttemptConsistent ConnectionOwnership NoHiddenConnection
