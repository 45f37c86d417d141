SPECIFICATION FairSpec
CONSTANTS
    Servers <- MCServersThree
    Connections <- OneOfThree
    ServerOf <- OwnerOfThree
    Level <- ThreeLevels
    Group <- MainGroup
    Optional <- AltOptional
    RetryInterval = 1
    BelowLevels = 1
    NoServer <- MCNoServer
    NoConnection <- MCNoConnection
    Downloaders = {d1, d2}
    Editors = {}
    ArticleRetries = 1
    Desired <- NoDesired
    Reachable = {"main", "fill"}
    Unstable = {}
    OutOfRetention = {"main"}
    MaxEdits = 0
    MaxSuspends = 1
    MaxStops = 1
PROPERTIES FailsAfterAllServers BackupServersSpared LevelOnlyIncreases DownloadEnds
