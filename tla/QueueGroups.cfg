SPECIFICATION Spec
CONSTANTS
    Nzbs = {"A", "B", "C"}
    Files <- MCFiles
    HomeOf <- TwoGroups
    NumArticles <- OneEach
    Missed <- NoneMissed
    ParFiles = {"par"}
    VolFiles = {}
    HealthCheck = "pause"
    ParScanDupe = FALSE
    KeepHistory = TRUE
    NoNzb <- MCNoNzb
    NoFile <- MCNoFile
    Downloaders = {d1, d2}
    Priorities = {0, 50}
    EditKinds = {"quietMerge", "split", "delete", "park", "priority", "move", "pause"}
    DupeCheck = FALSE
    MaxEdits = 2
INVARIANTS DownloaderFileExists HighestPriorityFirst
SYMMETRY Workers
CHECK_DEADLOCK FALSE
