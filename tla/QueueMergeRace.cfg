SPECIFICATION Spec
CONSTANTS
    Nzbs = {"A", "B"}
    Files <- MCFiles
    HomeOf <- TwoGroups
    NumArticles <- OneEach
    Missed <- NoneMissed
    ParFiles = {"par"}
    VolFiles = {}
    HealthCheck = "none"
    ParScanDupe = FALSE
    KeepHistory = TRUE
    NoNzb <- MCNoNzb
    NoFile <- MCNoFile
    Downloaders = {d1, d2}
    Priorities = {0, 50}
    EditKinds = {"merge"}
    DupeCheck = FALSE
    MaxEdits = 1
INVARIANTS RemainingSizeOfFiles
SYMMETRY Workers
CHECK_DEADLOCK FALSE
