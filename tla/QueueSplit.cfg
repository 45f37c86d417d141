SPECIFICATION Spec
CONSTANTS
    Nzbs = {"A", "B", "C"}
    Files <- MCFiles
    HomeOf <- OneGroup
    NumArticles <- OneEach
    Missed <- NoneMissed
    ParFiles = {"par"}
    VolFiles = {}
    HealthCheck = "none"
    ParScanDupe = FALSE
    KeepHistory = TRUE
    NoNzb <- MCNoNzb
    NoFile <- MCNoFile
    Downloaders = {d1, d2}
    Priorities = {0, 50}
    EditKinds = {"split","pause"}
    DupeCheck = FALSE
    MaxEdits = 3
INVARIANTS NoArticleOverlooked
SYMMETRY Workers
CHECK_DEADLOCK FALSE
