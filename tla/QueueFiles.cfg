SPECIFICATION Spec
CONSTANTS
    Nzbs = {"A"}
    Files <- MCFiles
    HomeOf <- OneGroup
    NumArticles <- TwoInRar
    Missed <- OneMissedInTxt
    ParFiles = {"par"}
    VolFiles = {"par"}
    HealthCheck = "park"
    ParScanDupe = TRUE
    KeepHistory = TRUE
    NoNzb <- MCNoNzb
    NoFile <- MCNoFile
    Downloaders = {d1, d2}
    Priorities = {0, 50}
    EditKinds = {"delete", "dupe", "final", "pause", "pauseGroup", "unpausePars", "park", "hang"}
    DupeCheck = TRUE
    MaxEdits = 2
INVARIANTS ArticlesConsistent StatsMatchRecount NoEmptyGroup CompletingAlone DeletionAttended NoArticleOverlooked
PROPERTIES ParkedFilesKept
SYMMETRY Workers
CHECK_DEADLOCK FALSE
