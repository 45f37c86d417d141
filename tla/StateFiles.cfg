SPECIFICATION Spec
CONSTANTS
    Groups = {g1, g2}
    MaxCrashes = 1
    MaxFaults = 1
    Absent = Absent
    Torn = Torn
INVARIANTS StateConsistent CrashHarmlessOutsideWindows
PROPERTIES FilesKeepPromise
