SPECIFICATION FairSpec
CONSTANTS
    f1 = f1  a1 = a1  a2 = a2
    Files = {f1}
    Articles = {a1, a2}
    FileOf <- MCFileOf
    Size = 2
    Limit = 3
    Threshold = 2
    MaxMishaps = 1
    NoFile = NoFile
INVARIANTS CacheAccounted FlushedFileExists TrustedStateOnDisk CompletedFileWhole
PROPERTIES NobodyWaitsForEver
CHECK_DEADLOCK FALSE
