SPECIFICATION FairSpec
CONSTANTS
    p = p
    q = q
    None = None
    Procs <- TwoProcs
    Releases <- TwoReleases
    Databases <- FoundDatabases
    MaxCrashes = 1
    MaxFaults = 1
    MaxCorruptions = 1
    MaxKeys = 3
INVARIANTS ReadyInv
PROPERTIES LedgerStaysTruthful NewestStarts
CHECK_DEADLOCK FALSE
