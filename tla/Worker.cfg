CONSTANTS
    p1 = p1
    p2 = p2
    c1 = c1
    c2 = c2
    Procs <- TwoProcs
    Conns <- TwoConns
    Nobody = nobody
    Leaked = leaked
    NoConn = noconn
    Lost = lost
    MaxGens = 2
    QueueLength = 2
    MaxRefreshes = 1
    MaxCrashes = 1
    MaxFaults = 1
SPECIFICATION FairSpec
INVARIANTS WorkersInv
PROPERTIES OnlySavingClearsReauth StopEnds StartedWorkerCollects ImplementsCollectorLock
CHECK_DEADLOCK FALSE
