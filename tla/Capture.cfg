CONSTANTS
    r1 = r1
    r2 = r2
    Expirer = expirer
    Requests <- TwoRequests
    Cap = 2
    ChannelCapacity = 1
    BatchRows = 2
    MaxCaptures = 2
    MaxLoad = 5
    MaxFaults = 1
    MaxCrashes = 1
SPECIFICATION FairSpec
INVARIANTS CaptureInv
PROPERTIES CaptureIsDeleted
CHECK_DEADLOCK FALSE
