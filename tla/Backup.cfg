SPECIFICATION FairSpec
CONSTANTS
    Nil = Nil
    MaxRuns = 2
    MaxSlot = 1
    Retention = 1
    Destinations <- S3Destinations
    MaxCrashes = 1
    MaxFaults = 1
INVARIANTS RunsInv
PROPERTIES SafetyStands RunsEnd SlotServed
CHECK_DEADLOCK FALSE
