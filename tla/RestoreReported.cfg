CONSTANTS
    Packages <- GoodPackage
    LosesReply = TRUE
    MaxRetries = 2
    MaxCrashes = 0
    MaxFaults = 1
SPECIFICATION FairSpec
PROPERTIES LastOutcomeReconciled
CHECK_DEADLOCK FALSE
