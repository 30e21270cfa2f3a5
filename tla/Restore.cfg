CONSTANTS
    Packages <- SomePackages
    LosesReply = TRUE
    MaxRetries = 2
    MaxCrashes = 2
    MaxFaults = 2
SPECIFICATION FairSpec
INVARIANTS OriginalNeverLost SafetyBeforeSwap RestoreInv
PROPERTIES ActivationWhileStopped RollbackReportIsTrue OutcomeReconciled ApiComesBack UnbootableIsSwappedBack
CHECK_DEADLOCK FALSE
