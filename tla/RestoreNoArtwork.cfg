CONSTANTS
    Packages <- WithoutArtwork
    LosesReply = TRUE
    MaxRetries = 2
    MaxCrashes = 0
    MaxFaults = 0
SPECIFICATION FairSpec
PROPERTIES EveryUnbootableIsSwappedBack
CHECK_DEADLOCK FALSE
