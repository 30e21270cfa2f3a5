CONSTANTS
    f1 = f1
    f2 = f2
    Fields <- TwoFields
    QueueLength = 4
    MaxExpiries = 2
    MaxSaves = 1
    MaxFaults = 2
SPECIFICATION FairSpec
INVARIANTS SocketInv
PROPERTIES SocketRecovers
CHECK_DEADLOCK FALSE
