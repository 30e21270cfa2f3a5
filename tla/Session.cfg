CONSTANTS
    c1 = c1
    c2 = c2
    Callers <- TwoCallers
    Nil = nil
    Threshold = 2
    MaxLogins = 1
    MaxExpiries = 1
    MaxFaults = 1
SPECIFICATION FairSpec
INVARIANTS TypeOK
PROPERTIES OnlyRefusedPairsRotate ExpiredPairIsRotated
CHECK_DEADLOCK FALSE
