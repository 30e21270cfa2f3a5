CONSTANTS
    Charges = {c1}
    Tasks = {t1, t2}
    Free = Free
    MaxVersion = 2
    MaxRows = 4
    MaxFaults = 1
SPECIFICATION FairSpec
INVARIANT HistoryInv
PROPERTY ChargeLands
