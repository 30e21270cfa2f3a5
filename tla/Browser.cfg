SPECIFICATION FairSpec
CONSTANTS
    a = a
    b = b
    SignOut = SignOut
    Tabs <- TwoTabs
    Nil = Nil
    Clear = Clear
    MaxLogins = 1
    MaxFaults = 2
INVARIANTS SessionInv
PROPERTIES TabSettles
CHECK_DEADLOCK FALSE
