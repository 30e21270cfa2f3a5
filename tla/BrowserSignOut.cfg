SPECIFICATION Spec
CONSTANTS
    a = a
    b = b
    SignOut = SignOut
    Tabs <- OneTab
    Nil = Nil
    Clear = Clear
    MaxLogins = 0
    MaxFaults = 0
INVARIANTS SignOutRevokes
CHECK_DEADLOCK FALSE
