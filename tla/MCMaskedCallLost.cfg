SPECIFICATION Spec
CONSTANTS
    Users = {u1}
    Calls = {c1}
    Procs = {p1}
    n1 = n1
    n2 = n2
    Numbers <- MCOneNumber
    Null = Null
    Rate = 1
    HoldMinutes = 1
    Funds = 1
    MaxTime = 1
    MaxCrashes = 0
    Refs <- MCRefs
    Amounts <- MCAmounts
INVARIANTS
    FailedDialIsReleased
CHECK_DEADLOCK FALSE
