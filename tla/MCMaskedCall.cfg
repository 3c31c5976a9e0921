SPECIFICATION FairSpec
CONSTANTS
    Users = {u1}
    Calls = {c1, c2}
    Procs = {p1, p2}
    n1 = n1
    n2 = n2
    Numbers <- MCOneNumber
    Null = Null
    Rate = 1
    HoldMinutes = 2
    Funds = 3
    MaxTime = 1
    MaxCrashes = 1
    Refs <- MCRefs
    Amounts <- MCAmounts
INVARIANTS
    TypeOK
    NetWithinHold
    LiveIsPaidFor
PROPERTIES
    EndedIsSettled
CHECK_DEADLOCK FALSE
