SPECIFICATION Spec
CONSTANTS
    Users = {u1}
    Calls = {c1}
    Procs = {p1, p2}
    n1 = n1
    n2 = n2
    Numbers <- MCOneNumber
    Null = Null
    Rate = 1
    HoldMinutes = 2
    Funds = 2
    MaxTime = 2
    MaxCrashes = 0
    Refs <- MCRefs
    Amounts <- MCAmounts
INVARIANTS
    NetDebitEqualsCost
CHECK_DEADLOCK FALSE
