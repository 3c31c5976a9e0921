SPECIFICATION Spec
CONSTANTS
    Users = {u1}
    Calls = {c1, c2, c3}
    Procs = {p1}
    n1 = n1
    n2 = n2
    Numbers <- MCTwoNumbers
    Null = Null
    Rate = 1
    HoldMinutes = 1
    Funds = 3
    MaxTime = 1
    MaxCrashes = 0
    Refs <- MCRefs
    Amounts <- MCAmounts
INVARIANTS
    NumberExclusive
CHECK_DEADLOCK FALSE
