SPECIFICATION MCSpec
CONSTANTS
    Users = {u1, u2}
    Orders = {o1}
    Tokens = {t1}
    Procs = {p1, p2}
    Null = Null
    Packs = {3}
    HoldPaise = 2
    Costs = {0, 1}
    MaxCrashes = 1
    Refs <- MCRefs
    Amounts <- MCAmounts
INVARIANTS
    TypeOK
    RunningBalance
    AppliedOnce
    CreditBacked
    RefundWithinHold
PROPERTIES
    ImplementsLedger
    ImplementsTxn
    TxnEnds
    CapturedIsCredited
