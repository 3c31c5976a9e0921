SPECIFICATION Spec
CONSTANTS
    Null = Null
    Tombstone = Tombstone
    Users = {u1, u2}
    Procs = {p1, p2}
    RefreshTokens = {t1, t2}
    PinMaxAttempts = 2
    MaxExpiries = 1
    Docs = {d1, d2}
    OnbSessions = {s1}
    Handles = {h1}
    MaxModerations = 1
INVARIANTS
    AccountsTypeOK
    SessionPerSignIn
    GuessesAreBounded
    OneAccountPerIdentity
    RecoveryIsOwn
SYMMETRY Sym
CHECK_DEADLOCK FALSE
