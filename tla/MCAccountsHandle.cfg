SPECIFICATION Spec
CONSTANTS
    Null = Null
    Tombstone = Tombstone
    Users = {u1, u2}
    Procs = {p1}
    RefreshTokens = {t1}
    PinMaxAttempts = 2
    MaxExpiries = 0
    Docs = {d1, d2}
    OnbSessions = {s1}
    Handles = {h1}
    MaxModerations = 0
INVARIANTS
    HandleIsReserved
CHECK_DEADLOCK FALSE
