SPECIFICATION Spec
CONSTANTS
    Null = Null
    Users = {u1, u2, u3}
    Procs = {p1, p2}
    MaxDeaths = 1
    MaxFaults = 1
    MaxMembers = 2
    MaxActivities = 1
    MaxRevision = 1
    MaxReports = 2
    MaxUses = 2
    MaxKeys = 2
    MaxMessages = 2
    DailyLimit = 1
    MaxSubscribers = 2
    MaxChanges = 1
    Deltas <- MCDeltas
    MaxWork = 3
    MaxRows = 2
    MaxFailures = 2
    MaxEvictions = 1
    MaxStalls = 1
    MaxFlagWrites = 2
    MaxRedisErrors = 1
    Outcomes = {"saved", "blocked"}
    MinObservations = 2
    MaxNights = 2
INVARIANTS
    PlatformTypeOK
    OneEffectPerKey
    GroupIsGoverned
    HostIsPresent
    BlockStands
    GrantsHonoured
    HandedOutOnce
    ReportIsTrue
    StandingIsOnRecord
    RowsAreWorkedOnce
    FlagsAreFresh
SYMMETRY Sym
CHECK_DEADLOCK FALSE
