SPECIFICATION FairCallsSpec
CONSTANTS
    Dials = {c1}
    Handlers = {h1, h2}
    NoValue = NoValue
    RingTimeout = 1
    StatementWait = 1
    LastTick = 1
    MaxLost = 1
    MaxStalls = 1
INVARIANTS
    CallsTypeOK
    LogIsTrue
PROPERTIES
    OverIsFinal
    OutcomeHasItsCause
    EndTakesEffect
    BackstopFires
    InitiateResponds
