\* one session, bursts of two packets, sequence ids that wrap
CONSTANTS
    NSession = 1
    Cap = 7
    MaxGap = 1
    ReqInterval = 1
    RespTimeout = 3
    SyncTimeout = 3
    SeqMod = 3
    Lifetime = 2
    BurstSize = 2
SPECIFICATION Spec
INVARIANTS OffsetFromOneExchange SyncedIsFresh
PROPERTIES OneRequestPerSync ImplementsExchange
CHECK_DEADLOCK FALSE
