\* the raw-socket worker: one session, one packet per poll, a fair worker, a master that may fall silent for good
CONSTANTS
    NSession = 1
    Cap = 7
    MaxGap = 1
    ReqInterval = 1
    RespTimeout = 2
    SyncTimeout = 4
    SeqMod = 2
    Lifetime = 1
    BurstSize = 1
SPECIFICATION FairSpec
PROPERTIES SyncLossIsReal ExchangesEnd
CHECK_DEADLOCK FALSE
