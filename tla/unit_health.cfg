SPECIFICATION Spec
CONSTANTS
    Required = 1
    Firmware = {"v1", "v2"}
    MaxPoor = 1
    BmSensor = {"board"}
    EsSensor = {"hw"}
    SwSensor = {}
    Watched = {"pbit", "dtn_es"}
    LIMIT = 3
    Boards = 2
    RING = 3
    MaxSecond = 2
    MaxGone = 2
    MaxOther = 1
    Legs = {"J7_4", "J6_2", "J5_4", "J6_4"}
    MaxExchange = 3
    MaxUnsent = 1
    MaxNap = 2
INVARIANTS VerdictIsRight  CmcDashboardIsTrue 
CHECK_DEADLOCK FALSE
