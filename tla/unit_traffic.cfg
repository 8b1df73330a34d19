SPECIFICATION FlowSpec
CONSTANTS
    FLUSH = 2
    MaxSent = 3
    MaxWire = 1
    MaxOdd = 1
INVARIANTS TwinsAligned FinalLossIsReal DamageIsReported
CHECK_DEADLOCK FALSE
