\* two queues, every fate of PACKET_FANOUT, three packets, one lost, flushed at two;
\* three packets of a stream, two spoiled, caches of 15 bits with bytes of four;
\* two clocks, held up for as long as it takes
SPECIFICATION TrafficSpec
CONSTANTS
    Queue = {q0, q1}
    MaxPackets = 3
    MaxLost = 1
    FLUSH = 2
    BATCH = 2
    ORDER = 4
    BITS = 4
    NUM_PRBS_BYTES = 3
    MIN_IMIX_PRBS_BYTES = 2
    STATS_FLUSH = 2
    Vls = {4291}
    MaxSeq = 3
    MaxSpoil = 2
    Clocks = 2
    DELAY = 3
    STAGGER = 2
    CATCHUP = 6
    MAX_CATCHUP = 2
    MaxTime = 14
SYMMETRY Symmetric
INVARIANTS LossIsReal GapsNotHidden  PacingKept
CHECK_DEADLOCK FALSE
