\* RawSocketPort.c: "// IP Checksum"
SPECIFICATION PayloadSpec
CONSTANTS
    ORDER = 4
    BITS = 4
    NUM_PRBS_BYTES = 3
    MIN_IMIX_PRBS_BYTES = 2
    STATS_FLUSH = 2
    Vls = {4291}
    MaxSeq = 3
    MaxSpoil = 2
INVARIANTS ChecksumHolds
CHECK_DEADLOCK FALSE
