\* the sequence: any step may fail, up to three signals
\* the tracker: two RX queues, three packets, counters flushed at two; all cases of
\* steering and RSS, with a warm-up that may end in the run
\* the time: before every boundary, in every zone, one line interrupted, one packet not written
\* the monitor: the checks in the third cycle, one lost packet, one query that cannot be sent
CONSTANTS
    MaxSignals = 3
    MayFail = TRUE
    Worker = {q0, q1}
    Owner = {q0}
    MaxPackets = 3
    FLUSH = 2
    Warmup = TRUE
    CheckCycle = 3
    SeqLast = 1
    MaxLost = 1
    MaxFailures = 1
    Eves = {"leap_day", "march", "short", "year", "east", "west", "century", "thousand", "epoch", "last"}
    Zones = {"istanbul", "kolkata", "lima", "unsaid"}
    MaxLines = 3
    MaxCuts = 1
    MaxUnwritten = 1
SPECIFICATION TestSpec
INVARIANTS OutputRegistered OutputOffAtExit TrackingExact 
INVARIANTS CyclesAreSound ChecksOnTime ToldIsUtc
PROPERTIES SequenceEnds ChecksAreMade
CHECK_DEADLOCK FALSE
