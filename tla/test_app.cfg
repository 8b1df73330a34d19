\* the four applications; warm-up of two seconds, at most three seconds; a stream of six packets numbered modulo three, three of them lost at most
CONSTANTS
    SeqMax = 3
    FirstPacketTimeout = 2
    WarmUp = 2
    MaxSeconds = 3
    MaxLost = 3
SPECIFICATION FairSpec
INVARIANTS NothingFreedInUse SummaryIsTheLastSecond 
PROPERTIES StopsEnd
CHECK_DEADLOCK FALSE
