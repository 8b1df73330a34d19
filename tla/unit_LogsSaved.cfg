\* SafeShutdown.h: "so logs are still saved cleanly"; one run, no fault
SPECIFICATION Spec
CONSTANTS
    Units = {"cmc"}
    MaxRuns = 1
    MaxFaults = 0
    BootOdds = 3
INVARIANTS LogsSaved
CHECK_DEADLOCK FALSE
