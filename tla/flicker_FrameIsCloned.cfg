\* DriverManager.cpp: the display threads are given a cloned frame
SPECIFICATION Spec
CONSTANTS
    MaxFrames = 2
    MaxFaults = 1
    MaxCommands = 1
    Dvi = {1}
    MaxDviFrames = 2
    MaxDviFaults = 1
    MaxDviCommands = 3
INVARIANTS FrameIsCloned
CHECK_DEADLOCK FALSE
