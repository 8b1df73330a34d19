\* Velocity: one input with a command, both inputs of a card with a failing call, a
\* loopback test with a failing call; two frames.  DVI: one channel, two frames, a
\* failing call, three commands or keys.  A stop may wait for a thread for good.
SPECIFICATION Spec
CONSTANTS
    MaxFrames = 2
    MaxFaults = 1
    MaxCommands = 1
    Dvi = {1}
    MaxDviFrames = 2
    MaxDviFaults = 1
    MaxDviCommands = 3
   
PROPERTIES VideoInOrder
CHECK_DEADLOCK FALSE
