SPECIFICATION Spec
CONSTANTS
    MaxEvents = 1
    MaxSeq = 1
    MaxStreams = 3
    MaxNotices = 1
    MaxDrops = 1
    MaxFaults = 0
CONSTRAINT Remembered
INVARIANTS
    NeverStuckThinking
CHECK_DEADLOCK FALSE
