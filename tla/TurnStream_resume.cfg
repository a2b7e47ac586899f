SPECIFICATION FairSpec
CONSTANTS
    MaxEvents = 1
    MaxSeq = 1
    MaxStreams = 3
    MaxNotices = 1
    MaxDrops = 2
    MaxFaults = 1
CONSTRAINT Promised
INVARIANTS
    TypeOK
    HoleIsBeingClosed
    TranscriptComplete
    MarkHonest
    ShownOnce
PROPERTIES
    ThinkingEnds
CHECK_DEADLOCK FALSE
