SPECIFICATION FairSpec
CONSTANTS
    MaxItems = 2
    MaxAudio = 3
    MaxSpeech = 2
    QueueSize = 2
    Interrupts = TRUE
    None = None
INVARIANTS
    TypeOK
    TruncateWithinHeard
    InterruptedIsRecorded
    ToolHearsLatest
PROPERTIES
    CutIsMarked
    StopEndsRun
CHECK_DEADLOCK FALSE
