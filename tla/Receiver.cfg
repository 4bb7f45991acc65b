SPECIFICATION FairSpec
CONSTANTS
    Exhausted = 3
    QueueDepth = 1
    MaxEvents = 2
CHECK_DEADLOCK FALSE
INVARIANTS
    TypeOK
    PlayedAudioBelongs
    StopEndsItsOwnReply
PROPERTIES
    StartSettles
    StopAnswered
