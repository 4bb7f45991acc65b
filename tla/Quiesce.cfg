SPECIFICATION Spec
CONSTANTS
    Clients = {c1, c2}
    Input = input
    NoTask = NoTask
    MaxCalls = 2
    MaxGeneration = 5
    MaxStartFailures = 2
CHECK_DEADLOCK TRUE
INVARIANTS
    TypeOK
    EngineOutlivesUse
    QuietUnderBle
    PublishedTogether
    PriorAudioRestored
    SleeperIsOwedAWakeup
PROPERTIES
    GateRefined
