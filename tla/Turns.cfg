SPECIFICATION Spec
CONSTANTS
    Exhausted = 4
    MaxTexts = 1
    MaxControls = 1
    MaxPackets = 0
    MaxOpens = 1
    MaxTurns = 1
    MaxExpiries = 0
    RequestLimit = 3
    TextSlots = 2
    ControlSlots = 1
    MaxContentions = 1
INVARIANTS
    TypeOK
    SubmittedAccounted
    CompletionClaimed
PROPERTIES
    NoSupersededWrite
    DeliveredOnce
