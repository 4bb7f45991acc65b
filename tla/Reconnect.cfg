SPECIFICATION Spec
CONSTANTS
    Exhausted = 6
    MaxTexts = 3
    MaxControls = 0
    MaxPackets = 0
    MaxOpens = 2
    MaxTurns = 0
    MaxExpiries = 0
    RequestLimit = 4
    TextSlots = 2
    ControlSlots = 1
    MaxContentions = 0
INVARIANTS
    ProtocolUnderOneOwner
    SubmittedAccounted
PROPERTIES
    DeliveredOnce
