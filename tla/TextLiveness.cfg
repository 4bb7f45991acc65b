SPECIFICATION TimedSpec
CONSTANTS
    Exhausted = 5
    MaxTexts = 1
    MaxControls = 0
    MaxPackets = 0
    MaxOpens = 1
    MaxTurns = 0
    MaxExpiries = 1
    RequestLimit = 3
    TextSlots = 2
    ControlSlots = 1
    MaxContentions = 1
PROPERTIES
    RetirementCompletes
    CloseServed
    EveryTextAnswered
