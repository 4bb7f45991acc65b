SPECIFICATION TimedSpec
CONSTANTS
    Exhausted = 4
    MaxTexts = 0
    MaxControls = 2
    MaxPackets = 0
    MaxOpens = 1
    MaxTurns = 1
    MaxExpiries = 2
    RequestLimit = 2
    TextSlots = 1
    ControlSlots = 1
    MaxContentions = 0
PROPERTIES
    ControlsSettle
