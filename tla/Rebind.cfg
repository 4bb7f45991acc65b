SPECIFICATION FairSpec
CONSTANTS
    Exhausted = 5
    MaxTexts = 1
    MaxControls = 0
    MaxPackets = 0
    MaxOpens = 1
    MaxTurns = 1
    MaxExpiries = 0
    RequestLimit = 3
    TextSlots = 2
    ControlSlots = 1
    MaxContentions = 0
PROPERTIES
    TextRebound
