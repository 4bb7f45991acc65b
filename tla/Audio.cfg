SPECIFICATION FairSpec
CONSTANTS
    Exhausted = 6
    MaxTexts = 0
    MaxControls = 1
    MaxPackets = 1
    MaxOpens = 2
    MaxTurns = 1
    MaxExpiries = 0
    RequestLimit = 3
    TextSlots = 1
    ControlSlots = 1
    MaxContentions = 0
INVARIANTS
    AudioNeverOvertakes
    LeaseKeepsConnection
PROPERTIES
    AudioDrains
