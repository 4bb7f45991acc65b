SPECIFICATION PacksSpec
CONSTANTS
    k1 = k1
    Packs = {k1, k2}
    Assets = {"clip"}
    Missing = Missing
    Torn = Torn
    NoPack = NoPack
    Selections = {s1}
    NoSelection = NoSelection
    SelectedKey <- MCSelectedKey
    MaxRevision = 1
    MaxRequests = 2
    MaxFaults = 0
    Mutators = {"sync", "tool"}
    Readers = {}
    Sessions = {"lesson"}
    Nobody = "nobody"
    MaxGeneration = 1
CHECK_DEADLOCK FALSE
PROPERTIES
    WritersHoldLease
