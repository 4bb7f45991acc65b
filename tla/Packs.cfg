SPECIFICATION PacksSpec
CONSTANTS
    k1 = k1
    Packs = {k1, k2, k3}
    Assets = {"clip", "frame"}
    Missing = Missing
    Torn = Torn
    NoPack = NoPack
    Selections = {s1}
    NoSelection = NoSelection
    SelectedKey <- MCSelectedKey
    MaxRevision = 2
    MaxRequests = 3
    MaxFaults = 2
    Mutators = {"sync", "tool"}
    Readers = {}
    Sessions = {"lesson"}
    Nobody = "nobody"
    MaxGeneration = 1
CHECK_DEADLOCK TRUE
INVARIANTS
    PacksTypeOK
    PointedPacksWhole
    UndisturbedSyncConverges
    WritersAlone
PROPERTIES
    PointerIsAtomic
    SupersededRemembered
    RetainedPackKept
    PacksStillDuringLesson
