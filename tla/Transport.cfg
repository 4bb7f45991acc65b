SPECIFICATION FairSpec
CONSTANTS
    Mutators = {}
    Readers = {"clip", "frame"}
    Sessions = {s1}
    Nobody = Nobody
    MaxGeneration = 2
    Requesters = {q1, q2}
    DataDepth = 1
    MaxAttempts = 1
    MaxEpoch = 3
    MaxFrames = 2
CHECK_DEADLOCK TRUE
INVARIANTS
    TypeOK
    AdmissionConserved
    OwnerHoldsFiles
    NoHandleOutlivesLesson
PROPERTIES
    LostLessonEnds
