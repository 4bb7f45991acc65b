SPECIFICATION Spec
CONSTANTS
    Clients = {c1}
    Input = input
    NoTask = NoTask
    MaxCalls = 1
    MaxGeneration = 4
    MaxStartFailures = 0
CHECK_DEADLOCK TRUE
INVARIANTS
    BoundSessionCanRestore
