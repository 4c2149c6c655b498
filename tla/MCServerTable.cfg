SPECIFICATION Spec
CONSTANTS
    NW = 1
    max_uuid = 3
    UintRange = 4
    Config <- ConfigOne
    Handlers = {}
    Aborters = {1}
    MaxSpawn = 3
    MaxRemove = 1
    MaxCalls = 3
INVARIANTS ExitOnlyWhenEmpty StoppingServicesLeave FreshNumber NoServiceLeftUnstarted EmptyWorkerIsShared
CHECK_DEADLOCK FALSE
