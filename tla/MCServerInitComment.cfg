SPECIFICATION Spec
CONSTANTS
    NW = 1
    max_uuid = 2
    UintRange = 7
    Config <- ConfigOne
    Handlers = {h1}
    Aborters = {}
    MaxSpawn = 0
    MaxRemove = 0
    MaxCalls = 0
PROPERTY WorkerInitReturns
CHECK_DEADLOCK FALSE
