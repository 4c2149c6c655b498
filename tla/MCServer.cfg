SPECIFICATION Spec
CONSTANTS
    NW = 2
    max_uuid = 2
    UintRange = 7
    Config <- ConfigOne
    Handlers = {h1}
    Aborters = {1}
    MaxSpawn = 0
    MaxRemove = 0
    MaxCalls = 0
CHECK_DEADLOCK FALSE
INVARIANTS NoUseAfterDestroy AllCreatedBeforeRun
PROPERTIES StopTerminates StartupCompletes
