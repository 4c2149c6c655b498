SPECIFICATION Spec
CONSTANTS
    NW = 2
    max_uuid = 1
    UintRange = 11
    NotUnique = NotUnique
    UniqueName <- MCUniqueName
    Metered = 1
    Limit = 1
    Blocks = {b1}
    MaxSize = 2
    Stopped = {2}
    MaxRemoves = 1
    MaxFailures = 1
INVARIANTS OnePerName NameLeadsHome MemoryAccounted
PROPERTY AddsAnswered
CHECK_DEADLOCK FALSE
