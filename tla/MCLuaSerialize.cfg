SPECIFICATION SerializeSpec
CONSTANTS
    Base = 4
    MAX_COOKIE = 9
    MAX_DEPTH = 2
    Heap <- MCHeap
    Arguments <- MCArguments
    MaxCut = 12
INVARIANTS RoundTrip RefusedExactly ConcatFlattens
CHECK_DEADLOCK FALSE
