SPECIFICATION Spec
CONSTANTS
    STACK_CAPACITY = 3
    SizeRange = 64
    Byte = {1, 2}
    Heads = {0, 1, 2}
    Capacities = {1, 3}
    MaxWrite = 3
    MaxSize = 5
INVARIANT PositionsFit
PROPERTY ImplementsTape
