SPECIFICATION Spec
CONSTANTS
    WHEEL_SIZE = 3
    Wheels = 2
    PRECISION = 2
    IntMax = 17
    MAX_TIMER_NUM = 2
    IdRange = 4
    Durations = {1, 6, 8, 16}
    Times = {0, 2}
    Services = {s1}
    MaxTimers = 1
INVARIANT Precise
