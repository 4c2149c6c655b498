SPECIFICATION Spec
CONSTANTS
    WHEEL_SIZE = 2
    Wheels = 3
    PRECISION = 2
    IntMax = 15
    MAX_TIMER_NUM = 1
    IdRange = 3
    Durations = {4, 10, 15}
    Times = {0, 2}
    Services = {s1}
    MaxTimers = 2
INVARIANTS OneKeyPerTimer NeverLate EarlyOnlyAfterWrap
PROPERTIES OrphansCollected UpdateReturns
