SPECIFICATION Spec
CONSTANTS
    NW = 2
    Services = {1, 2, 3, 4}
    WorkerOf <- Placement
    Mute = {2}
    MaxSends = 2
    MaxTwists = 1
    MaxBroadcasts = 1
INVARIANTS SerIsThere AnsweredOnce NoRequestForgotten BroadcastOnce
PROPERTY RunsDry
CHECK_DEADLOCK FALSE
