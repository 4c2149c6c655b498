SPECIFICATION Spec
CONSTANTS
    p1 = p1
    p2 = p2
    Producers <- MCProducers
    Writer = w
    Buffers = {b1, b2, b3, b4}
    PoolSize = 1
    MaxLines <- MCMaxLines
    Nobody = nobody
INVARIANTS InOrder OneOwner PoolBounded FlushedWhenClosed
PROPERTIES WaitReturns LinesGetWritten
CHECK_DEADLOCK FALSE
