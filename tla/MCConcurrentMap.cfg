SPECIFICATION Spec
CONSTANTS
    Threads = {t1, t2, t3}
    Nobody = Nobody
    Torn = Torn
    Pending = Pending
INVARIANTS MutualExclusion
PROPERTIES ImplementsAtomicMap WriterGetsIn
