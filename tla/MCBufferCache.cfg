SPECIFICATION Spec
CONSTANTS
    p1 = p1
    p2 = p2
    n1 = n1
    n2 = n2
    n3 = n3
    n4 = n4
    Procs = {p1, p2}
    Blocks = {n1, n2, n3, n4}
    v1 = v1
    v2 = v2
    Values = {v1, v2}
    LogBlocks = {n1}
    Indirect = {n2}
    NBUF = 2
    MaxHeld = 2
    MaxPinned = 1
SYMMETRY Interchangeable
INVARIANTS
    CacheCoherent
    NoLostWakeup
PROPERTIES
    ContentChangesUnderLock
