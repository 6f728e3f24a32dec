SPECIFICATION FairSpec
CONSTANTS
    p1 = p1  p2 = p2
    b1 = b1  b2 = b2  b3 = b3
    Procs = {p1, p2}
    Blocks = {b1, b2, b3}
    AfterLog = b3
    Values = {0, 1}
    MAXOPBLOCKS = 2
    LOGSIZE = 4
    OpWrites = 1
    MaxDepth = 1
INVARIANTS
    LogConsistent
    NoPanic
PROPERTIES
    Implements
    SleeperWoken
