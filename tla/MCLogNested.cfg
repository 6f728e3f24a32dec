SPECIFICATION Spec
CONSTANTS
    p1 = p1  p2 = p2
    b1 = b1  b2 = b2  b3 = b3
    Procs = {p1}
    Blocks = {b1, b2, b3}
    AfterLog = b2
    Values = {0}
    MAXOPBLOCKS = 2
    LOGSIZE = 6
    OpWrites = 1
    MaxDepth = 2
INVARIANT SleeperHasWaker
