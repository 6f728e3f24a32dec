SPECIFICATION Spec
CONSTANTS
    p1 = p1
    p2 = p2
    Procs = {p1, p2}
    First = p1
    FSSIZE = 14
    NINODES = 6
    BSIZE = 2
    NDIRECT = 1
    DIRSIZ = 2
    NINODE = 4
    NFILE = 2
    NOFILE = 2
    Image <- OneFile
    SwapPath <- Swaps
    Programs <- OneProgram
    MaxChunk = 2
CHECK_DEADLOCK FALSE
INVARIANT NoDeadlock
