SPECIFICATION FairSpec
CONSTANTS
    p1 = p1  p2 = p2
    Procs = {p1, p2}
    PIPESIZE = 2
    UINT = 4
    Byte = {0, 1}
    Junk = 1
    Strings <- ShortAndLong
    ReadSizes = {2}
    NOFILE = 2
INVARIANTS
    SleepersAreWoken
    PipeConsistent
PROPERTIES
    Implements
    PeerGoneAnswered
CHECK_DEADLOCK FALSE
