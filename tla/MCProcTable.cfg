SPECIFICATION Spec
CONSTANTS
    NPROC = 3
    NCPU = 2
    TICKS = 3
    SleepArgs = {0, 2}
    KillArgs = {0, 2}
    MaxPid = 3
INVARIANTS
    LocksNeverPanic
    SwitchesClean
    ParentsWait
PROPERTIES
    SleepsLongEnough
CHECK_DEADLOCK FALSE
