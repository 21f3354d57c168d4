SPECIFICATION Spec
CONSTANTS
    NULL = NULL
    GROW_COUNT = 2
    Setting <- MCCommented
    Passwd <- MCPasswd
    Group <- MCGroup
    Number <- MCNumber
    MaxBoot = 1
    MaxTime = 3
    MaxReset = 0
INVARIANTS AsCommented
CHECK_DEADLOCK FALSE
