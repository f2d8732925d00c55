SPECIFICATION Spec
CONSTANTS
    NULL = NULL
    idle = idle
    stray = stray
    k1 = k1
    k2 = k2
    k3 = k3
    Threads <- MCThreads
    initval = 0
INVARIANT TaskListComplete
CHECK_DEADLOCK FALSE
