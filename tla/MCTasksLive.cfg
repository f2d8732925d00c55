SPECIFICATION FairSpec
CONSTANTS
    idle = idle
    k1 = k1
    k2 = k2
    KThreads <- MCKThreads
    Users = {u1}
    MAX_PID = 4
    SCHED_TICKS = 2
    INITIAL_TIMESLICE = 2
    TIMESLICE_INCREMENT = 1
    MAX_TIMESLICE = 3
    HZ = 2
    MsPerSec = 2
    Word = 8
    SleepArgs = {1, 2}
PROPERTIES SleepersWake NoStarvation
