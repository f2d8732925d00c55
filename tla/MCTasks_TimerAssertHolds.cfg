SPECIFICATION Spec
CONSTANTS
    idle = idle
    k1 = k1
    u1 = u1
    u2 = u2
    u3 = u3
    KThreads <- MCKThreads
    Users <- MCUsers
    MAX_PID = 5
    SCHED_TICKS = 2
    INITIAL_TIMESLICE = 1
    TIMESLICE_INCREMENT = 1
    MAX_TIMESLICE = 1
    HZ = 2
    MsPerSec = 2
    Word = 8
    SleepArgs = {1, 2}
INVARIANT TimerAssertHolds
