CONSTANTS
    idle = idle
    KThreads = {k1, k2}
    Users = {u1, u2}
    NULL = NULL
    Sources <- MCSources
    Faults <- MCFaults
SPECIFICATION Spec
INVARIANTS
    UserModeIntact
    StackBounded
    NoLineStuck

    
