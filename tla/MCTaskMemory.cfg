CONSTANTS
    NrPages = 10
    Usable <- MCUsable
    MaxRequest = 3
    idle = idle
    KThreads = {k1}
    init = u1
    Users = {u1, u2, u3}
    KSTACK_PAGES = 1
    cs_size = 1
    ds_size = 2
    Others = {1, 9}
    BrkSizes = {1, 2, 3}
    Junk = {0, 3}
SPECIFICATION Spec
CONSTRAINT MCUntil
SYMMETRY Symmetry
INVARIANTS
    MemoryExact
    SegmentsJoined
