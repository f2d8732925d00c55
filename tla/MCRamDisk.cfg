SPECIFICATION RdSpec
CONSTANTS
    Thread = {t1, t2}
    Minor = {0, 1, 2}
    Instance = {d1, d2}
    NULL = NULL
    MaxRefcnt = 2
    Page = {p1, p2}
SYMMETRY Sym
INVARIANTS
    UsesCounted
    InstancesOwned
    CopyInDisk
    MemoryOwned
