SPECIFICATION ProbeSpec
CONSTANTS
    Thread = {t1, t2}
    NULL = NULL
    stray = stray
    Leftover <- MCLeftover
    capacity = 2
    MAX_NBLOCKS = 2
    MaxStale = 2
    Cabling <- MCCabling
INVARIANTS
    DisksAreReal
    UnitsBalanced
    ReadFresh
CHECK_DEADLOCK FALSE
