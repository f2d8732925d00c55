SPECIFICATION Spec
CONSTANTS
    NULL = NULL
    junk = junk
    Cache = {c1, c2, c3}
    CACHE_SIZE = 15
    Sizes = {2, 4, 5}
SYMMETRY Sym
INVARIANTS
    FreeListExact
    CountBacked
