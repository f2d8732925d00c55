SPECIFICATION CSpec
CONSTANTS
    NULL = NULL
    PAGE_SIZE = 8
    SIZEOF_BLOCK = 2
    memsize = 64
    e_kernel = 8
    BIOS_START = 16
    BIOS_END = 24
    MaxRequest = 3
INVARIANTS
    BlocksTile
    HolesAreMaximal
    NomemMeansNoRoom
PROPERTIES ImplementsPageMap ReallocKeepsData OtherBlocksUntouched
