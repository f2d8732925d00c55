SPECIFICATION LibrarySpec
CONSTANTS
    NULL = NULL
    HeaderSize = 8
    NALLOC = 6
    PAGE = 3
    cs_size = 3
    MaxBreak = 15
    Sizes = {16, 32}
    Word = 256
    SCREEN_ROWS = 3
    SCREEN_COLS = 3
    Printable = {"a", "A"}
    NL = NL
    NUL = NUL
    SHIFT = SHIFT
    Dates <- MCDates
    Tokens <- MCTokens
    Texts <- MCTexts
    Buffers = {3, 40}
    SmallBase = 3
    SmallSize = 3
    SmallFactors = {1, 2, 3, 5}
    PiSizes = {2, 3, 4, 5, 6, 7}
    Devices <- MCDevices
    Blocks <- MCBlocks
    Bases <- MCBases
    Limits <- MCLimits
    Selectors <- MCSelectors
    NameLength = 8
    Names <- MCNames
    keymap <- MCKeymap
    Keys = {"a", "enter", "shift"}
    MaxKeys = 6
INVARIANTS
    HeapTiles
    FreeListInOrder
    HeapInSegment
    EpochTime
    FormatExact
    ArithmeticExact
    AddressExact
    TypedShown
