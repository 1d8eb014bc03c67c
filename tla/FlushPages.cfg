\* A flush of three values in two pages, and superblocks of two pages: GC that
\* moves one or two values leaves one page, so the next GC comes within the flush.
CONSTANTS
    s_sblk = 0
    e_sblk = 3
    PPS = 2
    GRAIN_PER_PAGE = 2
    Keys = {1, 2, 3, 4, 5}
    MAX_WRITE_BUF = 3
    NrLpas = 6
    OobZeroed = 1
    Vals <- MCOneVal
    NotFound <- MCNotFound
    LenOf <- MCLenOf
    HashOf <- MCHashPair
    FpOf <- MCFpOf
SPECIFICATION Spec
INVARIANTS
    TypeOK
    NoFailure
    NandInStep
    CountsExact
    OneEntryPerKey
