\* Superblocks of three pages and flushes of two: a flush may go on in the
\* next superblock, and GC then meets values placed and not mapped.
CONSTANTS
    s_sblk = 0
    e_sblk = 2
    PPS = 3
    GRAIN_PER_PAGE = 1
    Keys = {1, 2, 3, 4}
    MAX_WRITE_BUF = 2
    NrLpas = 8
    OobZeroed = 1
    Vals <- MCOneVal
    NotFound <- MCNotFound
    LenOf <- MCLenOf
    HashOf <- MCHashOf
    FpOf <- MCFpOf
SPECIFICATION Spec
INVARIANT
    InvalidateIsValid
CHECK_DEADLOCK FALSE
