\* Four live values of two grains in four usable pages of three: GC gains no page
\* and meets the assertion of get_page_num.
CONSTANTS
    s_sblk = 0
    e_sblk = 2
    PPS = 2
    GRAIN_PER_PAGE = 3
    Keys = {1, 2, 3, 4}
    MAX_WRITE_BUF = 1
    NrLpas = 8
    OobZeroed = 1
    Vals <- MCPairVal
    NotFound <- MCNotFound
    LenOf <- MCLenOf
    HashOf <- MCHashOf
    FpOf <- MCFpOf
SPECIFICATION Spec
INVARIANT
    PageLeft
CHECK_DEADLOCK FALSE
