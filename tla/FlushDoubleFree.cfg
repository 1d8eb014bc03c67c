\* GC of a superblock without a valid grain, after one with some.
CONSTANTS
    s_sblk = 0
    e_sblk = 2
    PPS = 2
    GRAIN_PER_PAGE = 2
    Keys = {1, 2, 3}
    MAX_WRITE_BUF = 2
    NrLpas = 8
    OobZeroed = 1
    Vals <- MCUnitVals
    NotFound <- MCNotFound
    LenOf <- MCLenOf
    HashOf <- MCHashOf
    FpOf <- MCFpOf
SPECIFICATION Spec
INVARIANT
    BucketFreedOnce
CHECK_DEADLOCK FALSE
