\* Values of one or two grains, three to a page: GC repacks them, and finds no
\* room when all four live values have two.
CONSTANTS
    s_sblk = 0
    e_sblk = 2
    PPS = 2
    GRAIN_PER_PAGE = 3
    Keys = {1, 2, 3, 4}
    MAX_WRITE_BUF = 1
    NrLpas = 5
    OobZeroed = 1
    Vals <- MCMixedVals
    NotFound <- MCNotFound
    LenOf <- MCLenOf
    HashOf <- MCHashPair
    FpOf <- MCFpOf
SPECIFICATION Spec
INVARIANTS
    GrainsOwned
    OobNamesEntry
    RealKeysTrue
PROPERTIES
    ImplementsKVStore
CHECK_DEADLOCK FALSE
