\* Violated: a read of a key that was never set is completed twice.
CONSTANTS
    Reqs = {r1}
    Keys = {1, 2, 3}
    HashOf <- MCHashOf
    FpOf <- MCFpOf
    NrTpages = 4
    EPP = 1
    Capacity = 4
    BufSize = 2
    MaxVer = 2
    MaxEnds = 1
    ReadUnset = TRUE
    NULL = NULL
SPECIFICATION Spec
INVARIANTS
    EndedOnce
CHECK_DEADLOCK FALSE
