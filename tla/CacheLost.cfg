\* Violated: an update after its page was evicted is not found again.
CONSTANTS
    Reqs = {r1}
    Keys = {1, 2, 3}
    HashOf <- MCHashOf
    FpOf <- MCFpOf
    NrTpages = 4
    EPP = 1
    Capacity = 2
    BufSize = 2
    MaxVer = 2
    MaxEnds = 1
    ReadUnset = FALSE
    NULL = NULL
SPECIFICATION Spec
INVARIANTS
    FoundWhenSet
CHECK_DEADLOCK FALSE
