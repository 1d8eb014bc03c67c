\* A cache of two of five translation pages, three keys on one probe path, two of
\* them with one fingerprint: loads, doubled loads, evictions, flushes and GC
\* around a read.  The bounds on sets and ends stop the instance.
CONSTANTS
    Reqs = {r1}
    Keys = {1, 2, 3}
    HashOf <- MCOneHash
    FpOf <- MCTwins
    NrTpages = 5
    EPP = 1
    Capacity = 2
    BufSize = 2
    MaxVer = 2
    MaxEnds = 1
    ReadUnset = TRUE
    NULL = NULL
SPECIFICATION Spec
INVARIANTS
    TypeOK
    DirtyIsListed
    ReadsCurrent
PROPERTIES
    FoundOnceUnlessLost
    EachEnds
CHECK_DEADLOCK FALSE
