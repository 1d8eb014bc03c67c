\* Five tpages and four usable pages: GC is at its limit, and past it may find
\* nothing to reclaim; the abort stops the system.
CONSTANTS
    s_sblk = 0
    e_sblk = 2
    PPS = 2
    NrTpages = 5
    OobZeroed = 1
SPECIFICATION Spec
INVARIANTS
    TypeOK
    MappingConsistent
    NandInStep
    CountsExact
    RolesSound
    AbortsOnlyWhenFull
PROPERTY
    ImplementsStore
CHECK_DEADLOCK FALSE
