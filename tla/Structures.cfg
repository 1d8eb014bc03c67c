CONSTANTS
    NULL = NULL
    Junk = Junk
    Header = Header
    Refused = Refused

    \* Four requests; the clock stops at two slacks.
    Requests = {r1, r2, r3, r4}
    MaxTime = 2
    SLACK = 1

    \* Three nodes, two data.
    ListNodes = {n1, n2, n3}
    Data = {d1, d2}

    \* Three keys, nodes and levels.
    SkipNodes = {k1, k2, k3}
    SkipKeys = {1, 2, 3}
    MAX_L = 4
    MaxVer = 2

    \* Six entries, two in a page; one page cached; a table of two rows.
    NrTpages = 3
    EPP = 2
    Capacity = 1
    HotTpages = 2
    HotT = 2
    MAX_PROBE = 3
    MaxHits = 2
    MaxPlace = 1

    \* Four LUNs of two blocks: two lines.
    nchs = 2
    luns_per_ch = 2
    pls_per_lun = 1
    blks_per_pl = 2
    pgs_per_blk = 2
    LineRun = 5

    \* Two LUNs and a line; the clock stops at two.
    ClockChs = 2
    ClockLuns = 1
    ClockPls = 1
    ClockBlks = 1
    ClockPgs = 2
    NAND_READ = 1
    NAND_WRITE = 2
    NAND_ERASE = 3
    MaxRun = 3
    MaxNow = 2
    MaxWork = 1
SPECIFICATION Spec
INVARIANTS
    LinksSound
    SortedWithinSlack
    PathKept
    LinesAgree
    DueAfterNand
PROPERTIES
    ImplementsPool
    Served
    ImplementsRecency
    ImplementsMap
    InTurn
