\* Two threads on either side of a completion ring, one of them alone on one
\* side, or on both, of the other kinds.  Four entries; the indices, modulo 8, wrap
\* around with the second item.
CONSTANTS
    Producers = {p1, p2}
    Consumers = {c1, c2}
    RingTypes = {"SP_SC", "MP_SC", "MP_MC"}
    Size = 4
    Width = 8
    Start = 6
    Batches = {1, 2}
    Quota = 2
    Empty = Empty
SPECIFICATION Spec
INVARIANTS
    TypeOK
    CountedIsThere
PROPERTIES
    CallsEnd
    ImplementsFifo
