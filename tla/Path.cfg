\* A reader and a read-modify-write worker with a queue depth of one, two
\* completion threads, rings of one entry; one read goes to retry_q once, because
\* the flash is slow or because its translation page was never written.
CONSTANTS
    Streams = {s1}
    Rmws = {m1}
    Completers = {c1, c2}
    NrReqs = 2
    Rounds = 1
    iodepth = 1
    ReqCap = 1
    FinishCap = 1
    MaxSuspends = 1
    NULL = NULL
SPECIFICATION Spec
INVARIANTS
    TypeOK
    OnePlace
    CountsInFlight
PROPERTIES
    EndsWhenDue
    AllEnd
