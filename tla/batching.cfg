SPECIFICATION FairSpec
CONSTANTS
    r1 = r1
    r2 = r2
    r3 = r3
    p1 = p1
    p2 = p2
    Requests = {r1, r2, r3}
    Large = {r1, r2, r3}
    Buffers = {p1, p2}
    Home <- MCHome
    MaxBatch = 2
    BatchTimeout = TRUE
    RequestTimeout = 2
    GCInterval = 1
    QueueSize = 2
    MaxTime = 3
CHECK_DEADLOCK FALSE
INVARIANTS
    TypeOK
    SegmentsAccounted
PROPERTIES
    TakenAnswered
