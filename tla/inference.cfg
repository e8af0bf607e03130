SPECIFICATION FairSpec
CONSTANTS
    r1 = r1
    r2 = r2
    w1 = w1
    w2 = w2
    Requests = {r1, r2}
    Workers = {w1, w2}
    MaxLaunches = 2
    QueueSize = 1
    BufferSize = 1
CHECK_DEADLOCK FALSE
INVARIANTS
    TypeOK
    NeverTwice
    ResponseFindsWaiter
PROPERTIES
    KeepsPromise
