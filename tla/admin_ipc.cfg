SPECIFICATION FairSpec
CONSTANTS
    a1 = a1
    a2 = a2
    a3 = a3
    b1 = b1
    wa = wa
    wb = wb
    NoCall = NoCall
    Calls = {a1, a2, a3, b1}
    Workers = {wa, wb}
    Worker <- MCWorker
    PoolSize = 2
CHECK_DEADLOCK FALSE
INVARIANTS
    TypeOK
    ResultTakenOnce
    SerialCallsMatch
PROPERTIES
    CommandsExecuted
    CallsEnd
