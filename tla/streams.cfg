SPECIFICATION FairSpec
CONSTANTS
    s1 = s1
    s2 = s2
    Streams = {s1, s2}
    MaxChunks <- MCMaxChunks
    MaxOutputs <- MCMaxOutputs
    Ageing = {s1}
    Unversioned = {s1}
    QueueSize = 2
CHECK_DEADLOCK FALSE
INVARIANTS
    TypeOK
    StreamsComplete
    NoSessionLeft
    NoLostWakeup
PROPERTIES
    SessionsEnd
