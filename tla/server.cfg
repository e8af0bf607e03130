SPECIFICATION FairSpec
CONSTANTS
    v9 = v9
    v10 = v10
    h1 = h1
    h2 = h2
    NoVersion = NoVersion
    Versions = {v9, v10}
    HttpWorkers = {h1}
    Callers = {"admin", "grpc"}
    Rank <- MCRank
    Configs <- MCConfigs
    MaxChanges = 1
    MaxSignals = 1
INVARIANTS
    TypeOK
    PollAgreesWithStartup
PROPERTIES
    PollSettles
    ShutdownCompletes
CHECK_DEADLOCK FALSE
