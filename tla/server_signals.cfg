SPECIFICATION FairSpec
CONSTANTS
    v9 = v9
    v10 = v10
    h1 = h1
    h2 = h2
    NoVersion = NoVersion
    Versions = {v9, v10}
    HttpWorkers = {h1, h2}
    Callers = {"admin", "grpc"}
    Rank <- MCRank
    Configs <- SignalConfigs
    MaxChanges = 0
    MaxSignals = 2
PROPERTIES
    TwoSignalsEnd
CHECK_DEADLOCK FALSE
