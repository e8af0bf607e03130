SPECIFICATION Spec
CONSTANTS
    admin = admin
    poller = poller
    v9 = v9
    v10 = v10
    NoVersion = NoVersion
    Threads = {admin, poller}
    Versions = {v9, v10}
    Ensembles = {}
    Rank <- MCRank
    Orchestrations <- MCOrchestrations
    Ops <- RoleOps
    MaxLaunches = 2
INVARIANTS
    ActiveIsReady
    MaxLoadedRespected
