SPECIFICATION FairSpec
CONSTANTS
    admin = admin
    poller = poller
    v9 = v9
    v10 = v10
    NoVersion = NoVersion
    Threads = {admin, poller}
    Versions = {v9, v10}
    Ensembles = {v10}
    Rank <- MCRank
    Orchestrations <- MCOrchestrations
    Ops <- EnsembleOps
    MaxLaunches = 1
INVARIANTS
    ReadyModelIsRouted
PROPERTIES
    StrayWorkersReaped
    OperationsReturn
