SPECIFICATION Spec
CONSTANTS
    admin = admin
    poller = poller
    v9 = v9
    v10 = v10
    NoVersion = NoVersion
    Threads = {admin, poller}
    Versions = {v9}
    Ensembles = {}
    Rank <- MCRank
    Orchestrations <- MCOrchestrations
    Ops <- AllOps
    MaxLaunches = 2
SYMMETRY Symmetry
INVARIANTS
    TypeOK
    NoOrphanWorkers
    OneOwner
    LoadsExclude
    ReadyIsServed
    SettledConsistent
