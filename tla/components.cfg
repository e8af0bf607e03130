SPECIFICATION Spec
CONSTANTS
    s1 = s1
    s2 = s2
    s3 = s3
    Steps = {s1, s2, s3}
    Unknown = Unknown
    v1 = v1
    v2 = v2
    k1 = k1
    t1 = t1
    t2 = t2
    Files <- MCFiles
    Keys = {k1}
    Scanners = {t1, t2}
    Main = {t1}
    NoKey = NoKey
    MaxEdits = 1
    MaxEvents = 2
    Plans <- MCPlans
    Warmups = 1
    MaxChunks = 1
    MaxClock = 4
    c1 = c1
    c2 = c2
    x1 = x1
    x2 = x2
    Calls = {c1, c2}
    Releases = {x1, x2}
    Composites = {x2}
    Anon = Anon
    MaxLoads = 2
    d1 = d1
    d2 = d2
    i1 = i1
    i2 = i2
    Dirs = {d1, d2}
    Importers = {i1, i2}
    MaxImports = 3
    p1 = p1
    h1 = h1
    h2 = h2
    Parent = Parent
    Children = {p1}
    Outputs = {h1, h2}
    Strict = {h2}
    MaxLogged <- MCMaxLogged
    PipeSize = 2
    m1 = m1
    m2 = m2
    high = high
    low = low
    Models = {m1, m2}
    Strategies = {high, low}
    NoStrategy = NoStrategy
    MaxUpdates = 3
CHECK_DEADLOCK FALSE
INVARIANTS
    TypeOK
    EnsembleSettles
    
    ResultsCounted
    GaugesBalance
    RecordsWritten
    ImportsSettle
    StrategiesKept
