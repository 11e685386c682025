SPECIFICATION MCSpec
CONSTANTS
    Keys = {k1, k2}
    Lookups = {n1, n2}
    Ttl = 2
    NegativeTtl = 1
    IdleEvict = 1
    MaxEntries = 2
    LookupMax = 1
    DnsMaxTime = 4
    Upper <- MCUpper
    Patterns <- MCPatterns
    Hosts <- MCHosts
    Strategies = {"sequential", "random", "round-robin", "least-connections", "lowest-latency"}
    Conns = {n1, n2}
    Millis = {1, 2}
    LatencyTtl = 0
    Width = 3
    RouteMaxTime = 1
    MaxHost = 3
    Panic = Panic
    Routes = {1, 2, 3}
    Bad = 3
    Messages = {m1, m2}
    Watchers = {"config", "messages"}
    Consoles = {}
    Apis = {a1}
    Edited = {"config", "messages"}
    MaxEdits = 2
    Empty = Empty
    Relays = {r1}
    Counters = {n1, n2}
    Requests = {"reset", "drop", "add"}
    AutoReset = TRUE
    MaxBytes = 2
    Threads = {n1, n2}
    MaxLines = 2
    MaxRolled = 2
    MaxArchived = 1
    MaxQueued = 1
    MaxLogged = 4
    MaxCrashes = 2
    None = None
SYMMETRY Symm
INVARIANTS
    TypesOK
    MarksAreRefreshes
    OrderSound
    RotationEven
    RuntimesFollowRoutes
    LiveMatchesFiles
    TotalsPersisted
    NeverOvercounts
    LinesKept
PROPERTY FreshStays
