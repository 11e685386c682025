SPECIFICATION MCSpec
CONSTANTS
    Conns = {c1, c2}
    Routes = {r1}
    Backends = {b1}
    Requests <- TwoVersions
    TTL = 0
    FailureTTL = 0
    MaxDials = 1
    MaxPolls = 1
    MaxEntries = 2
    MaxTime = 1
    Preface = 16
    V1Limit = 20
    MaxHandshake = 14
    MaxBuffered = 16
    MaxPacket = 6
    MaxPing = 4
    Chunk = 18
    Tokens <- MCTokens
    MaxTokens = 4
    Colors <- MCColors
    Decorations <- MCDecorations
    BadHex = {"#bad"}
    White = White
    Panic = Panic
    Upper <- MCUpper
    Alphabet = {"a", "A", "I", "."}
    MaxPattern = 3
    MaxText = 3
    MaxHost = 3
    IPs = {i1, i2}
    MaxTrackedIps = 1
    ForgetAfter = 2
    MaxTrackedRates = 1
    SweepCutoff = 2
    Policies <- MCPolicies
    Durations <- MCDurations
    MaxPerWindow = 2
    Window = 2
    BansMaxTime = 4
    MaxReports = 2
    None = None
    Scripts <- MCScripts
INVARIANTS
    TypesOK
    AnsweredForProtocol
    ReadAsSent
    BufferBounded
    RendersMarkup
    GreedyMatch
    AtMostTwiceTheRate
PROPERTIES
    PingsAnswered
    BansJust
