SPECIFICATION FairSpec
CONSTANTS
    c1 = c1
    c2 = c2
    u1 = u1
    u2 = u2
    Conns = {c1, c2}
    Uuids = {u1, u2}
    Backends = {b1}
    NoUuid = NoUuid
    Nobody = Nobody
    Logins <- OwnIdentities
    Commands = {"disconnect", "transfer"}
    Frames <- MCFrames
INVARIANTS
    TypeOK
    BooksBalance
    InjectedFramingMatches
PROPERTY OverLimitEnds
