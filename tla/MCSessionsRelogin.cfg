SPECIFICATION Spec
CONSTANTS
    c1 = c1
    c2 = c2
    u1 = u1
    u2 = u2
    Conns = {c1, c2}
    Uuids = {u1}
    Backends = {b1}
    NoUuid = NoUuid
    Nobody = Nobody
    Logins <- SameIdentity
    Commands = {}
    Frames <- MCFrames
INVARIANT ConnectedAreListed
