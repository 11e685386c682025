SPECIFICATION PeersReadSpec
CONSTANTS
    c1 = c1
    c2 = c2
    u1 = u1
    u2 = u2
    Conns = {c1}
    Uuids = {u1}
    Backends = {b1}
    NoUuid = NoUuid
    Nobody = Nobody
    Logins <- OneLogin
    Commands = {"disconnect"}
    Frames <- MCFrames
PROPERTY KickEnds
