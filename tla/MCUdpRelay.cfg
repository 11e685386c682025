SPECIFICATION Spec
CONSTANTS
    i1 = i1
    Kinds = {"forward", "voice", "proxied"}
    Clients = {c1, c2}
    IPs = {i1}
    IpOf <- MCIpOf
    Vias = {v1, v2}
    Players = {p1, p2}
    Ids = {s1, s2}
    Throttles <- MCThrottles
    None = None
SYMMETRY Symmetry
INVARIANTS TypeOK CountsExact ViaMatches NothingOutlives
PROPERTY SessionsCapped
