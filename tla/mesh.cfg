SPECIFICATION FairSpec
CONSTANTS
    Conns = {c1, c2, c3}
    Addrs = {a1, a2}
    Seeds = {a1}
    MaxNeighbors = 2
    None = None
INVARIANTS ServedIsRegistered
PROPERTIES MeshDissolves KeepsDialling
CHECK_DEADLOCK FALSE
