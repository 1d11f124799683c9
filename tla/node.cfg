SPECIFICATION FairSpec
CONSTANTS
    c1 = c1
    c2 = c2
    Connects = {c1, c2}
    Dials = {d1}
    Proxies = {p1}
    Accepts = {a1}
    None = None
INVARIANTS Owned
PROPERTIES CallerKeeps StopReleases ConnectSettles
ACTION_CONSTRAINT InTurn
CHECK_DEADLOCK FALSE
