SPECIFICATION Spec
CONSTANTS
    Conns = {c1, c2}
    Nodes = {n1}
    None = None
    MaxConnections = 0
INVARIANT AnnouncedIsListed
CHECK_DEADLOCK FALSE
