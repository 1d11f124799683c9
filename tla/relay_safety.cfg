SPECIFICATION Spec
CONSTANTS
    Conns = {c1, c2, c3, c4}
    Nodes = {n1}
    None = None
    MaxConnections = 3
SYMMETRY ConnSymmetry
INVARIANTS InboundLimit  PublishNeverBlocks TokenUsedOnce ClosedMeansClosed 
CHECK_DEADLOCK FALSE
