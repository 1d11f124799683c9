SPECIFICATION FairSpec
CONSTANTS
    Conns = {1, 2, 3}
    Nodes = {n1}
    None = None
    MaxConnections = 0
PROPERTIES ShutdownReleases AcceptSettles
ACTION_CONSTRAINT Roles
CHECK_DEADLOCK FALSE
