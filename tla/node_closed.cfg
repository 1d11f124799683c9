SPECIFICATION Spec
CONSTANTS
    Connects = {c1, c2}
    Dials = {}
    Proxies = {}
    Accepts = {}
    None = None
PROPERTY ClosedStaysClosed
CHECK_DEADLOCK FALSE
