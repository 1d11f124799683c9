SPECIFICATION Spec
CONSTANTS
    r1 = r1
    r2 = r2
    r3 = r3
    Relays = {r1, r2, r3}
    Peers = {p1}
    Requests = {q1}
    NoRoute = NoRoute
    InitLinks <- Pair
    Skew = 1
    MaxAnnounce = 2
    MaxDial = 1
    MaxDown = 1
ACTION_CONSTRAINT LateDials
INVARIANTS  RoutingInv NoRoutingLoop RequestClimbs
CHECK_DEADLOCK FALSE
