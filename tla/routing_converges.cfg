SPECIFICATION FairSpec
CONSTANTS
    r1 = r1
    r2 = r2
    r3 = r3
    Relays = {r1, r2, r3}
    Peers = {p1}
    Requests = {}
    NoRoute = NoRoute
    InitLinks <- Chain
    Skew = 0
    MaxAnnounce = 2
    MaxDial = 1
    MaxDown = 0
PROPERTY Converges
CHECK_DEADLOCK FALSE
