SPECIFICATION FairSpec
CONSTANTS
    Identities = {i1, i2}
    Passwords = {w1, w2}
    HeaderSize = 1
    PlainSize = 1
    TagSize = 1
    MaxCrashes = 1
    None = None
    Home = Home
    MaxRuns = 1
INVARIANTS Durable Agreement RightPeer 
 
CHECK_DEADLOCK FALSE
