SPECIFICATION FairSpec
CONSTANTS
    Dials = {d1, d2}
    Accepts = {a1, a2}
    Configs <- MCConfigs
    None = None
    d1 = d1
    d2 = d2
    a1 = a1
    a2 = a2
INVARIANTS Kept EndedOnlyThen BestProtocol 
PROPERTIES AcceptsWake CloseEnds Served
ACTION_CONSTRAINT InTurn
CHECK_DEADLOCK FALSE
