SPECIFICATION FairSpec
CONSTANTS
    Writers = {w1, w2}
    MaxChunk = 3
    MaxMessage = 2
    MaxBuffer = 2
    MaxWrites = 3
    MaxFaults = 2
    ChecksClosed = TRUE
INVARIANTS NonceUnique InStep
PROPERTIES StreamSpec Delivered
CHECK_DEADLOCK FALSE
