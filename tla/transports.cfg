SPECIFICATION FairSpec
CONSTANTS
    Networks = {"tcp", "quic", "websocket", "kcp", "webtransport"}
    MaxChunk = 3
    MaxWrites = 3
    MaxBuffer = 2
 
PROPERTIES StreamSpec  
CHECK_DEADLOCK FALSE
