SPECIFICATION FairSpec
CONSTANTS
    Handles = {h1, h2}
    MaxSessions = 3
    MaxPackets = 2
    BufLen = 3
    CtFifoSize = 2
    PeerBuf = 2
    Totals = {0, 4, 7}
PROPERTY ClientEnds
CHECK_DEADLOCK FALSE
