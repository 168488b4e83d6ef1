SPECIFICATION FairSpec
CONSTANTS
    Handles = {h1, h2}
    MaxSessions = 3
    MaxPackets = 2
    Quads = 3
    QuadDigits = 2
    Base = 2
    BufLen = 3
    CtFifoSize = 2
    PeerBuf = 2
    Totals = {0, 4, 7}
INVARIANTS
    LoopMeansBound
    HashSound
    CrashCauses
    PatternSent
    ParsesAddresses
PROPERTIES
    WaitEnds
    ConnectedClientEnds
CHECK_DEADLOCK FALSE
