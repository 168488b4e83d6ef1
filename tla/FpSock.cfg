SPECIFICATION FairSpec
CONSTANTS
    MAX_WORKERS = 2
    Packets = {p1, p2}
    Queues = {q1, q2}
    Counts = {0}
    Cpus = {1, 4}
    NoPacket = NoPacket
INVARIANTS
    PacketHasOneOwner
    TearDownOrder
    FrameOutlivesHook
PROPERTY StopEnds
CHECK_DEADLOCK FALSE
