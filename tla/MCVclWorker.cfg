SPECIFICATION BufferSpec
CONSTANTS
    Fds = {f1, f2}
    NoFd = NoFd
    InitSlots = 2
    MaxSlots = 2
    MaxEvents = 2
    ExpectMin = 2
    Total = 2
    MaxConns = 3
    StreamUnits = {2}
    TxRoom = 1
    Cfgs = {"UNI", "NONE", "BAD", "OTHER", "EXIT"}
    MaxStop = 2
    Delay = 1
SYMMETRY FdSymmetry
INVARIANTS
    SlotOwnsSession
    NfdsExact
    BatchValid
    SlotsAccounted
    SwallowedOnlyIfStale
    ResultsBounded
    StopAdjusted
PROPERTY WorkerServiceSpec
CHECK_DEADLOCK FALSE
