SPECIFICATION FairSpec
CONSTANTS
    Fds = {f1, f2}
    NoFd = NoFd
    InitSlots = 1
    MaxSlots = 3
    MaxEvents = 3
    ExpectMin = 2
    Total = 2
    MaxConns = 2
    StreamUnits = {2}
    TxRoom = 1
    Cfgs = {"BI", "ECHO", "EXIT"}
    MaxStop = 2
    Delay = 1
PROPERTIES
    MessagesRead
    StopsInTheEnd
CHECK_DEADLOCK FALSE
