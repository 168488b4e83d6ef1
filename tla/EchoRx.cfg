SPECIFICATION FairSpec
CONSTANTS
    FifoSize = 3
    RxBufLen = 2
    MaxBytes = 6
INVARIANTS
    EchoExact
    SnapshotSound
    OneRxEvent
    LostOnlyInWindow
PROPERTIES
    ServiceSpec
    EventServed
    AllEchoed
CHECK_DEADLOCK FALSE
