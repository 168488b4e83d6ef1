SPECIFICATION FairSpec
CONSTANTS
    FifoSize = 2
    RxBufLen = 3
    MaxBytes = 3
INVARIANT NoUnreadWithoutEvent
CHECK_DEADLOCK FALSE
