SPECIFICATION FairSpec
CONSTANTS
    NumEvents = 3
    NumIter = 3
    MaxIter = 3
    MaxAhead = 2
INVARIANT AssertsHold
PROPERTY WheelDrains
CHECK_DEADLOCK FALSE
