SPECIFICATION FairSpec
CONSTANTS
    Args = {0, 3, 256, 258}
    MaxDatagrams = 2
INVARIANTS
    CountWithoutRace
    EarlyFreeOnlyIfUncounted
    ExitStatus
    
PROPERTY ProgramEnds
CHECK_DEADLOCK FALSE
