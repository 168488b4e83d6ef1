SPECIFICATION Spec
CONSTANTS
    NumProcesses = 3
    MaxSignals = 5
INVARIANT JumpsLand
CHECK_DEADLOCK FALSE
