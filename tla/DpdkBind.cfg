SPECIFICATION Spec
CONSTANTS
    Nics = {"0000:01:00.0", "0000:02:00.0"}
    Drivers = {"ixgbe", "igb_uio", "X520-2"}
    Loaded = {"ixgbe", "igb_uio"}
    Module = "ixgbe"
    Subsystem = "X520-2"
    NoDriver = "none"
    MaxRuns = 3
INVARIANTS
    SuccessMeansBound
    FailureHarmless
PROPERTY UnboundIsFinal
CHECK_DEADLOCK FALSE
