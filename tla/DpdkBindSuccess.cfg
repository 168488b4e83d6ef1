SPECIFICATION Spec
CONSTANTS
    Nics = {"0000:01:00.0", "0000:02:00.0"}
    Drivers = {"ixgbe", "igb_uio", "vfio-pci"}
    Loaded = {"ixgbe", "igb_uio"}
    Module = "ixgbe"
    Subsystem = "X520-2"
    NoDriver = "none"
    MaxRuns = 3
INVARIANT SuccessIsTrue
CHECK_DEADLOCK FALSE
