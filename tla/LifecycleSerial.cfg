SPECIFICATION Spec
CONSTANTS
    Instances = {i1, i2}
    Ops = {o1, o2, o3}
    None = None
    BasePort = 6520
    Toolchain = "cvd"
    ExecuteCvd = TRUE
    Faults = {"command", "timeout", "abort"}
    MaxCrashes = 2
    Overlap = 1
SYMMETRY Symmetry
INVARIANTS TransitionOwned RunningIsReal DeletedIsDown PortsDistinct
CHECK_DEADLOCK FALSE
