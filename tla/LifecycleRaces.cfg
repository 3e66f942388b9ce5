SPECIFICATION Spec
CONSTANTS
    Instances = {i1}
    Ops = {o1, o2, o3}
    None = None
    BasePort = 6520
    Toolchain = "cvd"
    ExecuteCvd = TRUE
    Faults = {"command", "cleanup", "vmdeath"}
    MaxCrashes = 0
    Overlap = 3
INVARIANT TypeOK
PROPERTIES OperationsFinish InstancesSettle FinalIsFinal
CHECK_DEADLOCK FALSE
