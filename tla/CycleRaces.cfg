SPECIFICATION Spec
CONSTANTS
    Runs = {r1, r2}
    Cycles <- OneCycle
    CycleOf <- AllRunsOfTheCycle
    TheCycle = TheCycle
    Devices = {d1, d2}
    Calls = {c1}
    None = None
    NumCases = 1
    Expected = 1
    Disciplined = FALSE
    Faults = {"timeout", "delete"}
    MaxRestarts = 1
SYMMETRY Symmetry
INVARIANTS TypeOK RunningHasExecutor DeviceExclusive
PROPERTY VerdictIsFinal
CHECK_DEADLOCK FALSE
