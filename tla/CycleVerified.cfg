SPECIFICATION Spec
CONSTANTS
    Runs = {r1}
    Cycles <- OneCycle
    CycleOf <- AllRunsOfTheCycle
    TheCycle = TheCycle
    Devices = {d1}
    Calls = {c1, c2}
    None = None
    NumCases = 1
    Expected = 2
    Disciplined = FALSE
    Faults = {}
    MaxRestarts = 0
INVARIANT PassIsVerified
CHECK_DEADLOCK FALSE
