SPECIFICATION Spec
CONSTANTS
    Runs = {r1, r2}
    Cycles <- OneCycle
    CycleOf <- AllRunsOfTheCycle
    TheCycle = TheCycle
    Devices = {d1, d2}
    Calls = {c1, c2}
    None = None
    NumCases = 1
    Expected = 1
    Disciplined = TRUE
    Faults = {}
    MaxRestarts = 0
INVARIANT EvidenceIsOwn
CHECK_DEADLOCK FALSE
