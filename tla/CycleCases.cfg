SPECIFICATION Spec
CONSTANTS
    Runs = {r1, r2}
    Cycles <- OneCycle
    CycleOf <- AllRunsOfTheCycle
    TheCycle = TheCycle
    Devices = {d1}
    Calls = {c1, c2}
    None = None
    NumCases = 2
    Expected = 2
    Disciplined = FALSE
    Faults = {"agent", "nodevice", "nocase", "store", "select"}
    MaxRestarts = 0
SYMMETRY Symmetry
INVARIANTS CaseOwned EvidenceIsOwn PassIsBacked RollupMatchesRows
CHECK_DEADLOCK FALSE
