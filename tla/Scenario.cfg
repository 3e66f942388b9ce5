SPECIFICATION BothSpec
CONSTANTS
    TheRun = r1
    Runs = {r1, r2}
    Tests = {t1}
    Plans <- StepPlans
    Devices = {d1}
    None = None
    Torn = Torn
    Gone = Gone
    LocateTries = 4
    QueryTries = 3
    ExecuteCvd = TRUE
    Faults = {"adb", "vision", "disk", "deadline", "kill", "silent"}
    MaxScreens = 2
    MaxRestarts = 0
INVARIANTS TypeOK PassIsEarned EvidenceGrounds RowTellsRun VideoIsOwn
PROPERTY TheRunGetsVerdict
CHECK_DEADLOCK FALSE
