SPECIFICATION BothSpec
CONSTANTS
    Cycles = {c1}
    Slots = {s1, s2}
    Requests = {q1, q2}
    Specs = {2, 4}
    Never = {4}
    None = None
    Gone = Gone
    Boot = 2
    MaxTime = 4
    MaxRestarts = 1

    Runs = {r1, r2}
    Device = d1
    Call = k1
INVARIANTS TypeOK ArmedHasNext OneCronRun
PROPERTIES DueIsHandled RunsEnd DevicesFreed
CHECK_DEADLOCK FALSE
