SPECIFICATION Spec
CONSTANTS
    Cycles = {c1}
    Slots = {s1}
    Requests = {}
    Specs = {2}
    Never = {2}
    None = None
    Gone = Gone
    Boot = 2
    MaxTime = 4
    MaxRestarts = 0
PROPERTY NothingSpins
CHECK_DEADLOCK FALSE
