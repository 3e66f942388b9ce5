SPECIFICATION ReachSpec
CONSTANTS
    Streams = {s1}
    Calls = {c1, c2}
    None = None
    OutboxCap = 1
    Faults = {"cut", "lost", "revoke"}

    Handsets = {h1, h2}
    Tcp = {h2}
    PhoneRows = {p1}
    Sizes = {1, 2}
    NoPhone = NoPhone
    MaxChanges = 2
    MaxFaults = 1
INVARIANT ReachTypeOK
PROPERTIES KeepsPromise RowsFollowHandsets WritesWereSeen
CHECK_DEADLOCK FALSE
