SPECIFICATION Spec
CONSTANTS
    Streams = {s1, s2, s3}
    Calls = {c1, c2}
    None = None
    OutboxCap = 1
    Faults = {"cut", "lost", "revoke"}
SYMMETRY Symmetry
INVARIANTS SessionAnswersOwn OnlineHasSession
CHECK_DEADLOCK FALSE
