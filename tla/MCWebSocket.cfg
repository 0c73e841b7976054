SPECIFICATION FairSpec
CONSTANTS
    s = s
    other = other
    c1 = c1
    c2 = c2
    Sessions = {s, other}
    Conns = {c1, c2}
    SessionOf <- MCSessionOf
    Capacity = 1
    MaxMsgs = 2
    None = None
    Limit = 1
    MaxMinute = 1
    Never = Never
CHECK_DEADLOCK FALSE
INVARIANTS
    NeverSendsOnClosed
    MissesOnlyWhenFull
    AdmittedWithinLimit
PROPERTY GoneIsReleased
