SPECIFICATION FairSpec
CONSTANTS
    Sessions = {s1, s2}
    Clients = {c1}
    Sweepers = {w1, w2}
    MaxVersion = 3
INVARIANTS
    SnapshotsTrail
    SweepIsThorough
    ExpiredIsOverdue
PROPERTIES
    ImplementsFSM
    ActiveExpiresUnlessBlocked
