SPECIFICATION FairSpec
CONSTANTS
    Sessions = {s1, s2}
    Clients = {c1}
    Sweepers = {w1}
    MaxVersion = 3
PROPERTY ActiveExpires
