SPECIFICATION FairSpec
CONSTANTS
    a = a
    b = b
    c = c
    nowhere = nowhere
    Nodes = {a, b, c}
    Missing = {nowhere}
    Keys <- MCKeys
    LoopKeys <- MCLoopKeys
    Graphs <- MCGraphs
CHECK_DEADLOCK FALSE
INVARIANTS
    PathIndexed
    PathIsWalk
    WithinLimit
    BuiltIsClosed
PROPERTY Terminates
