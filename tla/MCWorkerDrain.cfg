SPECIFICATION Spec
CONSTANTS
    doc = doc
    short = short
    long = long
    broken = broken
    j1 = j1
    j2 = j2
    Documents = {doc}
    DocOf <- MCDoc
    Count <- MCCount
    Texts = {short, long, broken}
    EmbedBatchSize = 1
    Jobs = {j1, j2}
    MaxAttempts = 2
    MaxWorkers = 2
    Plans <- MCStop
CHECK_DEADLOCK FALSE
INVARIANT DrainsBeforeExit
