SPECIFICATION KnowledgeSpec
CONSTANTS
    Totals <- MCTotals
    Sizes <- MCSizes
    Overlaps <- MCOverlaps
    MinCandidates = 2
    TopKs <- MCTopKs
    Whole = 2
    Alphas <- MCAlphas
    Scores = {0, 1, 2}
    MaxScored = 3
CHECK_DEADLOCK FALSE
INVARIANTS
    CoversText
    EachChunkIsNew
    NothingBetterLeftOut
    PassageIsFound
