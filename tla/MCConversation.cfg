SPECIFICATION Spec
CONSTANTS
    Sessions = {s1}
    Requests = {r1, r2}
    Tiers <- MCTiers
    MaxAttempts = 2
    MaxVersion = 3
    None = None
SYMMETRY Symmetry
CHECK_DEADLOCK FALSE
INVARIANTS
    OneReplyPerTurn
    NeverAnswersAnOlderTurn
    AcknowledgedMeansHandled
    CompletedMeansAnswered
PROPERTIES
    NoJobReplyToDeadSession
    ImplementsFSM
    ImplementsTurn
