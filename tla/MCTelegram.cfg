SPECIFICATION TelegramSpec
CONSTANTS
    ann = ann
    bob = bob
    group = group
    own = own
    u1 = u1
    u2 = u2
    Sessions = {s1, s2}
    Requests = {r1, r2}
    Updates = {u1, u2}
    Users = {ann, bob}
    UserOf <- TwoUsers
    Chats = {group}
    ChatOf <- OneChat
    Tiers <- MCTiers
    MaxAttempts = 1
    MaxVersion = 0
    None = None
SYMMETRY Symmetry
CHECK_DEADLOCK FALSE
INVARIANTS
    AckedIsStored
    RepliesAreOfTheSendersSession
