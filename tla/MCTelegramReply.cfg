SPECIFICATION TelegramSpec
CONSTANTS
    ann = ann
    bob = bob
    group = group
    own = own
    u1 = u1
    u2 = u2
    Sessions = {s1}
    Requests = {r1, r2}
    Updates = {u1, u2}
    Users = {ann}
    UserOf <- OneUser
    Chats = {group, own}
    ChatOf <- TwoChats
    Tiers <- MCTiers
    MaxAttempts = 1
    MaxVersion = 0
    None = None
CHECK_DEADLOCK FALSE
INVARIANTS
    ReplyIsOfThisTurn
