SPECIFICATION Spec
CONSTANTS
    d1 = d1
    d2 = d2
    u1 = u1
    u2 = u2
    Absent = Absent
    NoKey = NoKey
    NotLoaded = NotLoaded
INVARIANTS
    ConversationKept
    PostedAsMeant
    AccountsKept
CONSTRAINT Bounds
CHECK_DEADLOCK FALSE
