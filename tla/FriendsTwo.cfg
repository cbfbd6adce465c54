SPECIFICATION FriendsSpec
CONSTANTS
    d1 = d1
    d2 = d2
    u1 = u1
    u2 = u2
    u3 = u3
    Device = {d1, d2}
    Key = {u1, u2}
    UserOf <- UserOfDevice
    Value <- AnyPerson
    Seed <- Invited
    NotLoaded = NotLoaded
    MaxWrites = 2
    MaxObservers = 1
    MaxDrops = 0
    MaxRestarts = 1
    MaxRefusals = 0
    MaxDenials = 0
INVARIANTS
    OnlyInvitedAccepts
    TapsPaired
CONSTRAINT OneRestarts
CHECK_DEADLOCK FALSE
