SPECIFICATION VotesSpec
CONSTANTS
    d1 = d1
    d2 = d2
    u1 = u1
    u2 = u2
    Device = {d1, d2}
    Key = {"post"}
    User = {u1, u2}
    UserOf <- UserOfDevice
    Screen = {"feed", "profile"}
    Value <- AnyPost
    Seed <- SeedVoted
    NotLoaded = NotLoaded
    MaxWrites = 1
    MaxObservers = 1
    MaxDrops = 0
    MaxRestarts = 1
    MaxRefusals = 0
    MaxDenials = 0
INVARIANTS
    VotesConsistent
    NoForgedVote
    VotesSettle
CHECK_DEADLOCK FALSE
