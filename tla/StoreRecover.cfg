SPECIFICATION FairSpec
CONSTANTS
    d1 = d1
    d2 = d2
    a = a
    b = b
    Device = {d1}
    Key = {"post"}
    Value = {a, b}
    Seed <- SeedA
    NotLoaded = NotLoaded
    MaxWrites = 2
    MaxObservers = 1
    MaxDrops = 1
    MaxRestarts = 1
    MaxRefusals = 1
    MaxDenials = 1
INVARIANTS
    CompletionsInOrder
    NewestWins
PROPERTIES
    Converges
    WritesEnd
CHECK_DEADLOCK FALSE
