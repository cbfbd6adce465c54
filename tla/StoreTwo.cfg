SPECIFICATION Spec
CONSTANTS
    d1 = d1
    d2 = d2
    a = a
    b = b
    Device = {d1, d2}
    Key = {"post"}
    Value = {a, b}
    Seed <- SeedA
    NotLoaded = NotLoaded
    MaxWrites = 1
    MaxObservers = 1
    MaxDrops = 1
    MaxRestarts = 1
    MaxRefusals = 1
    MaxDenials = 1
INVARIANTS
    TypeOK
    VersionsOrdered
    AckedWriteCached
    SettledAgree
PROPERTIES
    ImplementsRecords
CONSTRAINT TwoMishaps
SYMMETRY DeviceSymmetry
CHECK_DEADLOCK FALSE
