CONSTANTS
    Clients = {c1}
    Reviewers = {r1, r2}
    PfWorkers = {p1, p2}
    AdWorkers = {a1, a2}
    Users = {u1}
    Coords = {m1}
    MaxId = 1
    MaxRetries = 1
    PendingCap = 0
    GitPublisher = TRUE
    StoreFaults = TRUE
    Crashes = TRUE
    MaxBoots = 2
    NoBody = NoBody
SYMMETRY Symmetry
VIEW WithoutHistory
SPECIFICATION Spec
INVARIANT TypeOK
INVARIANT ExclusiveOwnership
PROPERTY ImplementsLifecycle
