CONSTANTS
    Clients = {c1, c2}
    Reviewers = {r1}
    PfWorkers = {p1}
    AdWorkers = {a1}
    Users = {u1, u2}
    Coords = {m1, m2}
    MaxId = 3
    MaxRetries = 1
    PendingCap = 1
    GitPublisher = FALSE
    StoreFaults = FALSE
    Crashes = TRUE
    MaxBoots = 3
    NoBody = NoBody
SYMMETRY Symmetry
VIEW CastView
SPECIFICATION CastSpec
INVARIANT SubmitRacesBounded
INVARIANT RestartsBounded
