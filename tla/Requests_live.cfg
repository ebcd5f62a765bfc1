CONSTANTS
    Clients = {c1}
    Reviewers = {r1}
    PfWorkers = {p1}
    AdWorkers = {a1}
    Users = {u1}
    Coords = {m1}
    MaxId = 2
    MaxRetries = 1
    PendingCap = 0
    GitPublisher = TRUE
    StoreFaults = FALSE
    Crashes = FALSE
    MaxBoots = 1
    NoBody = NoBody
SPECIFICATION FairSpec
INVARIANT AdmitAudited
PROPERTY Progress
