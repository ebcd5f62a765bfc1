SPECIFICATION IngestSpec
CONSTANTS
    Names = {m}
    m = m
    NumVersions = 2
    Bumpers = {b1, b2}
    Walkers = {}
    Refreshers = {}
    Reindexers = {}
    Placeholder = {}
    Starlark = {m}
    EmptyModule = {}
    AttrsInterpret = FALSE
    Faults = FALSE
    b1 = b1
    b2 = b2
INVARIANTS
    MirroredStaysListed
