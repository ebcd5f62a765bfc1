SPECIFICATION MCIngestSpec
CONSTANTS
    Names = {m}
    m = m
    NumVersions = 3
    Bumpers = {b1, b2}
    Walkers = {w1, w2, w3}
    Refreshers = {r1}
    Reindexers = {x1}
    Placeholder = {}
    Starlark = {m}
    EmptyModule <- SomeEmptyModule
    AttrsInterpret = TRUE
    Faults = TRUE
    b1 = b1
    b2 = b2
    w1 = w1
    w2 = w2
    w3 = w3
    r1 = r1
    x1 = x1
SYMMETRY IngestSymmetry
INVARIANTS
    TreeServable
    WalkStaysListed
    IndexedIsMirrored
    FlagMatchesBlob
