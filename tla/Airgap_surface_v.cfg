SPECIFICATION MirrorSpec
CONSTANTS
    Parts = {"airgap"}
    Coord <- TwoVersions
    Modes = {"git-direct", "git-pr"}
    Faults = TRUE
    ForgeFaults = TRUE
    MaxCommits = 3
    NoCoord = NoCoord
    MaxPushes = 3
    Quiet = {2}
    PollInterval = 1
    MaxInterval = 2
    MaxKills = 1
    Mirrored = {c1}
    Coords = {m1, m2}
    SourceCalls = {c1, c2, c3}
    MaterializeOnly = {c3}
    Members = 2
    MaxEntries = 1
    MaxMirrored = 1
    MaxSourceCrash = 1
    MaxBytes = 1
    Archives <- TwoEntries
    Rows = {r1, r2}
    ModuleOf <- OneModule
    MaxRevision = 2
    MaxStarts <- StartBounds
    Segments <- SomeSegmentSet
    SegmentLess <- SegmentOrder
    Number <- SomeNumber
    Versions <- SomeVersionSet
    VersionLess <- VersionOrder
    Listings <- SomeListings
    YankSets <- SomeYankSets
    Refreshers = {r1, r2}
    MaxFacts = 2
    Declarations <- SomeDeclarations
    closureMaxDepth = 2
    MaxIngests = 1
    OwnRefs <- SomeOwnRefs
    Uses <- SomeUses
    DrivenRefs <- SomeDrivenRefs
    Placeholder <- SomePlaceholder
    MaxBumps = 2
    Corpora <- SomeCorpora
    DiffModules = {m1, m2, m3}
    DiffWorkers = {w1, w2}
    NoJob = NoJob
    MaxFindings = 2
    r1 = r1
    r2 = r2
INVARIANTS
    IngestedSurfaceKept
CHECK_DEADLOCK FALSE
