SPECIFICATION SourceSpec
CONSTANTS
    Coords = {m1}
    SourceCalls = {c1, c2}
    MaterializeOnly = {c2}
    Members = 2
    MaxEntries = 1
    MaxMirrored = 1
    MaxSourceCrash = 0
INVARIANTS
    SentinelMeansComplete
CHECK_DEADLOCK FALSE
