SPECIFICATION VerifySpec
CONSTANTS
    Mirrored = {c1}
INVARIANTS
    ReingestRepairs
CHECK_DEADLOCK FALSE
