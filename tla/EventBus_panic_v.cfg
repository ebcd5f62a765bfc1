SPECIFICATION BusSpec
CONSTANTS
    Publishers = {p1}
    Detached = {p1}
    p1 = p1
    Streams = {s1}
    s1 = s1
    Buf = 1
    MaxEvents = 1
    MayLeave = TRUE
    MayClose = FALSE
INVARIANTS
    PublishReturns
CHECK_DEADLOCK FALSE
