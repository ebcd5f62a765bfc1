SPECIFICATION StreamsSpec
CONSTANTS
    Parts = {"walk", "bus", "reload", "cascade"}
    Keys = {a, b, c, d, e, f, g}
    a = a
    Few = {a, b, c}
    b = b
    c = c
    d = d
    e = e
    f = f
    g = g
    Root = a
    Seeds <- JustRoot
    Workers = {w1, w2}
    One = {w1}
    w1 = w1
    w2 = w2
    NoKey = NoKey
    Setups <- WalkSetups
    Publishers = {p1, p2}
    Detached = {p1}
    Streams = {s1}
    Buf = 1
    MaxEvents = 3
    MayLeave = TRUE
    MayClose = TRUE
    MaxEdits = 3
    BadEdits = {2}
    Gets = {g1}
    Upstreams = {u1, u2, u3}
    Paths = {p1}
    Capacity = 2
    TTL = 1
    ProbeTimeout = 1
    Window = 1
    ShadowDetection = TRUE
    MaxClock = 1
INVARIANTS
    ClosureExact
    StreamFaithful
    No404OverHit
PROPERTIES
    WalkTerminates
    ShutdownEndsStreams
    SignalledIsLoaded
    EveryGetReturns
CHECK_DEADLOCK FALSE
