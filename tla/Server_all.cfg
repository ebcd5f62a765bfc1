SPECIFICATION ServerSpec
CONSTANTS
    Parts = {"serving", "limits", "user", "maintainers", "cascade", "audit", "egress"}
    Tokens = {"t1", "t2"}
    Peers = {"proxy", "other"}
    Networks = {{}, {"proxy"}}
    Claims = {{}, {"approver"}, {"engineers", "procurement"}}
    GroupGates <- SomeGroupGates
    OverlayMaps <- SomeOverlays
    EntryLists <- SomeEntryLists
    IngestCalls = {c1, c2, c3}
    Addrs = {a1, a2}
    BypassIPs = {a2}
    LimiterOptions <- SomeLimits
    Minute = 2
    MaxTick = 2
    MaxAdmits = 4
    SubmitCalls = {c1, c2}
    Rates = {1, 2}
    MaxRate = 2
    Per = 1
    MaxAge = 3
    MaxHold = 1
    MaxTime = 4
    MaxBuckets = 2
    Grants = {g1, g2}
    Askers = {a1, a2}
    CacheTTL = 2
    CacheMax = 1
    ReadHold = 1
    MaxNow = 4
    Gets = {q1, q2, q3}
    Upstreams = {u1}
    Paths = {p1}
    Capacity = 1
    TTL = 1
    ProbeTimeout = 1
    Window = 1
    ShadowDetection = TRUE
    MaxClock = 3
    MaxEvents = 4
    MaxDay = 2
    MaxBoots = 2
    BatchSize = 2
    AuditPolicies <- SomeAuditPolicies
    OutCalls = {c1, c2}
    MaxHops = 1
    a1 = a1
    g1 = g1
INVARIANTS
    GatesAreEarned
    WritesAreGated
    AdmissionBounded
    UserRateBounded
    StaleVerdictBounded
    FreshEnough
    WebhookPostsOnce
    HopsGated
CHECK_DEADLOCK FALSE
