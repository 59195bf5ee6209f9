SPECIFICATION FairSpec
CONSTANTS
    r1 = r1
    r2 = r2
    d1 = d1
    d2 = d2
    s1 = s1
    s2 = s2
    Routes = {r1, r2}
    Drivers = {d1, d2}
    NoOne = NoOne
    MaxAttempts = 2
    Batch = 2
    Limit = 2
    Sessions = {s1, s2}
    Principal <- MCPrincipal
    Ids = {1}
    Fields = {"routeEvents", "breakEvents"}
    Capacity = 1
    MaxMessages = 4
    Requests = {1, 2}
    Workloads <- MCWorkloads
    Wants <- MCWants
    Malformed = {2}
    MaxCalls = 5
INVARIANTS
    TypeOK
    LeakNeedsReuse
    NoChannelPanic
    DriverSawOwnRoutes
    WalkComplete
    PostsBounded
PROPERTIES
    StreamsEnd
    ImplementsProgress
    LegsAnnounced
    DeliveriesSettle
CHECK_DEADLOCK FALSE
