CONSTANTS
    Objects = 2
    Jobs = 4
    Second = 2
    Day = 6
    Buffered = 3
    Settle = 2
    LateParts = TRUE
    Attempts = 3
    Horizon = 12
    MaxMishaps = 1
    a1 = a1
    a2 = a2
    x1 = x1
    x2 = x2
    h1 = h1
    h2 = h2
    k1 = k1
    k2 = k2
    AppId = {a1, a2}
    Path = {x1, x2}
    Host = {h1, h2}
    Secret = {k1, k2}
    NoHost = NoHost
    NoSecret = NoSecret
    RuleLimit = 6
    MaxUpdates = 2
    MaxErrors = 2
    q1 = q1
    Schema = {q1}
    Statements = 2
    Replacing = {2}
    Hashes = 2
    Beside = 0
    MaxRequests = 2
    MaxReruns = 1
    MaxFailed = 1
SPECIFICATION PlaneSpec
CHECK_DEADLOCK FALSE
INVARIANTS
    TypeOK
    NoObjectLost
    ReadOnce
    NoGap
    RoutesSettled
    KeptApps
    CreatesSucceed
    SchemaTypeOK
    ShownIsDeployed
    SchemasUpToDate
PROPERTIES
    EventuallyRead
    ExecutionsEnd
