SPECIFICATION OperationsSpec
CONSTANTS
    w1 = w1
    w2 = w2
    p1 = p1
    c1 = c1
    j1 = j1
    j2 = j2
    n1 = n1
    n2 = n2
    marker = marker
    rest = rest
    s1 = s1
    s2 = s2
    h1 = h1
    Scans = {s1, s2}
    Hosts = {h1}
    HostOf <- OneHost
    ProbeGuard = TRUE
    MaxJobs = 1
    PurgeToken = FALSE
    Workers = {w1, w2}
    Interval = 2
    Ttl = 6
    MaxRefusals = 1
    Nobody = Nobody
    Web = Web
    Followers = {c1}
    Presses = {p1}
    Jobs = {j1, j2}
    JobOf <- OnlyWorker
    Parts = {marker, rest}
    Marker = marker
    MaxReturns = 2
    Clients = {n1, n2}
    Limit = 2
    Window = 2
    MaxDeaths = 1
INVARIANTS
    AtMostLimit
    OpenEndedOnlyByDeath
    ReadinessIsHonest
    TriedOnce
    ReapedBeforeSlotIsFree
PROPERTIES
    LostWindowIsPutRight
    ProbesAsOneStep
    AcceptedScanEnds
CHECK_DEADLOCK FALSE
