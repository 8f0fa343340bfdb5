SPECIFICATION Spec
CONSTANTS
    s1 = s1
    h1 = h1
    h2 = h2
    Scans = {s1}
    Hosts = {h1, h2}
    HostOf <- OneHost
    ProbeGuard = TRUE
    MaxJobs = 1
    PurgeToken = TRUE
INVARIANTS
    ReceiptCoversEveryKey
CHECK_DEADLOCK FALSE
