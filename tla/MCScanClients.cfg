SPECIFICATION AgentSpec
CONSTANTS
    s1 = s1
    h1 = h1
    Scans = {s1}
    Hosts = {h1}
    HostOf <- OneHost
    ProbeGuard = TRUE
    MaxJobs = 1
    PurgeToken = TRUE
    MaxPolls = 2
INVARIANTS
    WaitedPlanIsNeverUnfinished
    ComparisonsAreErased
PROPERTIES
    AnswersMoveForwards
    TornAnswerIsLast
    EverythingExpires
    PollingEnds
    AgentIsAnswered
CHECK_DEADLOCK FALSE
