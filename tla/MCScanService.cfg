SPECIFICATION ServiceSpec
CONSTANTS
    s1 = s1
    s2 = s2
    h1 = h1
    Scans = {s1, s2}
    Hosts = {h1}
    HostOf <- OneHost
    ProbeGuard = TRUE
    MaxJobs = 1
    PurgeToken = TRUE
    a1 = a1
    a2 = a2
    daily = daily
    button = button
    Advisories = {a1, a2}
    Unbounded = Unbounded
    Refreshers = {daily, button}
    Buttons = {button}
    MaxImages = 1
    Answers <- WizardAnswers
    MaxPasswords = 2
    StackAnswers <- AllAnswers
SYMMETRY Symmetry
INVARIANTS
    RatedAgainstTheFloor
    NamespaceWhole
    ProberForgotten
    HonestReceipt
    LineHoldsOnlyWaiting
    EveryRelevantQuestionIsAsked
    DeploymentIsKept
    StackHoldsTogether
PROPERTIES
    KeepsPromise
CHECK_DEADLOCK FALSE
