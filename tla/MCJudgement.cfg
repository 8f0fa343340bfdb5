SPECIFICATION JudgementSpec
CONSTANTS
    c1 = c1
    c2 = c2
    c3 = c3
    h1 = h1
    v1 = v1
    MaxLine = 3
    MaxPatch = 1
    LtsWindow = 1
    LastDay = 1
    Named = {"rolling", "production"}
    Checks = {c1, c2, c3, h1}
    Hardcoded = {h1}
    Patterns <- SomePatterns
    MaxRecords = 3
    LastMoment = 3
    Window = 2
    Severity <- FourChecks
    Unactionable = {2}
    Watched = {c1}
    MadeBy <- ThreeScanners
    Legacy = "legacy"
    SupportedUntil <- TwoSchedules
    LastDate = 2
    Measures = {h1}
    Advisories = {v1}
    Silent = Silent
    Encounters <- ScanCases
INVARIANTS
    LifecycleIsSound
    NextExpiryIsExact
    PlanKeepsItsWord
    ExplanationFitsTheFacts
    NothingUnseenIsUnchanged
    LostCoverageKeepsAlerting
    OpeningCoverageIsHonest
    WaiversHideNoEvidence
    NotOpenCloudIsLeftAlone
    StillFailingWhenAskedAgain
PROPERTIES
    EndOfLifeIsForGood
CHECK_DEADLOCK FALSE
