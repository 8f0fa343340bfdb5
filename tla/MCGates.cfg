SPECIFICATION GatesSpec
CONSTANTS
    w1 = w1
    w2 = w2
    w3 = w3
    v1 = v1
    v2 = v2
    v3 = v3
    h1 = h1
    h2 = h2
    h3 = h3
    o1 = o1
    Strikers = {w1, w2, w3}
    Limit = 2
    Window = 2
    Block = 2
    BlockMax = 3
    RepeatWindow = 2
    MaxRepeat = 2
    MaxDeaths = 1
    Visitors = {v1, v2, v3}
    Hosts = {h1, h2, h3}
    Configured = {h1}
    Operators = {o1}
    MaxStored = 1
    Cooldown = TRUE
SYMMETRY Symmetry
INVARIANTS
    EscalatesOncePerBlock
    RememberedFromItsEnd
    OpenEndedOnlyByDeath
    CooldownHasOneHolder
PROPERTIES
    ExclusionTakesEffect
CHECK_DEADLOCK FALSE
