\* One host of the environment's, and hosts two operators may exclude.
SPECIFICATION AdmissionSpec
CONSTANTS
    Visitors = {v1}
    Hosts = {h1, h2, h3}
    Configured = {h1}
    Operators = {o1, o2}
    MaxStored = 2
    Cooldown = TRUE
INVARIANTS
    PromisedIsExcluded
CHECK_DEADLOCK FALSE
