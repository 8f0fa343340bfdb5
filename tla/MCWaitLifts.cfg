\* Two clients of one network, two requests in a window of two seconds.
SPECIFICATION LimitSpec
CONSTANTS
    Clients = {c1, c2}
    Limit = 2
    Window = 2
    MaxDeaths = 1
INVARIANTS
    WaitLiftsTheLimit
