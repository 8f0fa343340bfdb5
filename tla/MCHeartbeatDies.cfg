\* Two workers, and Redis that refuses one write.
SPECIFICATION HeartbeatSpec
CONSTANTS
    Workers = {w1, w2}
    Interval = 2
    Ttl = 6
    MaxRefusals = 1
    Nobody = Nobody
INVARIANTS
    RefreshedWhileUp
