CONSTANTS
    k1 = k1
    k2 = k2
    k3 = k3
    w1 = w1
    w2 = w2
    a1 = a1
    a2 = a2
    c1 = c1
    c2 = c2
    c3 = c3
    NoConn = NoConn
    Gone = Gone
    Clients <- Clients2
    Workers <- Workers1
    Callers <- Callers1
    Conns <- Conns2
    Sizes <- NoSizes
    MinSize = 1
    MaxSize = 1
    MaxWaiting = 0
    HasReset = FALSE
    HasCheck = FALSE
    Methods = {"close"}
    Leaves = {"intrans", "unknown"}
    MaxAttempts = 1
    MaxDrains = 0
    MaxResizes = 0
    QueueBound = 3
    Reliable = FALSE
    Patient = FALSE
SPECIFICATION Spec
INVARIANTS
    NobodyWaitsOnClosedPool
SYMMETRY Symmetry
