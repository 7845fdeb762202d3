CONSTANTS
    k1 = k1
    k2 = k2
    k3 = k3
    w1 = w1
    w2 = w2
    a1 = a1
    a2 = a2
    c1 = c1
    c2 = c2
    c3 = c3
    NoConn = NoConn
    Gone = Gone
    Clients <- Clients2
    Workers <- Workers1
    Callers <- Callers1
    Conns <- Conns3
    Sizes <- LargerSizes
    MinSize = 0
    MaxSize = 2
    MaxWaiting = 0
    HasReset = TRUE
    HasCheck = FALSE
    Methods = {"drain", "check", "resize"}
    Leaves = {"intrans"}
    MaxAttempts = 1
    MaxDrains = 1
    MaxResizes = 1
    QueueBound = 2
    Reliable = TRUE
    Patient = TRUE
SPECIFICATION Spec
INVARIANTS
    Bookkeeping
    WaitersGrowPool
SYMMETRY Symmetry
