SPECIFICATION Spec
CONSTANTS
    k1 = k1
    k2 = k2
    k3 = k3
    w1 = w1
    w2 = w2
    a1 = a1
    c1 = c1
    c2 = c2
    c3 = c3
    NoConn = NoConn
    NoTask = NoTask
    Gone = Gone
    Clients <- Clients2
    Workers <- Workers1
    Callers <- Callers1
    Conns <- Conns2
    MinSize = 1
    MaxSize = 1
    MaxWaiting = 1
    HasReset = FALSE
    HasCheck = TRUE
    Methods = {"close", "drain", "check", "resize", "wait"}
    NewSizes <- Sizes
    Leaves = {"idle", "intrans", "active"}
    Reliable = FALSE
    Patient = FALSE
    MaxCancels = 1
    MaxCalls = 2
    MaxAttempts = 1
SYMMETRY Symmetry
CHECK_DEADLOCK FALSE
INVARIANTS
    Bookkeeping
    LateClients
    DrainedStayOut
PROPERTIES
    ImplementsLeases
