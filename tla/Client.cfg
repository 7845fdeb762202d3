SPECIFICATION Spec
CONSTANTS
    Focus = {"connection", "notifies", "copy", "cursor", "server_cursor", "io",
             "adapters", "pq", "connect"}
    Xids = {x1, x2}
    Settings = {s1, s2}
    NoXid = NoXid
    NoSettings = NoSettings
    MaxWrites = 1
    MaxNotifies = 4
    StopAfter = {0, 1, 2}
    BufferSize = 1
    MaxBuffer = 2
    QueueSize = 2
    MaxCalls = 5
    MaxRows = 2
    MaxExecs = 2
    Rows = {1, 2}
    TotalRows = 3
    Itersizes = {1, 2, 3}
    Strategies = {"poll", "epoll", "selector"}
    Cap = 1
    Commands = 3
    Conns = {"k1"}
    Threads = {"t"}
    ByName = FALSE
    Racing = FALSE
    MaxRegs = 2
    Callers = {"p1"}
    Builds = {"python", "c"}
    MaxCells = 3
    MaxObjs = 2
    HostLists <- MCHostLists
    AddrCounts = {0, 2}
    PortCounts = {1, 2}
    Timeouts <- MCTimeouts
    DefaultTimeout = 3
    Interval = 2
    MaxPolls = 1
    MaxHosts = 2
INVARIANTS
    TransactionsKept
    NotifiedOnce
    CopyFaithful
    ResultsOfCall
    PortalFollowed
    AnswersKept
    AdaptersCurrent
    PointersSafe
    AttemptsHonest
PROPERTIES
    WriterEnds
    Completes
    NewQueryCurrent
    ConnectEnds
CHECK_DEADLOCK FALSE
