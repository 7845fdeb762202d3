CONSTANTS
    p1 = p1
    p2 = p2
    a = a
    b = b
    stop = stop
    NoTask = NoTask
    Threads <- MCThreads
    Tasks <- MCTasks
    StopTasks <- MCStopTasks
    MaxTime = 3
    EmptyTimeout = 2
SPECIFICATION FairSpec
INVARIANTS
    NoLostWakeup
PROPERTIES
    EveryTaskRuns
CHECK_DEADLOCK FALSE
