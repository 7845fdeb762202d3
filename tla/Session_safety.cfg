CONSTANTS
    q1 = q1
    q2 = q2
    drop = drop
    nothing = nothing
    All = All
    Queries <- MCQueries
    Droppers <- MCDroppers
    Empties <- MCEmpties
    Threshold = 1
    PreparedMax = 1
    Flags = {"auto", "always"}
    MaxLevel = 2
    MaxNames = 2
    MaxErrors = 1
    MaxPending = 3
SPECIFICATION MCSpec
INVARIANTS
    ResultMatching
    PipelineDrained
    CacheCorrect
SYMMETRY Symmetry
