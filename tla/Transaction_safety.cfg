CONSTANTS
    b1 = b1
    b2 = b2
    b3 = b3
    Blocks <- MCBlocks
    Names <- MCNames
    MaxWrites = 2
SPECIFICATION Spec
INVARIANTS
    BlocksAtomic
    CommittedKept
    AssertionsHold
    ServerFollows
SYMMETRY Symmetry
CHECK_DEADLOCK FALSE
