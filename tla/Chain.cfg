SPECIFICATION Spec
CONSTANTS
    w1 = w1
    w2 = w2
    w3 = w3
    p1 = p1
    p2 = p2
    Writer <- ThreeWriters
    Reader <- OneReader
    Attempts = 3
    Month <- MCMonth
    Draws = {0, 1}
    StepAcrossMonth = FALSE
    MaxTime = 3
    MaxRestarts = 1
SYMMETRY Like
CHECK_DEADLOCK FALSE
INVARIANTS ChainVerifies NoLostUpdate NobodyStarves MemoSound
