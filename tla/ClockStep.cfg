SPECIFICATION Spec
CONSTANTS
    w1 = w1
    w2 = w2
    w3 = w3
    p1 = p1
    p2 = p2
    Writer <- TwoWriters
    Reader <- NoReaders
    Attempts = 3
    Month <- MCMonth
    Draws = {0, 1}
    StepAcrossMonth = TRUE
    MaxTime = 3
    MaxRestarts = 0
SYMMETRY Like
CHECK_DEADLOCK FALSE
INVARIANT SameVerdict
