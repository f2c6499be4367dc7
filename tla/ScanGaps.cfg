SPECIFICATION Spec
CONSTANTS
    w1 = w1
    w2 = w2
    c1 = c1
    c2 = c2
    z = z
    Worker <- TwoWorkers
    Creator <- TwoCreators
    Wizard <- OnePage
    Casts <- ClickCasts
    MaxJobs = 2
    Lease = 1
CHECK_DEADLOCK FALSE
\* TLC stops at the first that is violated: leave the one to be shown.
INVARIANTS OneInFlight LapseIsTrue
