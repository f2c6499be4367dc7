SPECIFICATION Spec
CONSTANTS
    w1 = w1
    w2 = w2
    c1 = c1
    c2 = c2
    z = z
    Worker <- TwoWorkers
    Creator <- TwoCreators
    Wizard <- OnePage
    Casts <- ScanCasts
    MaxJobs = 2
    Lease = 1
INVARIANTS HandedOnce
PROPERTIES ForwardOnly Unwedged
