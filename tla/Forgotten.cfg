SPECIFICATION Spec
CONSTANTS
    s1 = s1
    s2 = s2
    s3 = s3
    s4 = s4
    k1 = k1
    k2 = k2
    None = None
    Submit <- Copies
    Key <- Keys
    Mixes <- Forgotten
    MaxOpen = 4
    PerHour = 3
    MaxAttempt = 2
    MaxHead = 2
SYMMETRY Alike
CHECK_DEADLOCK FALSE
INVARIANTS KeyMakesOne
