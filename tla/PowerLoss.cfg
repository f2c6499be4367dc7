SPECIFICATION FairSpec
CONSTANTS
    p1 = p1
    p2 = p2
    m1 = m1
    m2 = m2
    m3 = m3
    None = None
    Process <- TwoProcess
    Host <- TwoHosts
    Forced <- NoProcess
    Mutation <- TwoMutations
    Mixes <- Power
    Stale = 1
    MaxCrash = 2
CHECK_DEADLOCK FALSE
INVARIANT AckedDurable
