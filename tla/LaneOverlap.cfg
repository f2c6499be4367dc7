SPECIFICATION Spec
CONSTANTS
    alice = alice
    bob = bob
    carol = carol
    p1 = p1
    p2 = p2
    p3 = p3
    Person <- MCPerson
    Requester = alice
    Role <- MCRole
    Admin <- MCNobody
    Enrolled <- MCEnrolled
    Proc <- TwoProc
    Ops <- BundleDuringTick
    Forms = {FALSE}
    Catalogs <- OnlyFree
    Windows <- EarlyLate
    Pin = "intact"
    InitRows <- ProgressRows
    MinLead = 1
    MaxHorizon = 3
    MaxWindow = 1
    StaleAfter = 2
    ApplyLease = 1
    BundleLease = 1
    MaxTime = 4
    MaxSeq = 4
SYMMETRY ProcSymmetry
CHECK_DEADLOCK FALSE
INVARIANTS LaneExclusion
