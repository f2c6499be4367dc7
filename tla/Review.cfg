SPECIFICATION Spec
CONSTANTS
    alice = alice
    bob = bob
    carol = carol
    p1 = p1
    p2 = p2
    p3 = p3
    Person <- MCPerson
    Requester = alice
    Role <- MCRole
    Admin <- MCNobody
    Enrolled <- MCEnrolled
    Proc <- TwoProc
    Ops <- ReviewOps
    Forms = {TRUE, FALSE}
    Catalogs <- ReviewCatalogs
    Windows <- ShortWindow
    Pin = "absent"
    InitRows <- NoRow
    MinLead = 1
    MaxHorizon = 3
    MaxWindow = 1
    StaleAfter = 2
    ApplyLease = 1
    BundleLease = 1
    MaxTime = 2
    MaxSeq = 4
SYMMETRY ProcSymmetry
CHECK_DEADLOCK FALSE
INVARIANTS QuorumMet SignaturesValid ApprovalsKept BundleExclusive
PROPERTIES MeetsLiveRequirement LandedRemembered
