\* What does not hold.  TLC stops at the first invariant violated: take RevokedStays
\* out to see the other.
SPECIFICATION Spec
CONSTANTS
    p1 = p1
    p2 = p2
    Proc <- TwoRequests
    Mixes <- GapMixes
    MaxSession = 3
    MaxSecret = 3
    MaxCode = 3
    MaxVersion = 5
    DeviceLimit = 2
SYMMETRY Alike
CHECK_DEADLOCK FALSE
INVARIANTS RevokedStays FactorAsRequired
