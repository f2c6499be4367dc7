SPECIFICATION Spec
CONSTANTS
    p1 = p1
    p2 = p2
    Proc <- TwoRequests
    Mixes <- IdentityMixes
    MaxSession = 3
    MaxSecret = 3
    MaxCode = 3
    MaxVersion = 5
    DeviceLimit = 2
SYMMETRY Alike
CHECK_DEADLOCK FALSE
INVARIANTS RevokedStays SecondFactorHeld CodeOnce
