SPECIFICATION Spec
CONSTANTS
    p1 = p1
    p2 = p2
    c1 = c1
    c2 = c2
    d1 = d1
    d2 = d2
    d3 = d3
    d4 = d4
    r1 = r1
    r2 = r2
    None = None
    Proc <- TwoProc
    Content <- TwoContents
    Digest <- FourDigests
    Request <- TwoRequests
    Yield <- MCYield
    Place <- MCPlace
    Reverts <- MCReverts
    Mixes <- TwoUploads
    MaxVersion = 3
    MaxCrash = 1
SYMMETRY Alike
CHECK_DEADLOCK FALSE
INVARIANT ReportOnDisk
