SPECIFICATION ProjectSpec
CONSTANTS
    p1 = p1
    p2 = p2
    a1 = a1
    a2 = a2
    i1 = i1
    i2 = i2
    b1 = b1
    b2 = b2
    o1 = o1
    o2 = o2
    None = None
    Proc <- TwoRequests
    Artifact <- TwoArtifacts
    Identity <- TwoIdentities
    Bundle <- TwoBundles
    Proposal <- TwoProposals
    Mixes <- Reborn
    MaxData = 2
    MaxVersion = 5
    MaxCrash = 1
CHECK_DEADLOCK FALSE
\* TLC stops at the first that is violated: leave the one to be shown.
INVARIANTS NeverReborn NothingLeft
