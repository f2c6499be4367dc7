SPECIFICATION Spec
CONSTANTS
    ann = ann
    ben = ben
    freeze = freeze
    disabled = disabled
    policy = policy
    t1 = t1
    t2 = t2
    s1 = s1
    t3 = t3
    c1 = c1
    c2 = c2
    p1 = p1
    p2 = p2
    None = None
    Person <- MCPerson
    TwoRead <- MCTwoRead
    OneRead <- MCOneRead
    Freeze = freeze
    Power <- MCPower
    Default <- MCDefault
    Wish <- MCWish
    Team <- MCTeam
    Slug <- MCSlug
    Change <- MCChange
    Proc <- TwoProc
    Mixes <- MCMixes
    InitRows <- MCRows
    InitTeams <- MCTeams
    Lease = 1
    MaxTime = 2
    MaxVersion = 2
CHECK_DEADLOCK FALSE
\* TLC stops at the first that is violated: leave the one to be shown.
INVARIANTS SomebodyAdministers SingleOwner
PROPERTY SettingsShared SettingsIntact
