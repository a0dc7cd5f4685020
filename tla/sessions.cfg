SPECIFICATION FairSpec
CONSTANTS
    u1 = u1
    t1 = t1
    t2 = t2
    l1 = l1
    l2 = l2
    r1 = r1
    r2 = r2
    None = None
    Users <- MCUsers
    RefreshTokens <- MCTokens
    ResetLinks <- MCLinks
    Requests <- MCRequests
    MayFail = TRUE
INVARIANTS
    TypeOK
    ResetEndsSessions
PROPERTIES
    LinksWorkOnce
    ResetsFinish
