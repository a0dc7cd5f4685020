SPECIFICATION BrowserSpec
CONSTANTS
    u1 = u1
    t1 = t1
    t2 = t2
    t3 = t3
    r1 = r1
    r2 = r2
    a = a
    b = b
    c1 = c1
    c2 = c2
    None = None
    User = u1
    Users <- MCUsers
    RefreshTokens <- MCTokens
    ResetLinks <- MCLinks
    Requests <- MCRequests
    Tabs <- MCTwoTabs
    Calls <- MCCalls
    TabOf <- MCTabOf
    MayFail = FALSE
    Untroubled = TRUE
INVARIANTS
    CookieRestores
CHECK_DEADLOCK FALSE
