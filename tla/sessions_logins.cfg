CONSTANTS
    b1 = b1
    r1 = r1
    r2 = r2
    l1 = l1
    l2 = l2
    NoLink = NoLink
    Browsers <- MCBrowsers
    Requests <- MCRequests
    BrowserOf <- MCBrowserOf
    Links <- MCLinks
    Ops <- LoginOps
    RedeemForwardsCookie = TRUE
    Idle = 2
    FlowLife = 1
    LoginLife = 3
    AccessLife = 4
    MaxRequests = 4
    MaxClock = 0
SPECIFICATION Spec
SYMMETRY Tabs
INVARIANTS TypeOK LoginUnderFreshToken OneKindOfLogin
PROPERTIES StateGoodForOneAttempt FactorTransitionStartsEmpty DeletedStaysDeleted
