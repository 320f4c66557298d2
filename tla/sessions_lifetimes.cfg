CONSTANTS
    b1 = b1
    r1 = r1
    r2 = r2
    l1 = l1
    l2 = l2
    NoLink = NoLink
    Browsers <- MCBrowsers
    Requests <- OneRequest
    BrowserOf <- OneBrowserOf
    Links <- MCLinks
    Ops <- LifetimeOps
    RedeemForwardsCookie = TRUE
    Idle = 3
    FlowLife = 1
    LoginLife = 4
    AccessLife = 2
    MaxRequests = 3
    MaxClock = 4
SPECIFICATION Spec
PROPERTIES CleanUpIsInvisible
