CONSTANTS
    b1 = b1
    r1 = r1
    r2 = r2
    l1 = l1
    l2 = l2
    NoLink = NoLink
    Browsers <- MCBrowsers
    Requests <- OneRequest
    BrowserOf <- OneBrowserOf
    Links <- MCLinks
    Ops <- RedeemAndLogin
    RedeemForwardsCookie = FALSE
    Idle = 2
    FlowLife = 1
    LoginLife = 3
    AccessLife = 4
    MaxRequests = 2
    MaxClock = 0
SPECIFICATION Spec
PROPERTIES RedeemKeepsLogin
