CONSTANTS
    b1 = b1
    r1 = r1
    r2 = r2
    l1 = l1
    l2 = l2
    NoLink = NoLink
    Browsers <- MCBrowsers
    Requests <- MCRequests
    BrowserOf <- MCBrowserOf
    Links <- TwoLinks
    Ops <- RecruiterOps
    RedeemForwardsCookie = FALSE
    Idle = 1
    FlowLife = 1
    LoginLife = 3
    AccessLife = 4
    MaxRequests = 3
    MaxClock = 1
SPECIFICATION Spec
SYMMETRY TabsAndLinks
PROPERTIES GateDropsWhatItJudged
