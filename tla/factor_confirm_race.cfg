CONSTANTS
    r1 = r1
    r2 = r2
    c1 = c1
    k1 = k1
    k2 = k2
    NoKey = NoKey
    Requests <- MCRequests
    Clients <- MCClients
    ClientOf <- MCClientOf
    Keys <- MCKeys
    MaxAttempts = 1
    MaxRequests = 3
    MaxStarts = 1
SPECIFICATION Spec
PROPERTIES EnabledSecretIsProven
CHECK_DEADLOCK FALSE
