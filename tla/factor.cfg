CONSTANTS
    r1 = r1
    r2 = r2
    c1 = c1
    k1 = k1
    k2 = k2
    NoKey = NoKey
    Requests <- MCRequests
    Clients <- MCClients
    ClientOf <- MCClientOf
    Keys <- MCKeys
    MaxAttempts = 1
    MaxRequests = 6
    MaxStarts = 2
SPECIFICATION Spec
SYMMETRY Same
INVARIANTS TypeOK FactorNotBypassed EnabledHasSecret WrongCodesBounded
CHECK_DEADLOCK FALSE
