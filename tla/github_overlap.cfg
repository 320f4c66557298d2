CONSTANTS
    daily = daily
    hand = hand
    c1 = c1
    Repos <- MCRepos
    Threads <- MCThreads
    Readers <- MCReaders
    PerPage = 1
    MaxPages = 2
    MaxRuns = 3
    MaxEdits = 2
    MaxReads = 1
SPECIFICATION Spec
SYMMETRY Same
CHECK_DEADLOCK FALSE
INVARIANTS LatestRunIsWhole
