CONSTANTS
    None = None
    MaxPresses = 3
    FocusMax = 1
    Drafts <- MCDrafts
    Starts <- MCStarts
    StoredSkills <- MCSkills
SPECIFICATION FairSpec
INVARIANTS
    TypeOK
    OneCallPerControl
    UrlIsTheNewest
PROPERTIES
    MessageKeepsItsTime
    SuccessIsShown
    FactorStaysOn
    ProfileKept
    PendingEnds
CHECK_DEADLOCK FALSE
