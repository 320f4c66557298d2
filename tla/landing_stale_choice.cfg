CONSTANTS
    None = None
    Queries = {less, compact}
    MaxEvents = 2
    Stations = 2
SPECIFICATION Spec
INVARIANT StoredChoiceWins
CHECK_DEADLOCK FALSE
