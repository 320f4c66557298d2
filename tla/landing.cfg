CONSTANTS
    None = None
    Queries = {less, compact}
    MaxEvents = 2
    Stations = 2
SPECIFICATION FairSpec
INVARIANTS
    TypeOK
    ShowsSetting
    EnginesAccounted
    OneLoop
PROPERTIES
    OnlyTheCurrentBuildSpeaks
    CancelledIsGivenBack
    PageFollows
    OneEngineSafe
    OneEngineServed
CHECK_DEADLOCK FALSE
