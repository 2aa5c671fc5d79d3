SPECIFICATION StateSpec
CONSTANTS
    None = None
    k1 = k1
    k2 = k2
    Events = {1, 2, 3, 4}
    Missing = {9}
    Keys = {k1, k2}
    Inputs <- StreamInputs
    IterativeSort <- MCIterativeSort
INVARIANTS
    TypeOK
    StateFromAllParents
    LiveFrontier
    UpdatesAreTrue
    RebuiltStatesAreExact
    MapsAreExact
    DepthsCannotMislead
    PartialRoomsAreJudgedRight
    StateDagIsExact
    EventsKeepTheirIdentity
    RedactionsAreAccountedFor
    RejectionIsFinal
PROPERTIES
    CacheImplementsLru
