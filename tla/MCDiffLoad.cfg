SPECIFICATION MCSpec
CHECK_DEADLOCK FALSE
CONSTANTS
    All = all
    Branch = branch
    Show = show
    Options <- MCOptions
    Watched <- MCWatched
    Cacheable <- MCOptions
    Menu <- MCMenu
    Review = review
    Path = {f, g}
    NONE = NONE
    CacheEntries = 2
    Scenarios <- MCScenarios
INVARIANTS NothingOlder RowsAgree DocumentIsCurrent
PROPERTIES RequestsEnd ViewSettles
