CONSTANTS
    Rows <- MCRows
    HasFullFile <- MCHasFullFile
    NoLanguage <- MCNoLanguage
    HunkBytes <- MCHunkBytes
    Outcomes <- MCOutcomes
    MaxSourceBytes = 2
    QueueEntries = 2
    QueueBytes = 3
    CacheEntries = 2
    CacheBytes = 3
    w1 = w1
    w2 = w2
    Workers <- MCWorkers
    VisibleRows = 2
    PrefetchRows = 1
    MaxReloads = 1
    MaxScrolls = 1
    EventCapacity = 1
    Scenarios <- MCTerminalScenarios
SPECIFICATION MCSpec
CHECK_DEADLOCK FALSE
INVARIANTS BooksAreExact SomeoneIsAwake OneGeneration
           TerminalInItsPlace InputGoesWhereMeant
PROPERTIES  NobodyWaitsForever
