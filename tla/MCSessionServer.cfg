SPECIFICATION Spec
CONSTANTS
    Client = {c1, c2}
    Scanner = {s1, s2}
    NONE = NONE
    ChannelCapacity = 2
    Scenarios <- MCScenarios
INVARIANTS AnswersAreTrue RunningIsListed
PROPERTY EveryoneIsDone
CHECK_DEADLOCK FALSE
