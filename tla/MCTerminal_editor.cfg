SPECIFICATION Spec
CONSTANTS
    ChannelCapacity = 1
    Scenarios <- MCScenarios
INVARIANT EditorKeepsItsKeys
CHECK_DEADLOCK FALSE
