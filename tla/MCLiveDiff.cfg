\* Channels of one entry, in every scenario.
SPECIFICATION Spec
CONSTANTS
  Scenarios <- MCScenarios
  ControlCapacity = 1
  ReloadCapacity = 1
INVARIANTS
  NoChangeForgotten
PROPERTIES
  WatchedViewCatchesUp StatusTellsTruth
