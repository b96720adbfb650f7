\* A reader who writes between frames and across them, and an agent who writes.
SPECIFICATION Spec
CONSTANTS
  NONE = NONE  b1 = b1  b2 = b2  b3 = b3  l1 = l1  l2 = l2  f1 = f1
  Scenarios <- MCScenarios
  RemoteOrigin = {"agent"}

  
PROPERTIES
  SavedInTheEnd OnlyDraftsOverwrite
