\* A draft that stays open while frames are drawn.
SPECIFICATION Spec
CONSTANTS
  NONE = NONE  b1 = b1  b2 = b2  b3 = b3  l1 = l1  l2 = l2  f1 = f1
  Scenarios <- MCOneLine
  RemoteOrigin = {"agent"}
PROPERTIES
  NoSilentOverwrite
