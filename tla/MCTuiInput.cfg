SPECIFICATION Spec
CONSTANTS
  Mouse <- MCMouse
  Gestures <- MCGestures
  Sizes <- MCSizes
  MaxTyped = 3
  MaxUnread = 2
INVARIANTS
  MouseExact
  InputInv
PROPERTIES
  KeysAsTyped
CHECK_DEADLOCK FALSE
