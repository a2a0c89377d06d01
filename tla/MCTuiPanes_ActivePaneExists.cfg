SPECIFICATION Spec
CONSTANTS
  MaxPanes = 2
  MaxSubs = 3
  MaxSize = 1
  Reuse = TRUE
  MaxUp = 3
  MaxDown = 1
INVARIANTS
  ActivePaneExists
CHECK_DEADLOCK FALSE
