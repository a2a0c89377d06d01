SPECIFICATION Spec
CONSTANTS
  MaxPanes = 2
  MaxSubs = 3
  MaxSize = 2
  Reuse = TRUE
  MaxUp = 3
  MaxDown = 1
INVARIANTS
  OpensAnswered
  TabsInv
PROPERTIES
  BlankTileEnds
CHECK_DEADLOCK FALSE
