SPECIFICATION MCSpec
CONSTANTS
  s1 = s1
  Subs = {s1}
  RingCap = 2
  ScrollCap = 2
  Codes = {0}
  NoCode = NoCode
  DataSizes = {0, 3}
  MaxMsgs = 3
  MaxCmds = 1
  p1 = p1
  p2 = p2
  Sups = {p1, p2}
  Nobody = Nobody
  Rungs = 2
  DegradedAfter = 1
  DisconnectAfter = 2
  ResetAfter = 1
  MaxActions = 1
INVARIANTS
  AtMostOneChunkTwice
  RemotePaneInv
  SupervisorInv
PROPERTIES
  CloseEndsPane
  ActionsObeyed
  DeadSessionCleared
CHECK_DEADLOCK FALSE
